--------------------------- MODULE MemTableQueue ----------------------------
(***************************************************************************)
(* The MemTables of the database, oldest first, each with the transaction  *)
(* log its writes go to, and the jobs that flush them to disk.             *)
(*                                                                         *)
(* A job runs in a thread of its own (launch::async) and shares the Table  *)
(* of its MemTable through a shared_ptr.  The model gives the job the      *)
(* table as it was at the launch: FlushedTableIsFrozen of ProjectDb says   *)
(* that nobody writes to it any more, so that the two are the same.        *)
(***************************************************************************)
EXTENDS Directory

VARIABLES
    memTableQueue,  \* m_queue: MemTable and number of its log
    flushFutures,   \* m_flushToDiskFutures, each with the job behind it
    sstCounter,     \* SSTABLE_FILE_COUNTER_BASE
    txlCounter      \* TRANSACTION_LOG_FILE_COUNTER_BASE

MemTables == [table : TableSet, log : Nat]

\* id: the counter in the name of the file the job writes.
FlushJobs ==
    [id : Nat, log : Nat, table : TableSet, stage : {"launched", "writing", "ready"}]

MemTableQueueTypeOK ==
    /\ memTableQueue \in Seq(MemTables)
    /\ flushFutures \in Seq(FlushJobs)
    /\ sstCounter \in Nat
    /\ txlCounter \in Nat

MemTableQueueInit ==
    /\ memTableQueue = <<>>
    /\ flushFutures = <<>>
    /\ sstCounter = 0
    /\ txlCounter = 0

-----------------------------------------------------------------------------

Back == Len(memTableQueue)

\* m_queue.emplace_back(): a new MemTable, and a new file for its log.
EmplaceBack ==
    /\ memTableQueue' = Append(memTableQueue, [table |-> EmptyTable, log |-> txlCounter])
    /\ OpenLog(txlCounter)
    /\ txlCounter' = txlCounter + 1

\* Mutant: the record goes to the oldest log.
MutantWriteFrontLog(k, e) ==
    LET log == memTableQueue[1].log
    IN  /\ txl' = Put(txl, log, Append(txl[log], [key |-> k, value |-> e]))
        /\ memTableQueue' = [memTableQueue EXCEPT ![Back].table = Put(@, k, e)]

(***************************************************************************)
(* set and remove up to tryLaunchFlushToDisk: the record goes to the log   *)
(* and is flushed, then the MemTable changes.  An empty queue first gets   *)
(* its MemTable, see EmplaceBack.                                          *)
(***************************************************************************)
WriteBack(k, e) ==
    LET log == memTableQueue[Back].log
    IN  /\ txl' = Put(txl, log, Append(txl[log], [key |-> k, value |-> e]))
        /\ memTableQueue' = [memTableQueue EXCEPT ![Back].table = Put(@, k, e)]

\* launchFlushToDisk(m_queue[i]).
LaunchFlushToDisk(i) ==
    /\ sstCounter' = sstCounter + 1
    /\ flushFutures' =
           Append(flushFutures, [id |-> sstCounter + 1,
                                 log |-> memTableQueue[i].log,
                                 table |-> memTableQueue[i].table,
                                 stage |-> "launched"])

\* Mutants: writes go on to the MemTable being flushed; the job gets the new
\* MemTable, the back of the queue after emplace_back.
MutantRollWithoutNewMemTable ==
    /\ LaunchFlushToDisk(Back)
    /\ UNCHANGED <<memTableQueue, txl, txlCounter>>

MutantRollFlushesNewMemTable ==
    /\ EmplaceBack
    /\ sstCounter' = sstCounter + 1
    /\ flushFutures' =
           Append(flushFutures, [id |-> sstCounter + 1, log |-> txlCounter,
                                 table |-> EmptyTable, stage |-> "launched"])

\* tryLaunchFlushToDisk of a MemTable that needs it: writes go to a new
\* MemTable from now on.
RollMemTable ==
    /\ EmplaceBack
    /\ LaunchFlushToDisk(Back)

\* Mutant: the log stays.
MutantPop ==
    /\ memTableQueue' = Tail(memTableQueue)
    /\ UNCHANGED <<txl, deprecated>>

\* pop: the oldest MemTable is an SSTable by now, its log is not needed.
Pop ==
    /\ memTableQueue' = Tail(memTableQueue)
    /\ DeprecateLog(Head(memTableQueue).log)

(***************************************************************************)
(* A flush job.  flushSSTable removes the deprecated files and opens the   *)
(* .ip file, writes the table, and the future becomes ready.               *)
(***************************************************************************)
FlushBegin(i) ==
    /\ flushFutures[i].stage = "launched"
    /\ flushFutures' = [flushFutures EXCEPT ![i].stage = "writing"]
    /\ RemoveDeprecated
    /\ inProgress' = Put(inProgress, flushFutures[i].id, EmptyTable)

FlushFinish(i) ==
    /\ flushFutures[i].stage = "writing"
    /\ flushFutures' = [flushFutures EXCEPT ![i].stage = "ready"]
    /\ inProgress' = Put(inProgress, flushFutures[i].id, flushFutures[i].table)
=============================================================================

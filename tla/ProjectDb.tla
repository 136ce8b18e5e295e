----------------------------- MODULE ProjectDb ------------------------------
(***************************************************************************)
(* ProjectDbImpl: one thread calls get, set, remove and at last the        *)
(* destructor; flush jobs and a compaction job run beside it.  Each call   *)
(* first looks after the jobs (checkFutures) and then does its own work.   *)
(* A step of a call ends with each change of the directory, and where it   *)
(* finds out whether a job is done: between two steps the jobs run.        *)
(***************************************************************************)
EXTENDS MemTableQueue, SSTableIndexQueue

CONSTANT MaxWrites  \* how many calls of set and remove are explored

ASSUME BoundAssumption == MaxWrites \in Nat

VARIABLES
    pc,         \* where the calling thread is
    call,       \* the call it is in
    cursor,     \* the position in the loops of update
    reply,      \* what the last get returned
    writes,     \* the number of calls of set and remove so far
    unindexed   \* history: what the destructor flushed without an index

memVars == <<memTableQueue, flushFutures, sstCounter, txlCounter>>
indexVars == <<indexQueue, compactionStartIndex, compaction>>
dirVars == <<sst, inProgress, merged, txl, deprecated>>
callVars == <<pc, call, cursor, reply, writes, unindexed>>
vars == <<memVars, indexVars, dirVars, callVars>>

Calls == [op : {"none", "get", "set", "remove", "close"},
          key : Keys \cup {Absent}, value : Entries \cup {Absent}]

NoCall == [op |-> "none", key |-> Absent, value |-> Absent]

TypeOK ==
    /\ DirectoryTypeOK
    /\ MemTableQueueTypeOK
    /\ SSTableIndexQueueTypeOK
    /\ pc \in {"idle", "compaction", "deprecate", "activate", "flushes", "pop",
               "apply", "roll", "close", "closed"}
    /\ call \in Calls
    /\ cursor \in Nat
    /\ reply \in Values \cup {Absent}
    /\ writes \in Nat
    /\ unindexed \in Seq(Indexes)

Init ==
    /\ EmptyDirectory
    /\ MemTableQueueInit
    /\ SSTableIndexQueueInit
    /\ pc = "idle"
    /\ call = NoCall
    /\ cursor = 1
    /\ reply = Absent
    /\ writes = 0
    /\ unindexed = <<>>

-----------------------------------------------------------------------------
\* The caller.

Enter(c, where) ==
    /\ pc = "idle"
    /\ call' = c
    /\ pc' = where
    /\ UNCHANGED <<memVars, indexVars, dirVars, cursor, reply, unindexed>>

CallGet(k) ==
    /\ Enter([op |-> "get", key |-> k, value |-> Absent], "compaction")
    /\ UNCHANGED writes

CallSet(k, v) ==
    /\ writes < MaxWrites
    /\ Enter([op |-> "set", key |-> k, value |-> v], "compaction")
    /\ writes' = writes + 1

CallRemove(k) ==
    /\ writes < MaxWrites
    /\ Enter([op |-> "remove", key |-> k, value |-> Tombstone], "compaction")
    /\ writes' = writes + 1

CallClose ==
    /\ Enter([op |-> "close", key |-> Absent, value |-> Absent], "close")
    /\ UNCHANGED writes

-----------------------------------------------------------------------------
\* checkSSTableCompactionFuture.  A running compaction keeps the call from
\* looking at the flush jobs.

NoCompactionToCheck ==
    /\ pc = "compaction"
    /\ compaction.stage = "none"
    /\ pc' = "flushes"
    /\ UNCHANGED <<memVars, indexVars, dirVars, call, cursor, reply, writes, unindexed>>

\* Mutant: the flush jobs are looked at while a compaction runs.
MutantCompactionRunning ==
    /\ pc = "compaction"
    /\ compaction.stage \notin {"none", "ready"}
    /\ pc' = "flushes"
    /\ UNCHANGED <<memVars, indexVars, dirVars, call, cursor, reply, writes, unindexed>>

CompactionRunning ==
    /\ pc = "compaction"
    /\ compaction.stage \notin {"none", "ready"}
    /\ pc' = "apply"
    /\ UNCHANGED <<memVars, indexVars, dirVars, call, cursor, reply, writes, unindexed>>

\* Mutant: the destructor does not look at the compaction again.
MutantCompactionReady ==
    /\ pc = "compaction"
    /\ compaction.stage = "ready"
    /\ UpdateAllowed
    /\ pc' = "deprecate"
    /\ cursor' = 1
    /\ UNCHANGED <<memVars, indexVars, dirVars, call, reply, writes, unindexed>>

CompactionReady ==
    /\ pc \in {"compaction", "close"}
    /\ pc = "close" => flushFutures = <<>>
    /\ compaction.stage = "ready"
    /\ UpdateAllowed
    /\ pc' = "deprecate"
    /\ cursor' = 1
    /\ UNCHANGED <<memVars, indexVars, dirVars, call, reply, writes, unindexed>>

\* update of the SSTableIndexQueue, one file at a time.

DeprecateNext ==
    /\ pc = "deprecate"
    /\ DeprecateCompacted(cursor)
    /\ IF cursor = NumSSTableToCompact + 1
       THEN pc' = "activate" /\ cursor' = 1
       ELSE pc' = pc /\ cursor' = cursor + 1
    /\ UNCHANGED <<memVars, indexVars, inProgress, merged, txl>>
    /\ UNCHANGED <<call, reply, writes, unindexed>>

ActivateNext ==
    /\ pc = "activate"
    /\ cursor < Len(compaction.result)
    /\ ActivateCompacted(cursor)
    /\ cursor' = cursor + 1
    /\ UNCHANGED <<memVars, indexVars, inProgress, txl, deprecated>>
    /\ UNCHANGED <<pc, call, reply, writes, unindexed>>

ActivateLast ==
    /\ pc = "activate"
    /\ cursor = Len(compaction.result)
    /\ ActivateCompacted(cursor)
    /\ ReplaceCompacted
    /\ pc' = IF call.op = "close" THEN "close" ELSE "flushes"
    /\ cursor' = 1
    /\ UNCHANGED <<memVars, inProgress, txl, deprecated>>
    /\ UNCHANGED <<call, reply, writes, unindexed>>

-----------------------------------------------------------------------------
\* checkFlushToDiskFutures: the finished jobs from the oldest on, until one
\* is not finished; then a compaction if there is enough to compact.

\* Mutant: any future counts as finished.
MutantOldestFlushReady == flushFutures # <<>>

OldestFlushReady == flushFutures # <<>> /\ Head(flushFutures).stage = "ready"

FlushReady ==
    /\ pc = "flushes"
    /\ OldestFlushReady
    /\ ActivateInProgress(Head(flushFutures).id)
    /\ Insert(Head(flushFutures).id, Head(flushFutures).table)
    /\ pc' = "pop"
    /\ UNCHANGED <<memVars, compactionStartIndex, compaction, merged, txl, deprecated>>
    /\ UNCHANGED <<call, cursor, reply, writes, unindexed>>

PopMemTable ==
    /\ pc = "pop"
    /\ Pop
    /\ flushFutures' = Tail(flushFutures)
    /\ pc' = IF call.op = "close" THEN "close" ELSE "flushes"
    /\ UNCHANGED <<sstCounter, txlCounter, indexVars, sst, inProgress, merged>>
    /\ UNCHANGED <<call, cursor, reply, writes, unindexed>>

\* Mutant: nothing is compacted when there are no flush jobs.
MutantFlushesChecked ==
    /\ pc = "flushes"
    /\ ~OldestFlushReady
    /\ IF flushFutures = <<>> THEN UNCHANGED indexVars ELSE TryLaunchCompaction
    /\ pc' = "apply"
    /\ UNCHANGED <<memVars, dirVars, call, cursor, reply, writes, unindexed>>

FlushesChecked ==
    /\ pc = "flushes"
    /\ ~OldestFlushReady
    /\ TryLaunchCompaction
    /\ pc' = "apply"
    /\ UNCHANGED <<memVars, dirVars, call, cursor, reply, writes, unindexed>>

-----------------------------------------------------------------------------
\* The work of the call itself.

Return == pc' = "idle" /\ call' = NoCall

\* Mutant: a TOMBSTONE in a MemTable does not end the search.
MutantGetValue(k) ==
    LET inMemory == UnderlyingValue(Newest(TablesOf(memTableQueue), k))
    IN  UnderlyingValue(IF inMemory # Absent THEN inMemory ELSE SSTableValue(k))

\* The MemTables are searched first.  A TOMBSTONE found there ends the search.
GetValue(k) ==
    LET inMemory == Newest(TablesOf(memTableQueue), k)
    IN  UnderlyingValue(IF inMemory # Absent THEN inMemory ELSE SSTableValue(k))

Get ==
    /\ pc = "apply"
    /\ call.op = "get"
    /\ reply' = GetValue(call.key)
    /\ Return
    /\ UNCHANGED <<memVars, indexVars, dirVars, cursor, writes, unindexed>>

FirstMemTable ==
    /\ pc = "apply"
    /\ call.op \in {"set", "remove"}
    /\ memTableQueue = <<>>
    /\ EmplaceBack
    /\ UNCHANGED <<flushFutures, sstCounter, indexVars, sst, inProgress, merged, deprecated>>
    /\ UNCHANGED callVars

Write ==
    /\ pc = "apply"
    /\ call.op \in {"set", "remove"}
    /\ memTableQueue # <<>>
    /\ WriteBack(call.key, call.value)
    /\ IF NeedsFlushToDisk(memTableQueue'[Back].table)
       THEN pc' = "roll" /\ UNCHANGED call
       ELSE Return
    /\ UNCHANGED <<flushFutures, sstCounter, txlCounter, indexVars>>
    /\ UNCHANGED <<sst, inProgress, merged, deprecated, cursor, reply, writes, unindexed>>

Roll ==
    /\ pc = "roll"
    /\ RollMemTable
    /\ Return
    /\ UNCHANGED <<indexVars, sst, inProgress, merged, deprecated>>
    /\ UNCHANGED <<cursor, reply, writes, unindexed>>

-----------------------------------------------------------------------------
\* The destructor.  It waits for the flush jobs in their order, makes their
\* files SSTables but inserts no index, waits for the compaction (see
\* CompactionReady), and removes the deprecated files.

CloseFlush ==
    /\ pc = "close"
    /\ OldestFlushReady
    /\ ActivateInProgress(Head(flushFutures).id)
    /\ unindexed' = Append(unindexed, [id |-> Head(flushFutures).id,
                                       table |-> Head(flushFutures).table])
    /\ pc' = "pop"
    /\ UNCHANGED <<memVars, indexVars, merged, txl, deprecated, call, cursor, reply, writes>>

\* Mutant: the destructor does not wait for the compaction.
MutantCloseDone ==
    /\ pc = "close"
    /\ flushFutures = <<>>
    /\ RemoveDeprecated
    /\ pc' = "closed"
    /\ UNCHANGED <<memVars, indexVars, sst, inProgress, merged, txl>>
    /\ UNCHANGED <<call, cursor, reply, writes, unindexed>>

CloseDone ==
    /\ pc = "close"
    /\ flushFutures = <<>>
    /\ compaction.stage = "none"
    /\ RemoveDeprecated
    /\ pc' = "closed"
    /\ UNCHANGED <<memVars, indexVars, sst, inProgress, merged, txl>>
    /\ UNCHANGED <<call, cursor, reply, writes, unindexed>>

-----------------------------------------------------------------------------
\* The jobs.

FlushJob(i) ==
    /\ \/ FlushBegin(i) /\ UNCHANGED <<sst, merged, txl>>
       \/ FlushFinish(i) /\ UNCHANGED <<sst, merged, txl, deprecated>>
    /\ UNCHANGED <<memTableQueue, sstCounter, txlCounter, indexVars, callVars>>

CompactionStep == CompactionJob /\ UNCHANGED <<memVars, callVars>>

Client ==
    \/ \E k \in Keys : CallGet(k) \/ CallRemove(k) \/ \E v \in Values : CallSet(k, v)
    \/ CallClose

CheckFutures ==
    \/ NoCompactionToCheck \/ CompactionRunning \/ CompactionReady
    \/ DeprecateNext \/ ActivateNext \/ ActivateLast
    \/ FlushReady \/ PopMemTable \/ FlushesChecked

CallStep ==
    \/ CheckFutures
    \/ Get \/ FirstMemTable \/ Write \/ Roll
    \/ CloseFlush \/ CloseDone

\* The database is closed for good.
Closed == pc = "closed" /\ UNCHANGED vars

Next ==
    \/ Client
    \/ CallStep
    \/ \E i \in DOMAIN flushFutures : FlushJob(i)
    \/ CompactionStep
    \/ Closed

(***************************************************************************)
(* Fairness: a call that can take a step takes one, and launch::async runs *)
(* every job in a thread of its own, each of which gets its time.          *)
(***************************************************************************)
Fairness ==
    /\ WF_vars(CallStep)
    /\ WF_vars(CompactionStep)
    /\ \A i \in 1..MaxWrites : WF_vars(i \in DOMAIN flushFutures /\ FlushJob(i))

Spec == Init /\ [][Next]_vars

FairSpec == Spec /\ Fairness

-----------------------------------------------------------------------------
(***************************************************************************)
(* What the database holds, in memory and on disk.                         *)
(***************************************************************************)

\* What a call of get would return: the indexed SSTables, those the
\* destructor flushed, and the MemTables, from the oldest to the newest.
View(k) ==
    UnderlyingValue(Newest(TablesOf(indexQueue \o unindexed \o memTableQueue), k))

Contents == [k \in Keys |-> View(k)]

\* The newest file that has the key, by the counters in the names.
NewestFile(files, k) ==
    LET Holders == {n \in DOMAIN files : k \in DOMAIN files[n]}
    IN  IF Holders = {} THEN Absent ELSE files[Max(Holders)][k]

\* The logs are newer than the SSTables, as init has it.
DiskView(k) ==
    LET logged == NewestFile([n \in DOMAIN txl |-> Replay(txl[n])], k)
    IN  UnderlyingValue(IF logged # Absent THEN logged ELSE NewestFile(sst, k))

\* The jobs whose files are not .sst files yet.  At "pop" the first is one.
PendingFlushes == IF pc = "pop" THEN Tail(flushFutures) ELSE flushFutures

Increasing(s) == \A i, j \in DOMAIN s : i < j => s[i] < s[j]

\* update is between its first and its last file.
InUpdate == pc \in {"deprecate", "activate"}

-----------------------------------------------------------------------------
(***************************************************************************)
(* Safety.                                                                 *)
(***************************************************************************)

\* An index describes the file it names, although files are renamed and
\* replaced under it: the two readers of the queue, seek and the compaction
\* job, find every file they look for, with the contents the index was built
\* for.  Only inside update do the files of its range change.
IndexMatchesFile ==
    \A i \in DOMAIN indexQueue :
        ~InUpdate \/ i \notin CompactionRange =>
            /\ indexQueue[i].id \in DOMAIN sst
            /\ sst[indexQueue[i].id] = indexQueue[i].table

\* The counters in the names of the SSTables are in the order of the queue,
\* those of the flush jobs follow, and no counter is used twice: init sorts
\* the files by their counters and so rebuilds the queue in the same order.
\* The same for the logs.
FileOrderIsQueueOrder ==
    LET ids == [i \in DOMAIN indexQueue |-> indexQueue[i].id]
                   \o [i \in DOMAIN unindexed |-> unindexed[i].id]
                   \o [i \in DOMAIN PendingFlushes |-> PendingFlushes[i].id]
        logs == [i \in DOMAIN memTableQueue |-> memTableQueue[i].log]
    IN  /\ Increasing(ids) /\ \A i \in DOMAIN ids : ids[i] <= sstCounter
        /\ Increasing(logs) /\ \A i \in DOMAIN logs : logs[i] < txlCounter

\* pop removes the front MemTable, whatever job has finished: the i-th future
\* is that of the i-th MemTable, the newest MemTable has none, and all the
\* others have.
FuturesMatchQueue ==
    /\ \A i \in DOMAIN flushFutures :
           /\ i < Len(memTableQueue)
           /\ flushFutures[i].log = memTableQueue[i].log
    /\ Len(memTableQueue) <= Len(flushFutures) + 1

\* The Table a flush job reads in its thread is shared with its MemTable, and
\* no call writes to it while the job may read it.
FlushedTableIsFrozen ==
    \A i \in DOMAIN flushFutures : flushFutures[i].table = memTableQueue[i].table

\* The checks of update hold whenever it runs, and the job's iterators are
\* those update computes again from m_compactionStartIndex.
CompactionRangeValid ==
    /\ compaction.stage # "none" =>
           /\ compaction.last = compactionStartIndex + 1 + NumSSTableToCompact
           /\ compaction.last <= Len(indexQueue)
    /\ compaction.stage = "ready" => UpdateAllowed

\* The directory alone holds what the database holds: every key reads from
\* the logs and the SSTables as it reads from memory, at every moment at
\* which the process may stop, except inside update.
DiskHoldsContents == InUpdate \/ \A k \in Keys : DiskView(k) = View(k)

\* The files with the extensions .deprecated, .merged and .ip are temporary:
\* what the others hold is enough at every moment.
TempFilesDisposable == \A k \in Keys : DiskView(k) = View(k)

\* The destructor leaves nothing but SSTables and logs.
CloseLeavesCleanDirectory ==
    pc = "closed" =>
        /\ DOMAIN inProgress = {}
        /\ DOMAIN merged = {}
        /\ deprecated = {}
        /\ \A n \in DOMAIN txl : \E i \in DOMAIN memTableQueue : memTableQueue[i].log = n

(***************************************************************************)
(* Actions.                                                                *)
(***************************************************************************)

\* The compaction job walks through m_queue with iterators of a vector: from
\* its launch until its future is ready nobody inserts or erases.
QueueFrozenDuringCompaction ==
    [][compaction.stage \notin {"none", "ready"} =>
           UNCHANGED <<indexQueue, compactionStartIndex>>]_vars

\* A log is given up only when the MemTable it belongs to is an SSTable.
LogOutlivesMemTable ==
    [][\A n \in DOMAIN txl :
           n \notin DOMAIN txl' =>
               \E i \in DOMAIN sst : sst[i] = Replay(txl[n])]_vars

\* A removed key has no value until it is set again.
RemovedKeyStaysRemoved ==
    [][\A k \in Keys :
           View(k) = Absent /\ View(k)' # Absent =>
               pc = "apply" /\ call.op = "set" /\ call.key = k]_vars

(***************************************************************************)
(* Liveness.                                                               *)
(***************************************************************************)

\* Every call returns, and the destructor ends: no call waits for a job that
\* waits for it, and the loops end.
EveryCallReturns == pc \notin {"idle", "closed"} ~> pc \in {"idle", "closed"}

\* When calls go on but writes stop, every full MemTable becomes an SSTable,
\* and compactions go on until there is nothing left to compact.  Without a
\* caller that goes on, no flush is taken over and no compaction starts.
BacklogDrains ==
    WF_vars(\E k \in Keys : CallGet(k)) =>
        <>[](pc = "closed" \/ (flushFutures = <<>> /\ compaction.stage = "none" /\ ~CanCompact))

(***************************************************************************)
(* The store the database implements.  A call of get, set or remove is its *)
(* request until the call has read or written the MemTables: a write that  *)
(* goes on to start a flush has been answered.                             *)
(***************************************************************************)
Unanswered ==
    IF pc = "roll" \/ call.op = "close" THEN NoCall
    ELSE [call EXCEPT !.value = UnderlyingValue(@)]

KV == INSTANCE KeyValueStore WITH store <- Contents, request <- Unanswered

\* get, set and remove do as projectdb.h has them, with a call of set or
\* remove taking effect once, and no job and no check of one is noticed.
RefinesKeyValueStore == KV!Spec

\* The same but for removed keys, which may come back.
RefinesLossyStore == KV!LossySpec
=============================================================================

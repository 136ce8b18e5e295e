------------------------------ MODULE Recovery ------------------------------
(***************************************************************************)
(* The database over several processes.  A process may stop at any step,   *)
(* and with it its threads: the directory is what remains.  The next one   *)
(* starts with init, the constructor's work on the directory it finds,     *)
(* and then takes calls as ProjectDb has it.                               *)
(***************************************************************************)
EXTENDS ProjectDbInvariant

CONSTANT MaxStops  \* how many times a process stops

ASSUME StopAssumption == MaxStops \in Nat

VARIABLES
    status,  \* "down": no database, "opening": in init, "up": after it
    stops    \* how many times a process has stopped

rvars == <<vars, status, stops>>

RecoveryTypeOK ==
    /\ TypeOK
    /\ status \in {"down", "opening", "up"}
    /\ stops \in Nat

RecoveryInit ==
    /\ Init
    /\ status = "down"
    /\ stops = 0

-----------------------------------------------------------------------------

(***************************************************************************)
(* A process stops, by a crash or after the destructor.  A process that    *)
(* has closed the database may also open it again: then the counters,      *)
(* which are global, go on.                                                *)
(***************************************************************************)
ProcessEnds ==
    /\ status' = "down"
    /\ memTableQueue' = <<>>
    /\ flushFutures' = <<>>
    /\ \/ sstCounter' = 0 /\ txlCounter' = 0
       \/ pc = "closed" /\ UNCHANGED <<sstCounter, txlCounter>>
    /\ indexQueue' = <<>>
    /\ compactionStartIndex' = 0
    /\ compaction' = NoCompaction
    /\ pc' = "idle"
    /\ call' = NoCall
    /\ cursor' = 1
    /\ reply' = Absent
    /\ unindexed' = <<>>
    /\ UNCHANGED <<dirVars, writes>>

Stop ==
    /\ status # "down"
    /\ stops < MaxStops
    /\ stops' = stops + 1
    /\ ProcessEnds

\* Mutant: the files in the order of the directory.
MutantSortedNames(files) ==
    {ids \in [1 .. Cardinality(DOMAIN files) -> DOMAIN files] :
        \A i, j \in DOMAIN ids : i # j => ids[i] # ids[j]}

\* getFilesWithExtSorted: the names are sorted by their counters.
SortedNames(files) ==
    {ids \in [1 .. Cardinality(DOMAIN files) -> DOMAIN files] : Increasing(ids)}

\* Mutant: the counter of the SSTables starts again.
MutantOpenDirectory ==
    /\ status = "down"
    /\ RemoveDeprecated
    /\ inProgress' = [n \in {} |-> EmptyTable]
    /\ merged' = [n \in {} |-> EmptyTable]
    /\ \E ids \in SortedNames(sst) :
           /\ indexQueue' = [i \in DOMAIN ids |-> [id |-> ids[i], table |-> sst[ids[i]]]]
           /\ sstCounter' = sstCounter
    /\ status' = "opening"
    /\ UNCHANGED <<memTableQueue, flushFutures, txlCounter, compactionStartIndex, compaction>>
    /\ UNCHANGED <<sst, txl, callVars, stops>>

(***************************************************************************)
(* init up to the logs: the temporary files are removed, the SSTables are  *)
(* loaded and indexed, and their counter continues.  To stop between these *)
(* leaves a directory on which init does the same again.                   *)
(***************************************************************************)
OpenDirectory ==
    /\ status = "down"
    /\ RemoveDeprecated
    /\ inProgress' = [n \in {} |-> EmptyTable]
    /\ merged' = [n \in {} |-> EmptyTable]
    /\ \E ids \in SortedNames(sst) :
           /\ indexQueue' = [i \in DOMAIN ids |-> [id |-> ids[i], table |-> sst[ids[i]]]]
           /\ sstCounter' = IF ids = <<>> THEN sstCounter ELSE 1 + ids[Len(ids)]
    /\ status' = "opening"
    /\ UNCHANGED <<memTableQueue, flushFutures, txlCounter, compactionStartIndex, compaction>>
    /\ UNCHANGED <<sst, txl, callVars, stops>>

LogsToPush == DOMAIN txl \ {memTableQueue[i].log : i \in DOMAIN memTableQueue}

\* pushFromTransactionLog of the oldest log left.  The last one gets the
\* writes to come, the others are flushed.
PushFromTransactionLog ==
    /\ status = "opening"
    /\ \E n \in LogsToPush :
           LET table == Replay(Readable(txl[n]))
               isLastTransactionLog == LogsToPush = {n}
           IN  /\ \A m \in LogsToPush : n <= m
               /\ memTableQueue' = Append(memTableQueue, [table |-> table, log |-> n])
               /\ IF isLastTransactionLog
                  THEN UNCHANGED <<flushFutures, sstCounter>>
                  ELSE /\ sstCounter' = sstCounter + 1
                       /\ flushFutures' =
                              Append(flushFutures, [id |-> sstCounter + 1, log |-> n,
                                                    table |-> table, stage |-> "launched"])
    /\ UNCHANGED <<txlCounter, indexVars, dirVars, callVars, status, stops>>

\* Mutant: the counter of the logs continues with the last one.
MutantOpened ==
    /\ status = "opening"
    /\ LogsToPush = {}
    /\ txlCounter' = IF memTableQueue = <<>> THEN txlCounter ELSE memTableQueue[Back].log
    /\ status' = "up"
    /\ UNCHANGED <<memTableQueue, flushFutures, sstCounter, indexVars, dirVars, callVars, stops>>

Opened ==
    /\ status = "opening"
    /\ LogsToPush = {}
    /\ txlCounter' = IF memTableQueue = <<>> THEN txlCounter ELSE 1 + memTableQueue[Back].log
    /\ status' = "up"
    /\ UNCHANGED <<memTableQueue, flushFutures, sstCounter, indexVars, dirVars, callVars, stops>>

-----------------------------------------------------------------------------

Open == OpenDirectory \/ PushFromTransactionLog \/ Opened

RecoveryNext ==
    \/ Stop
    \/ Open
    \/ status = "opening" /\ (\E i \in DOMAIN flushFutures : FlushJob(i)) /\ UNCHANGED <<status, stops>>
    \/ status = "up" /\ Next /\ UNCHANGED <<status, stops>>

RecoverySpec == RecoveryInit /\ [][RecoveryNext]_rvars

-----------------------------------------------------------------------------
(***************************************************************************)
(* What the directory alone gives back.                                    *)
(***************************************************************************)

\* What init makes of the files: the tables read back from the logs are
\* newer than the SSTables.
Recovered(k) ==
    LET logged == NewestFile([n \in DOMAIN txl |-> Replay(Readable(txl[n]))], k)
    IN  UnderlyingValue(IF logged # Absent THEN logged ELSE NewestFile(sst, k))

\* What the database holds, or will when it is up again.
Holds(k) == IF status = "up" THEN View(k) ELSE Recovered(k)

\* A log has a record of the key that is not read back.
UnreadIn(log, k) == \E i \in DOMAIN log : i > Len(Readable(log)) /\ log[i].key = k

Unread(k) == \E n \in DOMAIN txl : UnreadIn(txl[n], k)

(***************************************************************************)
(* The inductive invariant: init establishes that of ProjectDb, whatever   *)
(* the process before left behind.                                         *)
(***************************************************************************)
IdleInv ==
    /\ pc = "idle" /\ call = NoCall /\ cursor = 1 /\ unindexed = <<>>
    /\ compactionStartIndex = 0 /\ compaction = NoCompaction

\* The logs are pushed in their order, and each but the last gets a job.
PushInv ==
    /\ \A i, j \in DOMAIN memTableQueue :
           i < j => memTableQueue[i].log < memTableQueue[j].log
    /\ \A i \in DOMAIN memTableQueue :
           /\ memTableQueue[i].log \in DOMAIN txl
           /\ \A n \in LogsToPush : memTableQueue[i].log < n
    /\ Len(flushFutures) <= Len(memTableQueue)
    /\ \A i \in DOMAIN flushFutures :
           /\ flushFutures[i].log = memTableQueue[i].log
           /\ flushFutures[i].table = memTableQueue[i].table
    /\ LogsToPush # {} => Len(flushFutures) = Len(memTableQueue)
    /\ LogsToPush = {} /\ memTableQueue # <<>> => Len(memTableQueue) = Len(flushFutures) + 1

RecoveryInv ==
    /\ RecoveryTypeOK
    /\ IsFiniteSet(DOMAIN sst)
    /\ status = "up" => IndInv
    /\ status # "up" => IdleInv
    /\ status = "down" => memTableQueue = <<>> /\ flushFutures = <<>> /\ indexQueue = <<>>
    /\ status = "opening" => PushInv /\ IdInv /\ InProgressInv /\ IndexMatchesFile

(***************************************************************************)
(* Why no key is lost between two processes: the queues always cover all   *)
(* files, and what the logs give back is in the MemTables, but for keys    *)
(* with records that are not read back.                                    *)
(***************************************************************************)
SameEntry(t, u, k) == (k \in DOMAIN t <=> k \in DOMAIN u) /\ (k \in DOMAIN t => t[k] = u[k])

ReadBack(table, log) ==
    \A k \in Keys : UnreadIn(log, k) \/ SameEntry(table, Replay(Readable(log)), k)

ReadBackInv ==
    /\ \A n \in DOMAIN txl : \E i \in DOMAIN memTableQueue : memTableQueue[i].log = n
    /\ \A i \in DOMAIN memTableQueue :
           ReadBack(memTableQueue[i].table, txl[memTableQueue[i].log])

\* Each MemTable that init builds is what its log gives back.
LoadedInv ==
    \A i \in DOMAIN memTableQueue :
        memTableQueue[i].table = Replay(Readable(txl[memTableQueue[i].log]))

RestartInv ==
    /\ status # "down" => SSTableInv
    /\ status = "opening" => LoadedInv
    /\ status = "up" => ReadBackInv /\ ContentsInv

(***************************************************************************)
(* Properties.                                                             *)
(***************************************************************************)

\* A process that stops loses no key but those with records that are not
\* read back: at every step outside update each other key is, with its newest
\* entry, in an SSTable or in a readable part of a log.
StopKeepsReadableKeys ==
    [][status = "up" /\ status' = "down" /\ ~InUpdate =>
           \A k \in Keys : Unread(k) \/ Recovered(k)' = View(k)]_rvars

\* init loses nothing more, and a stop inside it neither, nor do the flush
\* jobs it has started: the MemTables and indexes it builds hold what the
\* files held, in the order of their age.
OpeningKeepsContents ==
    [][status # "up" => \A k \in Keys : Holds(k)' = Holds(k)]_rvars

\* After init, whatever the process before left behind, the database works as
\* a database that was never closed.
RestartedStoreWorks ==
    [][status = "up" /\ status' = "up" =>
           [KV!Next]_<<Contents, Unanswered, reply>>]_rvars

\* No file is lost sight of: every SSTable has its index (the destructor's
\* excepted) and every log its MemTable, so that each is compacted or removed
\* one day, even when it was left by a process that stopped.
EveryFileIsKnown ==
    status = "up" /\ ~InUpdate =>
        /\ DOMAIN sst = {indexQueue[i].id : i \in DOMAIN indexQueue}
                            \cup {unindexed[i].id : i \in DOMAIN unindexed}
        /\ DOMAIN txl = {memTableQueue[i].log : i \in DOMAIN memTableQueue}
=============================================================================

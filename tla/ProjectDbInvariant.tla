------------------------- MODULE ProjectDbInvariant -------------------------
(***************************************************************************)
(* The inductive invariant of ProjectDb: why the safety properties hold.   *)
(* TLC checks it like any invariant, ProjectDbProofs proves it.            *)
(***************************************************************************)
EXTENDS ProjectDb

\* What a step of a call may rely on: which calls reach it, with which
\* arguments, and what the steps before it have left.
CallInv ==
    /\ pc = "idle" <=> call.op = "none"
    /\ pc \in {"compaction", "flushes", "apply", "roll"} => call.op # "close"
    /\ pc \in {"close", "closed"} => call.op = "close"
    /\ call.op \in {"get", "set", "remove"} => call.key \in Keys
    /\ call.op \in {"set", "remove"} => call.value \in Entries
    /\ call.op # "close" => unindexed = <<>>
    /\ pc = "pop" => flushFutures # <<>> /\ flushFutures[1].stage = "ready"
    /\ pc = "roll" => Len(memTableQueue) = Len(flushFutures) + 1

\* Each MemTable has a log of its own, which is on disk.
LogInv ==
    /\ \A i, j \in DOMAIN memTableQueue :
           i < j => memTableQueue[i].log < memTableQueue[j].log
    /\ \A i \in DOMAIN memTableQueue :
           memTableQueue[i].log \in DOMAIN txl /\ memTableQueue[i].log < txlCounter

\* The first job whose file is not an .sst file yet.
FirstPending == IF pc = "pop" THEN 2 ELSE 1

\* The counters in the file names, oldest first: indexes, what the destructor
\* flushed, jobs.
IdInv ==
    /\ \A i, j \in DOMAIN indexQueue : i < j => indexQueue[i].id < indexQueue[j].id
    /\ \A i, j \in DOMAIN unindexed : i < j => unindexed[i].id < unindexed[j].id
    /\ \A i, j \in DOMAIN flushFutures : i < j => flushFutures[i].id < flushFutures[j].id
    /\ \A i \in DOMAIN indexQueue, j \in DOMAIN unindexed :
           indexQueue[i].id < unindexed[j].id
    /\ \A i \in DOMAIN indexQueue, j \in DOMAIN flushFutures :
           j >= FirstPending => indexQueue[i].id < flushFutures[j].id
    /\ \A i \in DOMAIN unindexed, j \in DOMAIN flushFutures :
           j >= FirstPending => unindexed[i].id < flushFutures[j].id
    /\ \A i \in DOMAIN indexQueue : indexQueue[i].id <= sstCounter
    /\ \A i \in DOMAIN unindexed : unindexed[i].id <= sstCounter
    /\ \A i \in DOMAIN flushFutures : flushFutures[i].id <= sstCounter

\* A finished job has left its table in the .ip file.
InProgressInv ==
    \A i \in DOMAIN flushFutures :
        i >= FirstPending /\ flushFutures[i].stage = "ready" =>
            /\ flushFutures[i].id \in DOMAIN inProgress
            /\ inProgress[flushFutures[i].id] = flushFutures[i].table

\* The flush jobs are looked after only while no compaction runs.
NoCompactionInFlushes ==
    pc \in {"flushes", "pop"} /\ call.op # "close" => compaction.stage = "none"

\* How far the compaction job is: it stays inside its range, and starts a
\* group at a position behind all it has read.
ProgressInv ==
    compaction.stage # "none" =>
        /\ NumSSTableToCompact > 0
        /\ compaction.last = compactionStartIndex + 1 + NumSSTableToCompact
        /\ compaction.last <= Len(indexQueue)
        /\ compaction.stage = "launched" =>
               compaction.next = compactionStartIndex + 1 /\ compaction.result = <<>>
        /\ compaction.stage = "merging" =>
               compaction.next \in compactionStartIndex + 2 .. compaction.last
        /\ compaction.stage \in {"flushing", "writing"} =>
               compaction.next \in compactionStartIndex + 2 .. compaction.last + 1
        /\ compaction.stage = "ready" =>
               compaction.next = compaction.last + 1 /\ compaction.result # <<>>

\* The result takes its names from tables of the range that have been read,
\* in their order.
ReadSoFar == compactionStartIndex + 1 .. compaction.next - 1

ResultInv ==
    /\ compaction.stage # "none" =>
           \A i \in DOMAIN compaction.result :
               \E p \in ReadSoFar : compaction.result[i].id = indexQueue[p].id
    /\ \A i, j \in DOMAIN compaction.result :
           i < j => compaction.result[i].id < compaction.result[j].id
    /\ compaction.stage \in {"merging", "flushing", "writing"} =>
           /\ \E p \in ReadSoFar : compaction.currId = indexQueue[p].id
           /\ \A i \in DOMAIN compaction.result :
                  compaction.result[i].id < compaction.currId

\* The loops of update, and which file a table of the result is in.
Activated == IF pc = "activate" THEN 1 .. cursor - 1 ELSE {}

UpdateInv ==
    /\ InUpdate => compaction.stage = "ready"
    /\ pc = "deprecate" => cursor \in 1 .. NumSSTableToCompact + 1
    /\ pc = "activate" => cursor \in 1 .. Len(compaction.result)
    /\ \A i \in DOMAIN compaction.result :
           LET index == compaction.result[i]
           IN  IF i \in Activated
               THEN index.id \in DOMAIN sst /\ sst[index.id] = index.table
               ELSE index.id \in DOMAIN merged /\ merged[index.id] = index.table

IndInv ==
    /\ TypeOK
    /\ CallInv
    /\ FuturesMatchQueue
    /\ FlushedTableIsFrozen
    /\ LogInv
    /\ IdInv
    /\ InProgressInv
    /\ IndexMatchesFile
    /\ NoCompactionInFlushes
    /\ ProgressInv
    /\ ResultInv
    /\ UpdateInv

-----------------------------------------------------------------------------
(***************************************************************************)
(* What the files hold, and that there are no others: why nothing is lost  *)
(* with the process and nothing is left behind.                            *)
(***************************************************************************)

\* The logs are those of the MemTables, record by record.
ReplayInv ==
    /\ \A n \in DOMAIN txl : \E i \in DOMAIN memTableQueue : memTableQueue[i].log = n
    /\ \A i \in DOMAIN memTableQueue :
           memTableQueue[i].table = Replay(txl[memTableQueue[i].log])

\* The part of the range that has lost its files.
Deprecated ==
    CASE pc = "deprecate" -> compactionStartIndex + 1 .. compactionStartIndex + cursor - 1
      [] pc = "activate" -> CompactionRange
      [] OTHER -> {}

\* Every .sst file has its place in the order of the tables, and the MemTable
\* that pop drops has become one.
SSTableInv ==
    /\ \A n \in DOMAIN sst :
           \/ \E i \in DOMAIN indexQueue \ Deprecated : indexQueue[i].id = n
           \/ \E i \in DOMAIN unindexed : unindexed[i].id = n
           \/ \E i \in Activated : compaction.result[i].id = n
    /\ \A i \in DOMAIN unindexed :
           unindexed[i].id \in DOMAIN sst /\ sst[unindexed[i].id] = unindexed[i].table
    /\ pc = "pop" => \E n \in DOMAIN sst : sst[n] = flushFutures[1].table

\* Every .ip file belongs to a job.
InProgressFilesInv ==
    \A n \in DOMAIN inProgress :
        \E i \in DOMAIN flushFutures : i >= FirstPending /\ flushFutures[i].id = n

\* Every .merged file belongs to the compaction job or to its result.
MergedFilesInv ==
    /\ \A n \in DOMAIN merged :
           \/ compaction.stage = "writing" /\ compaction.currId = n
           \/ \E i \in DOMAIN compaction.result \ Activated : compaction.result[i].id = n
    /\ compaction.stage = "none" => compaction.result = <<>>

\* The destructor has waited for all jobs.
ClosedInv ==
    pc = "closed" => flushFutures = <<>> /\ compaction.stage = "none" /\ deprecated = {}

FilesInv ==
    /\ ReplayInv
    /\ SSTableInv
    /\ InProgressFilesInv
    /\ MergedFilesInv
    /\ ClosedInv

-----------------------------------------------------------------------------
(***************************************************************************)
(* What keys read as while tables go from one place to another: why a      *)
(* reader notices no job.                                                  *)
(***************************************************************************)

\* The tables the compaction job has read, and those it has made of them.
TablesRead == TablesOf(SubSeq(indexQueue, compactionStartIndex + 1, compaction.next - 1))

TablesMade ==
    TablesOf(compaction.result)
        \o IF compaction.stage \in {"merging", "flushing", "writing"}
           THEN <<compaction.currTable>> ELSE <<>>

\* A value is merged as it is; a TOMBSTONE may be dropped, and an older entry
\* is then not in the last group.
MergeInv ==
    compaction.stage # "none" =>
        \A k \in Keys :
            LET read == Newest(TablesRead, k)
                made == Newest(TablesMade, k)
            IN  \/ made = read
                \/ read = Tombstone /\ (Len(TablesMade) = 1 => made = Absent)

\* A MemTable that pop drops is in the newest SSTable.
FlushedInv ==
    pc = "pop" =>
        \A k \in DOMAIN flushFutures[1].table :
            Newest(TablesOf(indexQueue \o unindexed), k) = flushFutures[1].table[k]

\* What the caller has asked for, besides the key.
RequestInv ==
    /\ call.op = "none" => call = NoCall
    /\ call.op = "get" => call.value = Absent
    /\ call.op = "set" => call.value \in Values
    /\ call.op = "remove" => call.value = Tombstone

ContentsInv ==
    /\ MergeInv
    /\ FlushedInv
    /\ RequestInv
=============================================================================

------------------------- MODULE SSTableIndexQueue --------------------------
(***************************************************************************)
(* The SSTableIndexes of the database, oldest first, and the compaction    *)
(* job, which merges the SSTables of a part of the queue into fewer and    *)
(* reads the queue while it runs.                                          *)
(***************************************************************************)
EXTENDS Directory

CONSTANT NumSSTableToCompact  \* NUM_SSTABLE_TO_COMPACT

ASSUME CompactAssumption == NumSSTableToCompact \in Nat

VARIABLES
    indexQueue,            \* m_queue
    compactionStartIndex,  \* m_compactionStartIndex, counted from 0
    compaction             \* m_ssTableCompactionFuture and the job behind it

\* An SSTableIndex: the counter in the file's name, and the table whose keys
\* and positions the index holds.
Indexes == [id : Nat, table : TableSet]

(***************************************************************************)
(* The compaction job has merged the tables of a group, the first of which *)
(* is the file currId, into currTable; next is the position in the queue   *)
(* of the table it reads next and last that of the last it has to read;    *)
(* currTableSize adds up the sizes of the group's files; result lists the  *)
(* tables written so far.  (A size is a sum of sizes, whose type is left   *)
(* open.)                                                                  *)
(***************************************************************************)
IsCompaction(c) ==
    /\ c = [stage |-> c.stage, next |-> c.next, last |-> c.last,
            currId |-> c.currId, currTable |-> c.currTable,
            currTableSize |-> c.currTableSize, result |-> c.result]
    /\ c.stage \in {"none", "launched", "merging", "flushing", "writing", "ready"}
    /\ c.next \in Nat /\ c.last \in Nat /\ c.currId \in Nat
    /\ c.currTable \in TableSet
    /\ c.result \in Seq(Indexes)

NoCompaction ==
    [stage |-> "none", next |-> 0, last |-> 0,
     currId |-> 0, currTable |-> EmptyTable, currTableSize |-> 0, result |-> <<>>]

SSTableIndexQueueTypeOK ==
    /\ indexQueue \in Seq(Indexes)
    /\ compactionStartIndex \in Nat
    /\ IsCompaction(compaction)

SSTableIndexQueueInit ==
    /\ indexQueue = <<>>
    /\ compactionStartIndex = 0
    /\ compaction = NoCompaction

-----------------------------------------------------------------------------

\* insert.
Insert(id, table) == indexQueue' = Append(indexQueue, [id |-> id, table |-> table])

(***************************************************************************)
(* get: the SSTables are searched from the newest to the oldest.  seek     *)
(* finds the block in the index and the entry in the file.                 *)
(***************************************************************************)
SSTableValue(k) == Newest([i \in DOMAIN indexQueue |-> sst[indexQueue[i].id]], k)

\* The positions the next compaction covers: the last table of the previous
\* compaction and NUM_SSTABLE_TO_COMPACT newer ones.
CompactionRange == compactionStartIndex + 1 .. compactionStartIndex + 1 + NumSSTableToCompact

\* Mutant: the tables of the last compaction counted among the new ones.
MutantCanCompactEarly ==
    /\ NumSSTableToCompact > 0
    /\ Len(indexQueue) - compactionStartIndex >= NumSSTableToCompact

CanCompact ==
    /\ NumSSTableToCompact > 0
    /\ Len(indexQueue) - compactionStartIndex - 1 >= NumSSTableToCompact

\* tryLaunchCompaction.
TryLaunchCompaction ==
    /\ compaction' = IF CanCompact
                     THEN [stage |-> "launched",
                           next |-> compactionStartIndex + 1,
                           last |-> compactionStartIndex + 1 + NumSSTableToCompact,
                           currId |-> 0, currTable |-> EmptyTable, currTableSize |-> 0,
                           result |-> <<>>]
                     ELSE compaction
    /\ UNCHANGED <<indexQueue, compactionStartIndex>>

-----------------------------------------------------------------------------

(***************************************************************************)
(* The compaction job, mergeSSTables.  StartGroup loads the table at next  *)
(* as the first of a group, with the result so far; when it is the last    *)
(* table it is written as it is.                                           *)
(***************************************************************************)
StartGroup(result) ==
    LET first == indexQueue[compaction.next].id
    IN  [stage |-> IF compaction.next = compaction.last THEN "flushing" ELSE "merging",
         next |-> compaction.next + 1,
         last |-> compaction.last,
         currId |-> first,
         currTable |-> sst[first],
         currTableSize |-> FileSizeInBytes(sst[first]),
         result |-> result]

CompactionBegin ==
    /\ compaction.stage = "launched"
    /\ RemoveDeprecated
    /\ compaction' = StartGroup(<<>>)
    /\ UNCHANGED <<indexQueue, compactionStartIndex, sst, inProgress, merged, txl>>

CompactionMerge ==
    LET next == sst[indexQueue[compaction.next].id]
        size == compaction.currTableSize + FileSizeInBytes(next)
    IN  /\ compaction.stage = "merging"
        /\ compaction' =
               [stage |-> IF compaction.next = compaction.last \/ size > SSTableMaxBytes
                          THEN "flushing" ELSE "merging",
                next |-> compaction.next + 1,
                last |-> compaction.last,
                currId |-> compaction.currId,
                currTable |-> MergeSSTable(compaction.currTable, next),
                currTableSize |-> size,
                result |-> compaction.result]
        /\ UNCHANGED <<indexQueue, compactionStartIndex, sst, inProgress, merged, txl, deprecated>>

\* flushSSTable of the merged table, in the two steps of a flush job.
CompactionFlushBegin ==
    /\ compaction.stage = "flushing"
    /\ compaction' = [compaction EXCEPT !.stage = "writing"]
    /\ RemoveDeprecated
    /\ merged' = Put(merged, compaction.currId, EmptyTable)
    /\ UNCHANGED <<indexQueue, compactionStartIndex, sst, inProgress, txl>>

CompactionFlushFinish ==
    LET index == [id |-> compaction.currId, table |-> compaction.currTable]
        result == Append(compaction.result, index)
    IN  /\ compaction.stage = "writing"
        /\ merged' = Put(merged, compaction.currId, compaction.currTable)
        /\ compaction' = IF compaction.next > compaction.last
                         THEN [stage |-> "ready",
                               next |-> compaction.next, last |-> compaction.last,
                               currId |-> 0, currTable |-> EmptyTable, currTableSize |-> 0,
                               result |-> result]
                         ELSE StartGroup(result)
        /\ UNCHANGED <<indexQueue, compactionStartIndex, sst, inProgress, txl, deprecated>>

CompactionJob ==
    CompactionBegin \/ CompactionMerge \/ CompactionFlushBegin \/ CompactionFlushFinish

-----------------------------------------------------------------------------

(***************************************************************************)
(* update, called with the result of the job.  It deprecates the files of  *)
(* the range one after the other, renames the merged files, and replaces   *)
(* the range by the result.  The next compaction starts with the last of   *)
(* the new tables, which may not have reached its size yet.                *)
(***************************************************************************)
UpdateAllowed ==
    /\ NumSSTableToCompact > 0
    /\ Len(indexQueue) - (compactionStartIndex + 1) >= NumSSTableToCompact
    /\ compaction.result # <<>>

DeprecateCompacted(i) == DeprecateSSTable(indexQueue[compactionStartIndex + i].id)

ActivateCompacted(i) == ActivateMerged(compaction.result[i].id)

\* Mutants: the first index of the range is not erased; the result inserted at
\* the back.
MutantReplaceKeepsFirst ==
    /\ indexQueue' = SubSeq(indexQueue, 1, compactionStartIndex + 1)
                         \o compaction.result
                         \o SubSeq(indexQueue,
                                   compactionStartIndex + NumSSTableToCompact + 2,
                                   Len(indexQueue))
    /\ compactionStartIndex' = compactionStartIndex + Len(compaction.result) - 1
    /\ compaction' = NoCompaction

MutantReplaceAtBack ==
    /\ indexQueue' = SubSeq(indexQueue, 1, compactionStartIndex)
                         \o SubSeq(indexQueue,
                                   compactionStartIndex + NumSSTableToCompact + 2,
                                   Len(indexQueue))
                         \o compaction.result
    /\ compactionStartIndex' = compactionStartIndex + Len(compaction.result) - 1
    /\ compaction' = NoCompaction

ReplaceCompacted ==
    /\ indexQueue' = SubSeq(indexQueue, 1, compactionStartIndex)
                         \o compaction.result
                         \o SubSeq(indexQueue,
                                   compactionStartIndex + NumSSTableToCompact + 2,
                                   Len(indexQueue))
    /\ compactionStartIndex' = compactionStartIndex + Len(compaction.result) - 1
    /\ compaction' = NoCompaction
=============================================================================

--------------------------- MODULE MCSSTableIndex ---------------------------
(***************************************************************************)
(* SSTableIndex for TLC: keys of one byte, a short and a long value.  An   *)
(* entry takes 21 or 30 bytes.                                             *)
(***************************************************************************)
EXTENDS SSTableIndex, MergeLoop, SequencesExt

CONSTANTS v1, v2

FiveKeys == 1..5
TwoValues == {v1, v2}
OneByte == [k \in Keys |-> 1]
ShortAndLong == [v \in Values |-> IF v = v1 THEN 0 ELSE 9]

\* Every entry in the index; one or two entries in a block; two or three;
\* and the whole table in a block but for the last entry.
SomeBlockSizes == {0, 25, 50, 200}
-----------------------------------------------------------------------------
\* The loop of mergeSSTable against MergeSSTable, for all tables of three keys.

SmallTables == UNION {[K -> Entries] : K \in SUBSET (1..3)}

EntriesOf(t) ==
    LET keys == SetToSortSeq(DOMAIN t, LAMBDA x, y : x < y)
    IN  [i \in DOMAIN keys |-> [key |-> keys[i], value |-> t[keys[i]]]]

ASSUME MergeLoopAssumption ==
    \A old, new \in SmallTables :
        LET entries == MergeEntries(EntriesOf(old), EntriesOf(new))
        IN  InOrder(entries) /\ TableOf(entries) = MergeSSTable(old, new)
=============================================================================

---------------------------- MODULE MCProjectDb -----------------------------
(***************************************************************************)
(* ProjectDb for TLC.  All keys are one byte long and so are all values,   *)
(* so that an entry of a table counts 6 bytes in memory, 5 when it is a    *)
(* TOMBSTONE, and the file of a table with one entry 38 or 37 bytes.       *)
(***************************************************************************)
EXTENDS ProjectDbInvariant, TLC

CONSTANTS k1, k2, v1, v2

OneKey == {k1}
TwoKeys == {k1, k2}
OneValue == {v1}
TwoValues == {v1, v2}

OneByteKeys == [k \in Keys |-> 1]
OneByteValues == [v \in Values |-> 1]

Symmetry == Permutations(Keys) \cup Permutations(Values)

\* A file too large for any compaction to end a group before its last table.
Unlimited == 1000000
=============================================================================

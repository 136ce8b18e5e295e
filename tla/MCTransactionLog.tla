-------------------------- MODULE MCTransactionLog --------------------------
(***************************************************************************)
(* TransactionLog for TLC.  The values are those whose bytes the loader    *)
(* takes differently: none, fewer than four, more, and four zeros, alone   *)
(* and before another byte.                                                *)
(***************************************************************************)
EXTENDS TransactionLog

CharKeys == {<<>>, <<107, 108>>}
CharValues == {<<>>, <<118>>, <<118, 118, 118, 118, 118>>, <<0, 0, 0, 0>>, <<0, 0, 0, 0, 118>>}

KeyLengths == [k \in Keys |-> Len(k)]
ValueLengths == [v \in Values |-> Len(v)]
=============================================================================

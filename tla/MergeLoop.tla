------------------------------ MODULE MergeLoop ------------------------------
(***************************************************************************)
(* mergeSSTable as it goes through its two tables, an iterator in each.    *)
(* Everywhere else a merge is the operator MergeSSTable.  Keys are numbers *)
(* here, for their order.                                                  *)
(***************************************************************************)
EXTENDS Tables

\* A std::map as an iterator goes through it: its entries, the smallest key
\* first.
InOrder(s) == \A i, j \in DOMAIN s : i < j => s[i].key < s[j].key

TableOf(s) ==
    [k \in {s[i].key : i \in DOMAIN s} |-> s[CHOOSE i \in DOMAIN s : s[i].key = k].value]

-----------------------------------------------------------------------------

MergeBegin == [oldIt |-> 1, newIt |-> 1, merged |-> <<>>]

(***************************************************************************)
(* One turn of a loop, the first or one of the two that copy what is left. *)
(***************************************************************************)
MergeTurn(old, new, s) ==
    LET OldLeft == s.oldIt <= Len(old)
        NewLeft == s.newIt <= Len(new)
        older == old[s.oldIt]
        newer == new[s.newIt]
    IN  IF ~OldLeft /\ ~NewLeft THEN s
        ELSE IF OldLeft /\ (NewLeft => older.key < newer.key)
        THEN [oldIt |-> s.oldIt + 1, newIt |-> s.newIt, merged |-> Append(s.merged, older)]
        ELSE IF NewLeft /\ (OldLeft => newer.key < older.key)
        THEN [oldIt |-> s.oldIt, newIt |-> s.newIt + 1, merged |-> Append(s.merged, newer)]
        ELSE [oldIt |-> s.oldIt + 1, newIt |-> s.newIt + 1,
              merged |-> IF newer.value = Tombstone THEN s.merged ELSE Append(s.merged, newer)]

\* The entries in the order in which they are emplaced.
MergeEntries(old, new) ==
    LET after[turns \in 0 .. Len(old) + Len(new)] ==
            IF turns = 0 THEN MergeBegin ELSE MergeTurn(old, new, after[turns - 1])
    IN  after[Len(old) + Len(new)].merged
=============================================================================

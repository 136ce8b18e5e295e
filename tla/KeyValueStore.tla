---------------------------- MODULE KeyValueStore ---------------------------
(***************************************************************************)
(* What projectdb.h promises its caller: get returns the value last set    *)
(* for the key, and nothing when the key was never set or was removed.     *)
(* The store changes only in answer to a request, which it answers once.   *)
(*                                                                         *)
(* Spec is that promise.  LossySpec is the weaker promise under which      *)
(* only set values are kept: a removed key may read as a value again.  A   *)
(* request may also Fail, which changes nothing.                           *)
(***************************************************************************)
CONSTANTS Keys, Values, Absent

VARIABLES
    store,    \* the value of each key, Absent where it has none
    request,  \* what the caller has asked for
    reply     \* what the last get returned

NoRequest == [op |-> "none", key |-> Absent, value |-> Absent]

Init ==
    /\ store = [k \in Keys |-> Absent]
    /\ request = NoRequest
    /\ reply = Absent

Request(r) ==
    /\ request = NoRequest
    /\ request' = r
    /\ UNCHANGED <<store, reply>>

Get(k) ==
    /\ request = [op |-> "get", key |-> k, value |-> Absent]
    /\ request' = NoRequest
    /\ reply' = store[k]
    /\ UNCHANGED store

Set(k, v) ==
    /\ request = [op |-> "set", key |-> k, value |-> v]
    /\ request' = NoRequest
    /\ store' = [store EXCEPT ![k] = v]
    /\ UNCHANGED reply

Remove(k) ==
    /\ request = [op |-> "remove", key |-> k, value |-> Absent]
    /\ request' = NoRequest
    /\ store' = [store EXCEPT ![k] = Absent]
    /\ UNCHANGED reply

\* A request that is answered by an exception.
Fail ==
    /\ request # NoRequest
    /\ request' = NoRequest
    /\ UNCHANGED <<store, reply>>

\* Keys without a value may acquire one, keys with a value keep it.
Reappear ==
    /\ store' \in [Keys -> Values \cup {Absent}]
    /\ \A k \in Keys : store[k] \in Values => store'[k] = store[k]
    /\ UNCHANGED <<request, reply>>

Next ==
    \E k \in Keys :
        \/ Request([op |-> "get", key |-> k, value |-> Absent]) \/ Get(k)
        \/ Request([op |-> "remove", key |-> k, value |-> Absent]) \/ Remove(k)
        \/ \E v \in Values :
               Request([op |-> "set", key |-> k, value |-> v]) \/ Set(k, v)

Spec == Init /\ [][Next]_<<store, request, reply>>

LossySpec == Init /\ [][Next \/ Reappear]_<<store, request, reply>>
=============================================================================

------------------------------- MODULE Tables -------------------------------
(***************************************************************************)
(* The data every other module moves around: keys, values with the         *)
(* TOMBSTONE, and the sorted map from Key to Value that a MemTable holds   *)
(* in memory and an SSTable holds in a file.                               *)
(***************************************************************************)
EXTENDS Integers, Sequences, FiniteSetsExt

CONSTANTS
    Keys,              \* the keys a client uses
    Values,            \* the string values a client stores
    Tombstone,         \* Value::Type::TOMBSTONE_VALUE
    Absent,            \* an empty std::optional
    KeyBytes,          \* length of each key
    ValueBytes,        \* length of each value
    MemTableMaxBytes,  \* MEMTABLE_APPROXIMATE_MAX_SIZE_IN_BYTES
    SSTableMaxBytes    \* SSTABLE_APPROXIMATE_MAX_SIZE_IN_BYTES

ASSUME DataAssumption ==
    /\ Tombstone \notin Values
    /\ Absent \notin Values
    /\ Absent # Tombstone

ASSUME SizeAssumption ==
    /\ KeyBytes \in [Keys -> Nat]
    /\ ValueBytes \in [Values -> Nat]
    /\ MemTableMaxBytes \in Nat
    /\ SSTableMaxBytes \in Nat

-----------------------------------------------------------------------------

\* What a table can hold under a key: a string, or the mark of a removal.
Entries == Values \cup {Tombstone}

\* std::map<Key, Value>.
TableSet == UNION {[K -> Entries] : K \in SUBSET Keys}

EmptyTable == [k \in {} |-> Tombstone]

\* Assignment through operator[], for maps and for directories alike.
Put(f, x, y) == [z \in DOMAIN f \cup {x} |-> IF z = x THEN y ELSE f[z]]

Without(f, x) == [z \in DOMAIN f \ {x} |-> f[z]]

\* Mutant: no test for a TOMBSTONE.
MutantUnderlyingValue(e) == e

\* Value::underlyingValue: a removed key reads as an empty optional.
UnderlyingValue(e) == IF e = Tombstone THEN Absent ELSE e

(***************************************************************************)
(* Sizes.  std::string::size() of a value, the size in memory that         *)
(* needsFlushToDisk adds up, and the size of the file flushSSTable writes: *)
(* a timestamp, the number of entries, and for each entry the key with its *)
(* length, the type of the value and the value with its length.            *)
(***************************************************************************)
Length(e) == IF e = Tombstone THEN 0 ELSE ValueBytes[e]

MemTableBytes(t) == MapThenSumSet(LAMBDA k : KeyBytes[k] + 4 + Length(t[k]), DOMAIN t)

NeedsFlushToDisk(t) == MemTableBytes(t) >= MemTableMaxBytes

FileSizeInBytes(t) ==
    16 + MapThenSumSet(LAMBDA k : 8 + KeyBytes[k] + 12 + Length(t[k]), DOMAIN t)

\* Mutant: the older entry wins.
MutantMergeOldWins(old, new) ==
    [k \in DOMAIN old \cup DOMAIN new |-> IF k \in DOMAIN old THEN old[k] ELSE new[k]]

(***************************************************************************)
(* mergeSSTable: the newer table wins, and a key of both tables whose      *)
(* newer entry is a TOMBSTONE is left out of the result.                   *)
(***************************************************************************)
MergeSSTable(old, new) ==
    LET Kept == {k \in DOMAIN old \cup DOMAIN new :
                     k \in DOMAIN old /\ k \in DOMAIN new => new[k] # Tombstone}
    IN  [k \in Kept |-> IF k \in DOMAIN new THEN new[k] ELSE old[k]]

(***************************************************************************)
(* Both queues are searched from the back, the newest table, and the first *)
(* table that has the key decides.                                         *)
(***************************************************************************)
Newest(ts, k) ==
    LET Holders == {i \in DOMAIN ts : k \in DOMAIN ts[i]}
    IN  IF Holders = {} THEN Absent ELSE ts[Max(Holders)][k]

\* The tables of a queue of records.
TablesOf(q) == [i \in DOMAIN q |-> q[i].table]

-----------------------------------------------------------------------------

\* One record of a transaction log: SET key value, or REMOVE key when the
\* value is the TOMBSTONE.
Records == [key : Keys, value : Entries]

\* The entry a log has for a key is that of its last record of the key.
Replay(log) ==
    [k \in {log[i].key : i \in DOMAIN log} |->
        log[Max({i \in DOMAIN log : log[i].key = k})].value]

\* The records the loader can read back: those before the first SET, which is
\* written as its value and read as a value with its type in front.  See the
\* module TransactionLog.
Readable(log) ==
    LET Sets == {i \in DOMAIN log : log[i].value # Tombstone}
    IN  IF Sets = {} THEN log ELSE SubSeq(log, 1, Min(Sets) - 1)
=============================================================================

---------------------------- MODULE TablesProofs ----------------------------
(***************************************************************************)
(* Lemmas about tables, queues of tables and their newest entries.         *)
(***************************************************************************)
EXTENDS Tables, WellFoundedInduction, TLAPS

-----------------------------------------------------------------------------
\* Tables.

LEMMA EmptyTableType == EmptyTable \in TableSet
BY DEF EmptyTable, TableSet, Entries

LEMMA PutTable ==
    ASSUME NEW t \in TableSet, NEW k \in Keys, NEW e \in Entries
    PROVE  Put(t, k, e) \in TableSet
<1>1. PICK K \in SUBSET Keys : t \in [K -> Entries]
  BY DEF TableSet
<1>2. Put(t, k, e) \in [K \cup {k} -> Entries]
  BY <1>1 DEF Put
<1> QED
  BY <1>2 DEF TableSet

LEMMA MergeTable ==
    ASSUME NEW t \in TableSet, NEW u \in TableSet
    PROVE  MergeSSTable(t, u) \in TableSet
<1>1. PICK K \in SUBSET Keys : t \in [K -> Entries]
  BY DEF TableSet
<1>2. PICK L \in SUBSET Keys : u \in [L -> Entries]
  BY DEF TableSet
<1> DEFINE M == {k \in DOMAIN t \cup DOMAIN u :
                     k \in DOMAIN t /\ k \in DOMAIN u => u[k] # Tombstone}
<1>3. MergeSSTable(t, u) \in [M -> Entries]
  BY <1>1, <1>2 DEF MergeSSTable
<1>4. M \in SUBSET Keys
  BY <1>1, <1>2
<1> QED
  BY <1>3, <1>4 DEF TableSet

-----------------------------------------------------------------------------
\* Sequences.

LEMMA Concatenation ==
    ASSUME NEW S, NEW q \in Seq(S), NEW r \in Seq(S)
    PROVE  /\ q \o r \in Seq(S)
           /\ Len(q \o r) = Len(q) + Len(r)
           /\ \A i \in 1 .. Len(q) + Len(r) :
                  (q \o r)[i] = IF i <= Len(q) THEN q[i] ELSE r[i - Len(q)]
OBVIOUS

LEMMA Subsequence ==
    ASSUME NEW S, NEW q \in Seq(S), NEW m \in Nat, NEW n \in Nat,
           1 <= m, m <= n + 1, n <= Len(q)
    PROVE  /\ SubSeq(q, m, n) \in Seq(S)
           /\ Len(SubSeq(q, m, n)) = n + 1 - m
           /\ \A i \in 1 .. n + 1 - m : SubSeq(q, m, n)[i] = q[m + i - 1]
OBVIOUS

-----------------------------------------------------------------------------
\* The newest table that has a key.

LEMMA MaxInRange ==
    ASSUME NEW n \in Nat, NEW S, S \subseteq 1 .. n, S # {}
    PROVE  Max(S) \in S /\ \A y \in S : Max(S) >= y
<1> DEFINE T == {n - i : i \in S}
<1>1. T \subseteq Nat
  <2> SUFFICES ASSUME NEW i \in S PROVE n - i \in Nat
    OBVIOUS
  <2> QED
    BY i \in 1 .. n
<1>2. T # {}
  OBVIOUS
<1> HIDE DEF T
<1>3. PICK m \in T : \A y \in T : ~(<<y, m>> \in OpToRel(<, Nat))
  BY <1>1, <1>2, NatLessThanWellFounded, WFMin
<1>4. ASSUME NEW y \in T PROVE m <= y
  <2>1. ~(<<y, m>> \in OpToRel(<, Nat))
    BY <1>3
  <2>2. <<y, m>> \in Nat \X Nat /\ <<y, m>>[1] = y /\ <<y, m>>[2] = m
    BY <1>1
  <2>3. y < m => <<y, m>> \in OpToRel(<, Nat)
    BY <2>2 DEF OpToRel
  <2>4. ~(y < m)
    BY <2>1, <2>3
  <2> QED
    BY <2>4, <1>1
<1>5. PICK i \in S : m = n - i
  BY DEF T
<1>6. ASSUME NEW y \in S PROVE i >= y
  <2>1. n - y \in T
    BY DEF T
  <2>2. m <= n - y
    BY <2>1, <1>4
  <2>3. i \in 1 .. n /\ y \in 1 .. n
    OBVIOUS
  <2> QED
    BY <2>2, <2>3, <1>5
<1> QED
  BY <1>6 DEF Max

LEMMA MaxIs ==
    ASSUME NEW S, S \subseteq Nat, NEW m \in S, \A y \in S : m >= y
    PROVE  Max(S) = m
<1>1. \A x \in S : (\A y \in S : x >= y) => x = m
  <2> SUFFICES ASSUME NEW x \in S, \A y \in S : x >= y PROVE x = m
    OBVIOUS
  <2>1. x >= m /\ m >= x /\ x \in Nat /\ m \in Nat
    OBVIOUS
  <2> QED
    BY <2>1
<1> QED
  BY <1>1 DEF Max

LEMMA MinInNat ==
    ASSUME NEW S, S \subseteq Nat, S # {}
    PROVE  Min(S) \in S /\ \A y \in S : Min(S) <= y
<1>1. PICK m \in S : \A y \in S : ~(<<y, m>> \in OpToRel(<, Nat))
  BY NatLessThanWellFounded, WFMin
<1>2. ASSUME NEW y \in S PROVE m <= y
  <2>1. <<y, m>> \in Nat \X Nat /\ <<y, m>>[1] = y /\ <<y, m>>[2] = m
    OBVIOUS
  <2>2. ~(y < m)
    BY <1>1, <2>1 DEF OpToRel
  <2> QED
    BY <2>2
<1> QED
  BY <1>2 DEF Min

LEMMA NewestType ==
    ASSUME NEW ts \in Seq(TableSet), NEW k
    PROVE  Newest(ts, k) \in Entries \cup {Absent}
<1> DEFINE H == {i \in DOMAIN ts : k \in DOMAIN ts[i]}
<1>1. CASE H = {}
  BY <1>1 DEF Newest
<1>2. CASE H # {}
  <2>1. H \subseteq 1 .. Len(ts) /\ Len(ts) \in Nat
    OBVIOUS
  <2>2. Max(H) \in H
    BY <1>2, <2>1, MaxInRange
  <2>3. ts[Max(H)] \in TableSet /\ k \in DOMAIN ts[Max(H)]
    BY <2>2
  <2>4. ts[Max(H)][k] \in Entries
    BY <2>3 DEF TableSet
  <2> QED
    BY <1>2, <2>4 DEF Newest
<1> QED
  BY <1>1, <1>2

LEMMA EntriesArePresent == Absent \notin Entries
BY DataAssumption DEF Entries

\* The newest table that has the key decides.
LEMMA NewestAt ==
    ASSUME NEW ts \in Seq(TableSet), NEW k, NEW m \in DOMAIN ts, k \in DOMAIN ts[m],
           \A i \in DOMAIN ts : k \in DOMAIN ts[i] => i <= m
    PROVE  Newest(ts, k) = ts[m][k] /\ Newest(ts, k) # Absent
<1> DEFINE H == {i \in DOMAIN ts : k \in DOMAIN ts[i]}
<1>1. m \in H /\ H \subseteq Nat
  OBVIOUS
<1>2. \A i \in H : m >= i
  <2> SUFFICES ASSUME NEW i \in H PROVE m >= i
    OBVIOUS
  <2>1. i <= m /\ i \in Nat /\ m \in Nat
    BY <1>1
  <2> QED
    BY <2>1
<1>3. Max(H) = m
  BY <1>1, <1>2, MaxIs
<1>4. Newest(ts, k) = ts[m][k]
  BY <1>1, <1>3 DEF Newest
<1>5. ts[m] \in TableSet
  OBVIOUS
<1>6. ts[m][k] \in Entries
  BY <1>5 DEF TableSet
<1> QED
  BY <1>4, <1>6, EntriesArePresent

LEMMA NewestIsSomewhere ==
    ASSUME NEW ts \in Seq(TableSet), NEW k
    PROVE  \/ /\ Newest(ts, k) = Absent
              /\ \A i \in DOMAIN ts : k \notin DOMAIN ts[i]
           \/ \E m \in DOMAIN ts : /\ k \in DOMAIN ts[m]
                                   /\ \A i \in DOMAIN ts : k \in DOMAIN ts[i] => i <= m
<1> DEFINE H == {i \in DOMAIN ts : k \in DOMAIN ts[i]}
<1>1. CASE H = {}
  BY <1>1 DEF Newest
<1>2. CASE H # {}
  <2>1. H \subseteq 1 .. Len(ts) /\ Len(ts) \in Nat
    OBVIOUS
  <2>2. Max(H) \in H /\ \A y \in H : Max(H) >= y
    BY <1>2, <2>1, MaxInRange
  <2>3. \A y \in H : y <= Max(H)
    BY <2>1, <2>2
  <2> QED
    BY <2>2, <2>3
<1> QED
  BY <1>1, <1>2

\* Tables that agree on a key, one by one, agree on it together.
LEMMA NewestSame ==
    ASSUME NEW ts \in Seq(TableSet), NEW us \in Seq(TableSet), NEW k, Len(ts) = Len(us),
           \A i \in DOMAIN ts :
               /\ k \in DOMAIN ts[i] <=> k \in DOMAIN us[i]
               /\ k \in DOMAIN ts[i] => ts[i][k] = us[i][k]
    PROVE  Newest(ts, k) = Newest(us, k)
<1>1. DOMAIN ts = DOMAIN us
  OBVIOUS
<1>2. CASE Newest(ts, k) = Absent /\ \A i \in DOMAIN ts : k \notin DOMAIN ts[i]
  <2>1. \A i \in DOMAIN us : k \notin DOMAIN us[i]
    BY <1>1, <1>2
  <2>2. Newest(us, k) = Absent
    BY <2>1, NewestIsSomewhere
  <2> QED
    BY <1>2, <2>2
<1>3. CASE \E m \in DOMAIN ts : /\ k \in DOMAIN ts[m]
                                /\ \A i \in DOMAIN ts : k \in DOMAIN ts[i] => i <= m
  <2>1. PICK m \in DOMAIN ts : /\ k \in DOMAIN ts[m]
                               /\ \A i \in DOMAIN ts : k \in DOMAIN ts[i] => i <= m
    BY <1>3
  <2>2. /\ m \in DOMAIN us /\ k \in DOMAIN us[m] /\ ts[m][k] = us[m][k]
        /\ \A i \in DOMAIN us : k \in DOMAIN us[i] => i <= m
    BY <2>1, <1>1
  <2>3. Newest(ts, k) = ts[m][k]
    BY <2>1, NewestAt
  <2>4. Newest(us, k) = us[m][k]
    BY <2>2, NewestAt
  <2> QED
    BY <2>2, <2>3, <2>4
<1> QED
  BY <1>2, <1>3, NewestIsSomewhere

LEMMA NewestOfConcatenation ==
    ASSUME NEW p \in Seq(TableSet), NEW q \in Seq(TableSet), NEW k
    PROVE  Newest(p \o q, k) = IF Newest(q, k) # Absent THEN Newest(q, k) ELSE Newest(p, k)
<1> DEFINE pq == p \o q
<1>1. /\ pq \in Seq(TableSet) /\ Len(p) \in Nat /\ Len(q) \in Nat
      /\ DOMAIN pq = 1 .. Len(p) + Len(q)
      /\ DOMAIN p = 1 .. Len(p) /\ DOMAIN q = 1 .. Len(q)
      /\ \A i \in 1 .. Len(p) + Len(q) :
             pq[i] = IF i <= Len(p) THEN p[i] ELSE q[i - Len(p)]
  BY Concatenation
<1> HIDE DEF pq
<1>2. \A i \in DOMAIN pq : \/ i \in DOMAIN p /\ i <= Len(p) /\ pq[i] = p[i]
                           \/ /\ i > Len(p) /\ i - Len(p) \in DOMAIN q
                              /\ pq[i] = q[i - Len(p)]
  BY <1>1
<1>3. /\ \A i \in DOMAIN p : i \in DOMAIN pq /\ pq[i] = p[i]
      /\ \A i \in DOMAIN q : Len(p) + i \in DOMAIN pq /\ pq[Len(p) + i] = q[i]
  BY <1>1
<1>4. CASE Newest(q, k) # Absent
  <2>1. PICK m \in DOMAIN q : /\ k \in DOMAIN q[m]
                              /\ \A i \in DOMAIN q : k \in DOMAIN q[i] => i <= m
    BY <1>4, NewestIsSomewhere
  <2>2. Newest(q, k) = q[m][k]
    BY <2>1, NewestAt
  <2>3. ASSUME NEW i \in DOMAIN pq, k \in DOMAIN pq[i] PROVE i <= Len(p) + m
    <3>1. i \in Nat /\ m \in Nat
      BY <1>1
    <3>2. CASE i <= Len(p)
      BY <3>1, <3>2, <1>1
    <3>3. CASE i > Len(p)
      <4>1. i - Len(p) \in DOMAIN q /\ pq[i] = q[i - Len(p)]
        BY <3>1, <3>3, <1>1
      <4>2. i - Len(p) <= m
        BY <4>1, <2>1, <2>3
      <4> QED
        BY <4>2, <3>1, <1>1
    <3> QED
      BY <3>1, <3>2, <3>3, <1>1
  <2>4. Newest(pq, k) = pq[Len(p) + m][k]
    BY <2>1, <2>3, <1>1, <1>3, NewestAt
  <2> QED
    BY <2>2, <2>4, <1>3, <1>4 DEF pq
<1>5. CASE Newest(q, k) = Absent
  <2>1. \A i \in DOMAIN q : k \notin DOMAIN q[i]
    BY <1>5, NewestIsSomewhere, NewestAt
  <2>2. \A i \in DOMAIN pq : k \in DOMAIN pq[i] => i \in DOMAIN p /\ pq[i] = p[i]
    BY <2>1, <1>2
  <2>3. CASE \E m \in DOMAIN p : /\ k \in DOMAIN p[m]
                                 /\ \A i \in DOMAIN p : k \in DOMAIN p[i] => i <= m
    <3>1. PICK m \in DOMAIN p : /\ k \in DOMAIN p[m]
                                /\ \A i \in DOMAIN p : k \in DOMAIN p[i] => i <= m
      BY <2>3
    <3>2. Newest(p, k) = p[m][k]
      BY <3>1, NewestAt
    <3>3. \A i \in DOMAIN pq : k \in DOMAIN pq[i] => i <= m
      BY <3>1, <2>2
    <3>4. Newest(pq, k) = pq[m][k]
      BY <3>1, <3>3, <1>1, <1>3, NewestAt
    <3> QED
      BY <3>1, <3>2, <3>4, <1>3, <1>5 DEF pq
  <2>4. CASE Newest(p, k) = Absent /\ \A i \in DOMAIN p : k \notin DOMAIN p[i]
    <3>1. \A i \in DOMAIN pq : k \notin DOMAIN pq[i]
      BY <2>2, <2>4
    <3>2. Newest(pq, k) = Absent
      BY <3>1 DEF Newest
    <3> QED
      BY <3>2, <2>4, <1>5 DEF pq
  <2> QED
    BY <2>3, <2>4, NewestIsSomewhere
<1> QED
  BY <1>4, <1>5

-----------------------------------------------------------------------------
\* The tables of a queue of records.

LEMMA TablesOfQueue ==
    ASSUME NEW S, NEW q \in Seq(S), \A r \in S : r.table \in TableSet
    PROVE  /\ TablesOf(q) \in Seq(TableSet)
           /\ Len(TablesOf(q)) = Len(q)
           /\ DOMAIN TablesOf(q) = DOMAIN q
           /\ \A i \in DOMAIN q : TablesOf(q)[i] = q[i].table
<1>1. \A i \in DOMAIN q : q[i].table \in TableSet
  OBVIOUS
<1>2. DOMAIN q = 1 .. Len(q) /\ Len(q) \in Nat
  OBVIOUS
<1>3. TablesOf(q) = [i \in 1 .. Len(q) |-> q[i].table]
  BY <1>2 DEF TablesOf
<1> QED
  BY <1>1, <1>2, <1>3

LEMMA TablesOfConcatenation ==
    ASSUME NEW S, NEW p \in Seq(S), NEW q \in Seq(S), \A r \in S : r.table \in TableSet
    PROVE  TablesOf(p \o q) = TablesOf(p) \o TablesOf(q)
<1> DEFINE tp == TablesOf(p)
           tq == TablesOf(q)
           pq == p \o q
<1>1. /\ tp \in Seq(TableSet) /\ Len(tp) = Len(p) /\ \A i \in 1 .. Len(p) : tp[i] = p[i].table
      /\ tq \in Seq(TableSet) /\ Len(tq) = Len(q) /\ \A i \in 1 .. Len(q) : tq[i] = q[i].table
      /\ Len(p) \in Nat /\ Len(q) \in Nat
  BY TablesOfQueue
<1>2. /\ pq \in Seq(S) /\ Len(pq) = Len(p) + Len(q)
      /\ \A i \in 1 .. Len(p) + Len(q) : pq[i] = IF i <= Len(p) THEN p[i] ELSE q[i - Len(p)]
  BY Concatenation
<1>3. /\ TablesOf(pq) \in Seq(TableSet) /\ Len(TablesOf(pq)) = Len(p) + Len(q)
      /\ \A i \in 1 .. Len(p) + Len(q) : TablesOf(pq)[i] = pq[i].table
  <2> HIDE DEF pq
  <2>1. /\ TablesOf(pq) \in Seq(TableSet) /\ Len(TablesOf(pq)) = Len(pq)
        /\ \A i \in DOMAIN pq : TablesOf(pq)[i] = pq[i].table
    BY <1>2, TablesOfQueue
  <2>2. DOMAIN pq = 1 .. Len(pq)
    BY <1>2
  <2> QED
    BY <1>2, <2>1, <2>2
<1> HIDE DEF tp, tq, pq
<1>4. /\ tp \o tq \in Seq(TableSet) /\ Len(tp \o tq) = Len(p) + Len(q)
      /\ \A i \in 1 .. Len(p) + Len(q) :
             (tp \o tq)[i] = IF i <= Len(p) THEN tp[i] ELSE tq[i - Len(p)]
  <2>1. /\ tp \o tq \in Seq(TableSet) /\ Len(tp \o tq) = Len(tp) + Len(tq)
        /\ \A i \in 1 .. Len(tp) + Len(tq) :
               (tp \o tq)[i] = IF i <= Len(tp) THEN tp[i] ELSE tq[i - Len(tp)]
    <3>1. tp \in Seq(TableSet) /\ tq \in Seq(TableSet)
      BY <1>1
    <3> QED
      BY <3>1, Concatenation
  <2> QED
    BY <1>1, <2>1
<1>5. ASSUME NEW i \in 1 .. Len(p) + Len(q) PROVE TablesOf(pq)[i] = (tp \o tq)[i]
  <2>1. CASE i <= Len(p)
    <3>1. i \in 1 .. Len(p)
      BY <2>1, <1>1
    <3> QED
      BY <2>1, <3>1, <1>1, <1>2, <1>3, <1>4
  <2>2. CASE ~(i <= Len(p))
    <3>1. i - Len(p) \in 1 .. Len(q)
      BY <2>2, <1>1
    <3> QED
      BY <2>2, <3>1, <1>1, <1>2, <1>3, <1>4
  <2> QED
    BY <2>1, <2>2
<1>6. TablesOf(pq) = tp \o tq
  <2>1. PICK x \in Seq(TableSet), y \in Seq(TableSet) : x = TablesOf(pq) /\ y = tp \o tq
    BY <1>3, <1>4
  <2>2. Len(x) = Len(y) /\ \A i \in 1 .. Len(x) : x[i] = y[i]
    BY <2>1, <1>3, <1>4, <1>5
  <2>3. x = [i \in 1 .. Len(x) |-> x[i]] /\ y = [i \in 1 .. Len(y) |-> y[i]]
    OBVIOUS
  <2> QED
    BY <2>1, <2>2, <2>3
<1> QED
  BY <1>6 DEF tp, tq, pq

-----------------------------------------------------------------------------
\* A queue that gets one more table.

LEMMA NewestOfNone ==
    ASSUME NEW k
    PROVE  Newest(<<>>, k) = Absent
BY DEF Newest

LEMMA NewestOfOne ==
    ASSUME NEW t \in TableSet, NEW k
    PROVE  /\ <<t>> \in Seq(TableSet)
           /\ Newest(<<t>>, k) = IF k \in DOMAIN t THEN t[k] ELSE Absent
<1>1. <<t>> \in Seq(TableSet) /\ DOMAIN <<t>> = {1} /\ <<t>>[1] = t
  OBVIOUS
<1>2. CASE k \in DOMAIN t
  <2>1. \A i \in DOMAIN <<t>> : k \in DOMAIN <<t>>[i] => i <= 1
    BY <1>1
  <2>2. 1 \in DOMAIN <<t>> /\ k \in DOMAIN <<t>>[1]
    BY <1>1, <1>2
  <2>3. Newest(<<t>>, k) = <<t>>[1][k]
    BY <2>1, <2>2, <1>1, NewestAt
  <2> QED
    BY <2>3, <1>1, <1>2
<1>3. CASE k \notin DOMAIN t
  <2>1. {i \in DOMAIN <<t>> : k \in DOMAIN <<t>>[i]} = {}
    BY <1>1, <1>3
  <2> QED
    BY <2>1, <1>1, <1>3 DEF Newest
<1> QED
  BY <1>2, <1>3

LEMMA EntryIsPresent ==
    ASSUME NEW t \in TableSet, NEW k \in DOMAIN t
    PROVE  t[k] \in Entries /\ t[k] # Absent
<1>1. t[k] \in Entries
  BY DEF TableSet
<1> QED
  BY <1>1, EntriesArePresent

LEMMA NewestOfAppend ==
    ASSUME NEW ts \in Seq(TableSet), NEW t \in TableSet, NEW k
    PROVE  /\ Append(ts, t) \in Seq(TableSet)
           /\ Newest(Append(ts, t), k) = IF k \in DOMAIN t THEN t[k] ELSE Newest(ts, k)
<1>1. Append(ts, t) = ts \o <<t>> /\ Append(ts, t) \in Seq(TableSet)
  OBVIOUS
<1>2. /\ <<t>> \in Seq(TableSet)
      /\ Newest(<<t>>, k) = IF k \in DOMAIN t THEN t[k] ELSE Absent
  BY NewestOfOne
<1>3. Newest(ts \o <<t>>, k) = IF Newest(<<t>>, k) # Absent THEN Newest(<<t>>, k)
                               ELSE Newest(ts, k)
  BY <1>2, NewestOfConcatenation
<1>4. k \in DOMAIN t => t[k] # Absent
  BY EntryIsPresent
<1> QED
  BY <1>1, <1>2, <1>3, <1>4

LEMMA TablesOfAppend ==
    ASSUME NEW S, NEW q \in Seq(S), NEW r \in S, \A x \in S : x.table \in TableSet
    PROVE  TablesOf(Append(q, r)) = Append(TablesOf(q), r.table)
<1>1. Append(q, r) = q \o <<r>> /\ <<r>> \in Seq(S)
  OBVIOUS
<1>2. TablesOf(<<r>>) = <<r.table>>
  <2>1. TablesOf(<<r>>) = [i \in {1} |-> r.table]
    BY DEF TablesOf
  <2> QED
    BY <2>1
<1>3. TablesOf(q) \in Seq(TableSet)
  BY TablesOfQueue
<1>4. TablesOf(q \o <<r>>) = TablesOf(q) \o TablesOf(<<r>>)
  BY <1>1, TablesOfConcatenation
<1>5. TablesOf(q) \o <<r.table>> = Append(TablesOf(q), r.table)
  BY <1>3
<1> QED
  BY <1>1, <1>2, <1>4, <1>5

LEMMA TablesOfNone == TablesOf(<<>>) = <<>>
BY DEF TablesOf

-----------------------------------------------------------------------------
\* The table of a log.

LEMMA ReadableType ==
    ASSUME NEW log \in Seq(Records)
    PROVE  Readable(log) \in Seq(Records)
<1> DEFINE Sets == {i \in DOMAIN log : log[i].value # Tombstone}
<1>1. CASE Sets = {}
  BY <1>1 DEF Readable
<1>2. CASE Sets # {}
  <2>1. Sets \subseteq 1 .. Len(log) /\ Sets \subseteq Nat
    OBVIOUS
  <2> HIDE DEF Sets
  <2>2. Min(Sets) \in 1 .. Len(log)
    BY <1>2, <2>1, MinInNat
  <2>3. Min(Sets) - 1 \in Nat /\ Min(Sets) - 1 <= Len(log) /\ 1 <= Min(Sets) - 1 + 1
    BY <2>2
  <2>4. SubSeq(log, 1, Min(Sets) - 1) \in Seq(Records)
    BY <2>3, Subsequence
  <2> QED
    BY <1>2, <2>4 DEF Readable, Sets
<1> QED
  BY <1>1, <1>2

LEMMA ReplayType ==
    ASSUME NEW log \in Seq(Records)
    PROVE  Replay(log) \in TableSet
<1> DEFINE K == {log[i].key : i \in DOMAIN log}
           At(k) == {i \in DOMAIN log : log[i].key = k}
<1>1. K \in SUBSET Keys
  <2>1. \A i \in DOMAIN log : log[i] \in Records
    OBVIOUS
  <2> QED
    BY <2>1 DEF Records
<1>2. ASSUME NEW k \in K PROVE log[Max(At(k))].value \in Entries
  <2>1. At(k) \subseteq 1 .. Len(log) /\ At(k) # {}
    OBVIOUS
  <2> HIDE DEF At
  <2>2. Max(At(k)) \in At(k)
    BY <2>1, MaxInRange, Len(log) \in Nat
  <2> USE DEF At
  <2>3. log[Max(At(k))] \in Records
    BY <2>2
  <2> QED
    BY <2>3 DEF Records
<1>3. Replay(log) \in [K -> Entries]
  BY <1>2 DEF Replay
<1> QED
  BY <1>1, <1>3 DEF TableSet

LEMMA ReplayEmpty == Replay(<<>>) = EmptyTable
<1>1. \A k : k \notin {<<>>[i].key : i \in DOMAIN <<>>}
  OBVIOUS
<1> QED
  BY <1>1 DEF Replay, EmptyTable

\* A log that gets one more record holds the table after one more write.
LEMMA ReplayAppend ==
    ASSUME NEW log \in Seq(Records), NEW r \in Records
    PROVE  Replay(Append(log, r)) = Put(Replay(log), r.key, r.value)
<1> DEFINE longer == Append(log, r)
           Of(l, k) == {i \in DOMAIN l : l[i].key = k}
<1>1. /\ DOMAIN log = 1 .. Len(log) /\ Len(log) \in Nat
      /\ DOMAIN longer = 1 .. Len(log) + 1
      /\ longer[Len(log) + 1] = r
      /\ \A i \in 1 .. Len(log) : longer[i] = log[i]
  OBVIOUS
<1> HIDE DEF longer
<1>2. {longer[i].key : i \in DOMAIN longer} = {log[i].key : i \in DOMAIN log} \cup {r.key}
  <2>1. \A i \in DOMAIN longer : i \in DOMAIN log \/ i = Len(log) + 1
    BY <1>1
  <2>2. DOMAIN log \subseteq DOMAIN longer /\ Len(log) + 1 \in DOMAIN longer
    BY <1>1
  <2> QED
    BY <1>1, <2>1, <2>2
<1>3. longer[Max(Of(longer, r.key))].value = r.value
  <2>1. Of(longer, r.key) \subseteq Nat /\ Len(log) + 1 \in Of(longer, r.key)
    BY <1>1
  <2>2. \A i \in Of(longer, r.key) : Len(log) + 1 >= i
    BY <1>1
  <2>3. Max(Of(longer, r.key)) = Len(log) + 1
    BY <2>1, <2>2, MaxIs
  <2> QED
    BY <2>3, <1>1
<1>4. ASSUME NEW k \in {log[i].key : i \in DOMAIN log}, k # r.key
      PROVE  longer[Max(Of(longer, k))].value = log[Max(Of(log, k))].value
  <2>1. Of(longer, k) = Of(log, k)
    <3>1. \A i \in DOMAIN longer : i \in DOMAIN log \/ i = Len(log) + 1
      BY <1>1
    <3> QED
      BY <1>1, <1>4, <3>1
  <2>2. Of(log, k) \subseteq 1 .. Len(log) /\ Of(log, k) # {}
    BY <1>1, <1>4
  <2>3. Max(Of(log, k)) \in Of(log, k)
    BY <2>2, <1>1, MaxInRange
  <2>4. longer[Max(Of(log, k))] = log[Max(Of(log, k))]
    BY <2>3, <1>1
  <2> QED
    BY <2>1, <2>4
<1>5. Replay(longer) = [k \in {longer[i].key : i \in DOMAIN longer} |->
                            longer[Max(Of(longer, k))].value]
  BY DEF Replay
<1>6. Replay(log) = [k \in {log[i].key : i \in DOMAIN log} |-> log[Max(Of(log, k))].value]
  BY DEF Replay
<1> HIDE DEF Of
<1>7. Replay(longer) = Put(Replay(log), r.key, r.value)
  <2> DEFINE D == {log[i].key : i \in DOMAIN log}
             V(k) == longer[Max(Of(longer, k))].value
             W(k) == log[Max(Of(log, k))].value
  <2>1. \A k \in D \cup {r.key} : V(k) = IF k = r.key THEN r.value ELSE W(k)
    BY <1>3, <1>4
  <2>2. Replay(longer) = [k \in D \cup {r.key} |-> V(k)]
    BY <1>2, <1>5
  <2>3. Replay(log) = [k \in D |-> W(k)]
    BY <1>6
  <2> HIDE DEF D, V, W
  <2> QED
    BY <2>1, <2>2, <2>3 DEF Put
<1> QED
  BY <1>7 DEF longer

LEMMA ReadableLength ==
    ASSUME NEW log \in Seq(Records)
    PROVE  Len(Readable(log)) \in Nat /\ Len(Readable(log)) <= Len(log)
<1> DEFINE Sets == {i \in DOMAIN log : log[i].value # Tombstone}
<1>1. CASE Sets = {}
  BY <1>1 DEF Readable
<1>2. CASE Sets # {}
  <2>1. Sets \subseteq 1 .. Len(log) /\ Sets \subseteq Nat
    OBVIOUS
  <2> HIDE DEF Sets
  <2>2. PICK m \in 1 .. Len(log) : m = Min(Sets)
    BY <1>2, <2>1, MinInNat
  <2>3. m - 1 \in Nat /\ m - 1 <= Len(log) /\ 1 <= m - 1 + 1
    BY <2>2
  <2>4. Len(SubSeq(log, 1, m - 1)) = m - 1 + 1 - 1
    BY <2>3, Subsequence
  <2>5. Readable(log) = SubSeq(log, 1, m - 1)
    BY <1>2, <2>2 DEF Readable, Sets
  <2> QED
    BY <2>3, <2>4, <2>5
<1> QED
  BY <1>1, <1>2

\* A removal behind removals is read back, a SET and what follows one is not,
\* and what was read back before still is.
LEMMA ReadableAppend ==
    ASSUME NEW log \in Seq(Records), NEW r \in Records
    PROVE  \/ /\ r.value = Tombstone /\ Readable(log) = log
              /\ Readable(Append(log, r)) = Append(log, r)
           \/ Readable(Append(log, r)) = Readable(log)
<1> DEFINE longer == Append(log, r)
           Sets(l) == {i \in DOMAIN l : l[i].value # Tombstone}
<1>1. /\ longer \in Seq(Records) /\ Len(longer) = Len(log) + 1
      /\ DOMAIN log = 1 .. Len(log) /\ Len(log) \in Nat
      /\ DOMAIN longer = 1 .. Len(log) + 1
      /\ longer[Len(log) + 1] = r
      /\ \A i \in 1 .. Len(log) : longer[i] = log[i]
  OBVIOUS
<1>2. \A l : Readable(l) = IF Sets(l) = {} THEN l ELSE SubSeq(l, 1, Min(Sets(l)) - 1)
  BY DEF Readable
<1>3. \A m \in 1 .. Len(log) + 1 : SubSeq(longer, 1, m - 1) = SubSeq(log, 1, m - 1)
  OBVIOUS
<1>4. SubSeq(longer, 1, Len(log) + 1 - 1) = log
  OBVIOUS
<1> HIDE DEF longer
<1>5. /\ Sets(log) \subseteq 1 .. Len(log) /\ Sets(longer) \subseteq 1 .. Len(log) + 1
      /\ Sets(log) \subseteq Nat /\ Sets(longer) \subseteq Nat
      /\ Sets(log) \subseteq Sets(longer)
      /\ \A i \in Sets(longer) : i \in Sets(log) \/ i = Len(log) + 1
      /\ Len(log) + 1 \in Sets(longer) <=> r.value # Tombstone
  BY <1>1
<1> HIDE DEF Sets
<1>6. CASE Sets(log) = {} /\ r.value = Tombstone
  <2>1. Sets(longer) = {}
    BY <1>5, <1>6
  <2> QED
    BY <2>1, <1>2, <1>6 DEF longer
<1>7. CASE Sets(log) = {} /\ r.value # Tombstone
  <2>1. Len(log) + 1 \in Sets(longer) /\ \A i \in Sets(longer) : i = Len(log) + 1
    BY <1>5, <1>7
  <2>2. Min(Sets(longer)) = Len(log) + 1
    BY <2>1, <1>5, MinInNat
  <2>3. Sets(longer) # {}
    BY <2>1
  <2>4. Readable(longer) = SubSeq(longer, 1, Min(Sets(longer)) - 1)
    BY <2>3, <1>2
  <2>5. Readable(longer) = log
    BY <2>2, <2>4, <1>4
  <2>6. Readable(log) = log
    BY <1>2, <1>7
  <2> QED
    BY <2>5, <2>6 DEF longer
<1>8. CASE Sets(log) # {}
  <2>1. PICK m \in Sets(log) : m = Min(Sets(log)) /\ \A y \in Sets(log) : m <= y
    BY <1>5, <1>8, MinInNat
  <2>2. Sets(longer) # {}
    BY <1>5, <1>8
  <2>3. PICK n \in Sets(longer) : n = Min(Sets(longer)) /\ \A y \in Sets(longer) : n <= y
    BY <2>2, <1>5, MinInNat
  <2>4. n <= m /\ m \in 1 .. Len(log) /\ n \in 1 .. Len(log) + 1
    BY <2>1, <2>3, <1>5
  <2>5. n \in Sets(log)
    BY <2>3, <2>4, <1>5, <1>1
  <2>6. n = m
    BY <2>1, <2>4, <2>5
  <2>7. m \in 1 .. Len(log) + 1
    BY <2>4, <1>1
  <2> QED
    BY <2>1, <2>2, <2>3, <2>6, <2>7, <1>2, <1>3, <1>8 DEF longer
<1> QED
  BY <1>6, <1>7, <1>8
=============================================================================

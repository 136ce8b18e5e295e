-------------------------- MODULE RefinementProofs -------------------------
(***************************************************************************)
(* Proofs about what the database holds while tables go from a MemTable to *)
(* a file and from files to a merged file: ProjectDb implements the store  *)
(* of KeyValueStore, and a database that keeps its files open implements   *)
(* one that does not.                                                      *)
(***************************************************************************)
EXTENDS OpenStreams, FilesProofs

\* The entry a queue of records has for a key.
Entry(q, k) == Newest(TablesOf(q), k)

LEMMA RecordTables ==
    /\ \A r \in Indexes : r.table \in TableSet
    /\ \A r \in MemTables : r.table \in TableSet
BY DEF Indexes, MemTables

LEMMA EntryOfAppend ==
    ASSUME NEW S, \A x \in S : x.table \in TableSet, NEW q \in Seq(S), NEW r \in S, NEW k
    PROVE  Entry(Append(q, r), k) = IF k \in DOMAIN r.table THEN r.table[k] ELSE Entry(q, k)
<1>1. TablesOf(q) \in Seq(TableSet) /\ r.table \in TableSet
  BY TablesOfQueue
<1>2. TablesOf(Append(q, r)) = Append(TablesOf(q), r.table)
  BY TablesOfAppend
<1> QED
  BY <1>1, <1>2, NewestOfAppend DEF Entry

LEMMA EntryOfConcatenation ==
    ASSUME NEW S, \A x \in S : x.table \in TableSet, NEW p \in Seq(S), NEW q \in Seq(S), NEW k
    PROVE  Entry(p \o q, k) = IF Entry(q, k) # Absent THEN Entry(q, k) ELSE Entry(p, k)
<1>1. TablesOf(p) \in Seq(TableSet) /\ TablesOf(q) \in Seq(TableSet)
  BY TablesOfQueue
<1>2. TablesOf(p \o q) = TablesOf(p) \o TablesOf(q)
  BY TablesOfConcatenation
<1> QED
  BY <1>1, <1>2, NewestOfConcatenation DEF Entry

LEMMA EntryType ==
    ASSUME NEW S, \A x \in S : x.table \in TableSet, NEW q \in Seq(S), NEW k
    PROVE  Entry(q, k) \in Entries \cup {Absent}
<1>1. TablesOf(q) \in Seq(TableSet)
  BY TablesOfQueue
<1> QED
  BY <1>1, NewestType DEF Entry

-----------------------------------------------------------------------------
(***************************************************************************)
(* What the compaction job has made of the tables it has read.             *)
(***************************************************************************)

MadeOf(result, table) == TablesOf(result) \o <<table>>

LEMMA MadeEntry ==
    ASSUME NEW result \in Seq(Indexes), NEW t \in TableSet, NEW k
    PROVE  /\ MadeOf(result, t) \in Seq(TableSet)
           /\ Len(MadeOf(result, t)) = Len(result) + 1
           /\ Newest(MadeOf(result, t), k) =
                  IF k \in DOMAIN t THEN t[k] ELSE Newest(TablesOf(result), k)
<1>1. TablesOf(result) \in Seq(TableSet) /\ Len(TablesOf(result)) = Len(result)
  BY RecordTables, TablesOfQueue
<1>2. MadeOf(result, t) = Append(TablesOf(result), t)
  BY <1>1 DEF MadeOf
<1>3. Len(Append(TablesOf(result), t)) = Len(result) + 1
  BY <1>1
<1> QED
  BY <1>1, <1>2, <1>3, NewestOfAppend

LEMMA Concatenated ==
    ASSUME NEW ts \in Seq(TableSet), NEW t \in TableSet
    PROVE  /\ ts \o <<t>> = Append(ts, t)
           /\ Append(ts, t) \o <<>> = Append(ts, t)
<1>1. ts \o <<t>> = Append(ts, t) /\ Append(ts, t) \in Seq(TableSet)
  OBVIOUS
<1> QED
  BY <1>1

\* The tables of the queue behind position a and before position e.
Between(q, a, e) == TablesOf(SubSeq(q, a + 1, e - 1))

LEMMA NoneBetween ==
    ASSUME NEW q \in Seq(Indexes), NEW a \in Nat
    PROVE  Between(q, a, a + 1) = <<>>
<1>1. SubSeq(q, a + 1, a) = <<>> /\ a + 1 - 1 = a
  OBVIOUS
<1>2. Between(q, a, a + 1) = TablesOf(SubSeq(q, a + 1, a))
  BY <1>1 DEF Between
<1> QED
  BY <1>1, <1>2, TablesOfNone

\* One more table is read.
LEMMA OneMoreBetween ==
    ASSUME NEW q \in Seq(Indexes), NEW a \in Nat, NEW e \in Nat, a < e, e <= Len(q)
    PROVE  /\ q[e].table \in TableSet
           /\ Between(q, a, e) \in Seq(TableSet)
           /\ Between(q, a, e + 1) = Append(Between(q, a, e), q[e].table)
<1>1. q[e] \in Indexes
  OBVIOUS
<1> DEFINE s == SubSeq(q, a + 1, e - 1)
           l == SubSeq(q, a + 1, e)
<1>2. /\ s \in Seq(Indexes)
      /\ Len(s) = e - 1 - a
      /\ \A i \in 1 .. e - 1 - a : s[i] = q[a + i]
  <2>1. a + 1 \in Nat /\ e - 1 \in Nat /\ 1 <= a + 1 /\ a + 1 <= e - 1 + 1 /\ e - 1 <= Len(q)
    OBVIOUS
  <2>2. /\ s \in Seq(Indexes)
        /\ Len(s) = e - 1 + 1 - (a + 1)
        /\ \A i \in 1 .. e - 1 + 1 - (a + 1) : s[i] = q[a + 1 + i - 1]
    BY <2>1, Subsequence
  <2> HIDE DEF s
  <2> QED
    BY <2>2
<1>3. /\ l \in Seq(Indexes)
      /\ Len(l) = e - a
      /\ \A i \in 1 .. e - a : l[i] = q[a + i]
  <2>1. a + 1 \in Nat /\ 1 <= a + 1 /\ a + 1 <= e + 1
    OBVIOUS
  <2>2. /\ l \in Seq(Indexes)
        /\ Len(l) = e + 1 - (a + 1)
        /\ \A i \in 1 .. e + 1 - (a + 1) : l[i] = q[a + 1 + i - 1]
    BY <2>1, Subsequence
  <2> HIDE DEF l
  <2> QED
    BY <2>2
<1> HIDE DEF s, l
<1>4. l = Append(s, q[e])
  <2> DEFINE p == Append(s, q[e])
  <2>1. /\ p \in Seq(Indexes) /\ Len(p) = e - a
        /\ \A i \in 1 .. e - 1 - a : p[i] = s[i]
        /\ p[e - a] = q[e]
    BY <1>1, <1>2
  <2>2. ASSUME NEW i \in 1 .. e - a PROVE l[i] = p[i]
    <3>1. l[i] = q[a + i]
      BY <1>3
    <3>2. CASE i = e - a
      BY <3>1, <3>2, <2>1
    <3>3. CASE i \in 1 .. e - 1 - a
      BY <3>1, <3>3, <2>1, <1>2
    <3>4. i = e - a \/ i \in 1 .. e - 1 - a
      OBVIOUS
    <3> QED
      BY <3>2, <3>3, <3>4
  <2> HIDE DEF p
  <2>3. l = p
    BY <2>1, <2>2, <1>3
  <2> QED
    BY <2>3 DEF p
<1>5. TablesOf(Append(s, q[e])) = Append(TablesOf(s), q[e].table)
  BY <1>1, <1>2, RecordTables, TablesOfAppend
<1>6. TablesOf(s) \in Seq(TableSet)
  BY <1>2, RecordTables, TablesOfQueue
<1>7. Between(q, a, e) = TablesOf(s)
  BY DEF Between, s
<1>8. Between(q, a, e + 1) = TablesOf(l)
  <2>1. e + 1 - 1 = e
    OBVIOUS
  <2> QED
    BY <2>1 DEF Between, l
<1> QED
  BY <1>1, <1>4, <1>5, <1>6, <1>7, <1>8, RecordTables

\* What MergeInv says of the tables read and the tables made.
Merged(read, made) ==
    \A k \in Keys :
        \/ Newest(made, k) = Newest(read, k)
        \/ Newest(read, k) = Tombstone /\ (Len(made) = 1 => Newest(made, k) = Absent)

\* The job loads the next table as the first of a group.
LEMMA NextGroup ==
    ASSUME NEW read \in Seq(TableSet), NEW result \in Seq(Indexes), NEW t \in TableSet,
           Merged(read, TablesOf(result)), read = <<>> \/ Len(result) > 0,
           result = <<>> => read = <<>>
    PROVE  Merged(Append(read, t), MadeOf(result, t))
<1> SUFFICES ASSUME NEW k \in Keys
             PROVE  \/ Newest(MadeOf(result, t), k) = Newest(Append(read, t), k)
                    \/ /\ Newest(Append(read, t), k) = Tombstone
                       /\ Len(MadeOf(result, t)) = 1 => Newest(MadeOf(result, t), k) = Absent
  BY DEF Merged
<1>1. /\ Len(MadeOf(result, t)) = Len(result) + 1
      /\ Newest(MadeOf(result, t), k) =
             IF k \in DOMAIN t THEN t[k] ELSE Newest(TablesOf(result), k)
  BY MadeEntry
<1>2. Newest(Append(read, t), k) = IF k \in DOMAIN t THEN t[k] ELSE Newest(read, k)
  BY NewestOfAppend
<1>3. CASE Len(result) > 0
  <2>1. Len(MadeOf(result, t)) # 1
    BY <1>1, <1>3
  <2> QED
    BY <2>1, <1>1, <1>2 DEF Merged
<1>4. CASE read = <<>> /\ result = <<>>
  <2>1. Newest(TablesOf(result), k) = Absent /\ Newest(read, k) = Absent
    BY <1>4, TablesOfNone, NewestOfNone
  <2> QED
    BY <2>1, <1>1, <1>2
<1> QED
  BY <1>3, <1>4

\* The job merges the next table into its group.
LEMMA MergedGroup ==
    ASSUME NEW read \in Seq(TableSet), NEW result \in Seq(Indexes),
           NEW curr \in TableSet, NEW t \in TableSet, Merged(read, MadeOf(result, curr))
    PROVE  Merged(Append(read, t), MadeOf(result, MergeSSTable(curr, t)))
<1> DEFINE both == MergeSSTable(curr, t)
<1> SUFFICES ASSUME NEW k \in Keys
             PROVE  \/ Newest(MadeOf(result, both), k) = Newest(Append(read, t), k)
                    \/ /\ Newest(Append(read, t), k) = Tombstone
                       /\ Len(MadeOf(result, both)) = 1 => Newest(MadeOf(result, both), k) = Absent
  BY DEF Merged
<1>1. both \in TableSet
  BY MergeTable
<1>2. /\ k \in DOMAIN both <=>
             /\ k \in DOMAIN curr \cup DOMAIN t
             /\ k \in DOMAIN curr /\ k \in DOMAIN t => t[k] # Tombstone
      /\ k \in DOMAIN both => both[k] = IF k \in DOMAIN t THEN t[k] ELSE curr[k]
  BY DEF MergeSSTable
<1> HIDE DEF both
<1>3. /\ Len(MadeOf(result, curr)) = Len(result) + 1
      /\ Len(MadeOf(result, both)) = Len(result) + 1
      /\ Newest(MadeOf(result, curr), k) =
             IF k \in DOMAIN curr THEN curr[k] ELSE Newest(TablesOf(result), k)
      /\ Newest(MadeOf(result, both), k) =
             IF k \in DOMAIN both THEN both[k] ELSE Newest(TablesOf(result), k)
  BY <1>1, MadeEntry
<1>4. Newest(Append(read, t), k) = IF k \in DOMAIN t THEN t[k] ELSE Newest(read, k)
  BY NewestOfAppend
<1>5. CASE k \notin DOMAIN t
  BY <1>2, <1>3, <1>4, <1>5 DEF Merged
<1>6. CASE k \in DOMAIN both /\ k \in DOMAIN t
  BY <1>2, <1>3, <1>4, <1>6
<1>7. CASE k \notin DOMAIN both /\ k \in DOMAIN t
  <2>1. Newest(Append(read, t), k) = Tombstone
    BY <1>2, <1>4, <1>7
  <2>2. ASSUME Len(MadeOf(result, both)) = 1 PROVE Newest(MadeOf(result, both), k) = Absent
    <3>0. Len(result) + 1 = 1
      BY <1>3, <2>2, Zenon
    <3>1. Len(result) = 0
      BY <3>0
    <3>2. result = <<>>
      BY <3>1
    <3> QED
      BY <3>2, <1>3, <1>7, TablesOfNone, NewestOfNone
  <2> QED
    BY <2>1, <2>2
<1> QED
  BY <1>5, <1>6, <1>7

LEMMA MergeInvIs ==
    MergeInv <=> (compaction.stage # "none" => Merged(TablesRead, TablesMade))
BY DEF MergeInv, Merged

LEMMA MergeInvJob == IndInv /\ MergeInv /\ CompactionStep => MergeInv'
<1> SUFFICES ASSUME IndInv, MergeInv, CompactionStep PROVE MergeInv'
  OBVIOUS
<1>1. PICK q \in Seq(Indexes), s \in Nat, n \in Nat, e \in Nat, result \in Seq(Indexes) :
          /\ q = indexQueue /\ s = compactionStartIndex /\ n = compaction.next
          /\ e = compaction.last /\ result = compaction.result
  BY CompactionTypes
<1>2. compaction.currTable \in TableSet /\ compaction.stage # "none" /\ compaction.stage # "ready"
  BY DEF IndInv, TypeOK, SSTableIndexQueueTypeOK, IsCompaction, CompactionStep, CompactionJob,
         CompactionBegin, CompactionMerge, CompactionFlushBegin, CompactionFlushFinish
<1>3. /\ e <= Len(q)
      /\ compaction.stage = "launched" => n = s + 1 /\ result = <<>>
      /\ compaction.stage # "launched" => n >= s + 2
  BY <1>1, <1>2, CompactionTypes DEF IndInv, ProgressInv
<1>4. q = indexQueue' /\ s = compactionStartIndex'
  BY <1>1 DEF CompactionStep, CompactionJob, CompactionBegin, CompactionMerge,
              CompactionFlushBegin, CompactionFlushFinish
<1>5. Merged(Between(q, s, n), TablesMade)
  BY <1>1, <1>2, MergeInvIs DEF TablesRead, Between
<1>6. SUFFICES Merged(Between(q, s, compaction'.next), TablesMade')
  BY <1>4, MergeInvIs DEF MergeInv, Merged, TablesRead, Between
<1>7. CASE CompactionBegin \/ CompactionMerge \/ (CompactionFlushFinish /\ n <= e)
  <2>1. n <= e
    <3>1. /\ e = s + 1 + NumSSTableToCompact
          /\ compaction.stage = "merging" => n \in s + 2 .. e
      BY <1>1, <1>2 DEF IndInv, ProgressInv
    <3>2. CASE CompactionBegin
      BY <3>1, <3>2, <1>3, CompactAssumption DEF CompactionBegin
    <3>3. CASE CompactionMerge
      BY <3>1, <3>3 DEF CompactionMerge
    <3> QED
      BY <3>2, <3>3, <1>7
  <2>2. PICK t \in TableSet : t = q[n].table /\ t = sst[indexQueue[n].id]
    <3>1. n \in DOMAIN q /\ sst[indexQueue[n].id] = indexQueue[n].table
      BY <2>1, <1>1, <1>2, CompactionReads
    <3> QED
      BY <3>1, <1>1, RecordTables
  <2>0. s < n /\ n <= Len(q)
    BY <2>1, <1>3
  <2>3. /\ Between(q, s, n + 1) = Append(Between(q, s, n), t)
        /\ Between(q, s, n) \in Seq(TableSet)
    <3>1. q \in Seq(Indexes) /\ s \in Nat /\ n \in Nat
      BY <1>1
    <3>2. /\ Between(q, s, n + 1) = Append(Between(q, s, n), q[n].table)
          /\ Between(q, s, n) \in Seq(TableSet)
      BY <2>0, <3>1, OneMoreBetween
    <3> QED
      BY <2>2, <3>2
  <2>4. CASE CompactionBegin
    <3>1. /\ compaction'.next = n + 1
          /\ TablesMade' = MadeOf(<<>>, t)
      BY <2>2, <2>4, <1>1 DEF CompactionBegin, StartGroup, TablesMade, MadeOf
    <3>2. Between(q, s, n) = <<>>
      BY <2>4, <1>3, NoneBetween DEF CompactionBegin
    <3>3. Merged(<<>>, TablesOf(<<>>))
      BY TablesOfNone DEF Merged
    <3>4. Merged(Append(Between(q, s, n), t), MadeOf(<<>>, t))
      BY <3>2, <3>3, <2>3, NextGroup, <<>> \in Seq(Indexes), <<>> \in Seq(TableSet)
    <3> QED
      BY <3>1, <3>4, <2>3, <2>0
  <2>5. CASE CompactionMerge
    <3>1. /\ compaction'.next = n + 1
          /\ TablesMade' = MadeOf(result, MergeSSTable(compaction.currTable, t))
          /\ TablesMade = MadeOf(result, compaction.currTable)
      BY <2>2, <2>5, <1>1 DEF CompactionMerge, TablesMade, MadeOf
    <3>2. Merged(Append(Between(q, s, n), t),
                 MadeOf(result, MergeSSTable(compaction.currTable, t)))
      BY <3>1, <2>3, <1>2, <1>5, MergedGroup
    <3> QED
      BY <3>1, <3>2, <2>3, <2>0
  <2>6. CASE CompactionFlushFinish
    <3> DEFINE index == [id |-> compaction.currId, table |-> compaction.currTable]
    <3>1. index \in Indexes
      BY <1>2, CompactionTypes DEF Indexes
    <3>6. compaction' = StartGroup(Append(result, index)) /\ compaction.stage = "writing"
      BY <2>0, <2>1, <2>6, <1>1 DEF CompactionFlushFinish
    <3>2. /\ compaction'.next = n + 1
          /\ TablesMade' = MadeOf(Append(result, index), t)
          /\ TablesMade = MadeOf(result, compaction.currTable)
      BY <3>6, <2>2, <1>1 DEF StartGroup, TablesMade, MadeOf
    <3>3. TablesMade = TablesOf(Append(result, index))
      <4>1. TablesOf(Append(result, index)) = Append(TablesOf(result), compaction.currTable)
        BY <3>1, RecordTables, TablesOfAppend
      <4>2. TablesOf(result) \in Seq(TableSet)
        BY RecordTables, TablesOfQueue
      <4> QED
        BY <3>2, <4>1, <4>2, <1>2, Concatenated DEF MadeOf
    <3>4. Append(result, index) \in Seq(Indexes) /\ Len(Append(result, index)) > 0
          /\ Append(result, index) # <<>>
      BY <3>1
    <3> HIDE DEF index
    <3>5. Merged(Append(Between(q, s, n), t), MadeOf(Append(result, index), t))
      BY <3>3, <3>4, <2>3, <1>5, NextGroup
    <3> QED
      BY <3>2, <3>5, <2>3, <2>0
  <2> QED
    BY <2>4, <2>5, <2>6, <1>7
<1>8. CASE CompactionFlushBegin
  <2>1. TablesMade' = TablesMade /\ compaction'.next = n
    BY <1>8, <1>1 DEF CompactionFlushBegin, IndInv, TypeOK, SSTableIndexQueueTypeOK,
                      IsCompaction, TablesMade
  <2> QED
    BY <2>1, <1>5
<1>9. CASE CompactionFlushFinish /\ n > e
  <2> DEFINE index == [id |-> compaction.currId, table |-> compaction.currTable]
  <2>1. index \in Indexes
    BY <1>2, CompactionTypes DEF Indexes
  <2>2. /\ compaction'.next = n
        /\ TablesMade' = TablesOf(Append(result, index)) \o <<>>
        /\ TablesMade = MadeOf(result, compaction.currTable)
    BY <1>9, <1>1 DEF CompactionFlushFinish, TablesMade, MadeOf
  <2>3. TablesOf(Append(result, index)) = Append(TablesOf(result), compaction.currTable)
    BY <2>1, RecordTables, TablesOfAppend
  <2>4. TablesOf(result) \in Seq(TableSet)
    BY RecordTables, TablesOfQueue
  <2>5. TablesMade' = TablesMade
    BY <2>2, <2>3, <2>4, <1>2, Concatenated DEF MadeOf
  <2> QED
    BY <2>2, <2>5, <1>5
<1>10. n <= e \/ n > e
  OBVIOUS
<1>11. \/ CompactionBegin \/ CompactionMerge \/ CompactionFlushBegin
       \/ CompactionFlushFinish
  BY DEF CompactionStep, CompactionJob
<1> QED
  BY <1>7, <1>8, <1>9, <1>10, <1>11

LEMMA MergeInvStep == IndInv /\ MergeInv /\ [Next]_vars => MergeInv'
<1> SUFFICES ASSUME IndInv, MergeInv, [Next]_vars PROVE MergeInv'
  OBVIOUS
<1>1. CASE ActivateLast
  BY <1>1 DEF ActivateLast, ReplaceCompacted, NoCompaction, MergeInv
<1>2. CASE CompactionStep
  BY <1>2, MergeInvJob
<1>3. CASE FlushReady
  <2>1. compaction.stage = "none" /\ compaction' = compaction
    BY <1>3 DEF FlushReady, IndInv, CallInv, NoCompactionInFlushes
  <2> QED
    BY <2>1 DEF MergeInv
<1>4. CASE FlushesChecked
  <2>1. compaction.stage = "none"
    BY <1>4 DEF FlushesChecked, IndInv, CallInv, NoCompactionInFlushes
  <2>2. CASE CanCompact
    <3>1. PICK q \in Seq(Indexes), s \in Nat : q = indexQueue /\ s = compactionStartIndex
      BY IdTypes
    <3>2. /\ compaction'.next = s + 1 /\ compaction'.stage = "launched"
          /\ compaction'.result = <<>>
          /\ indexQueue' = q /\ compactionStartIndex' = s
      BY <1>4, <2>2, <3>1 DEF FlushesChecked, TryLaunchCompaction
    <3>3. TablesRead' = <<>>
      <4>1. TablesRead' = Between(q, s, s + 1)
        BY <3>2 DEF TablesRead, Between
      <4> QED
        BY <4>1, NoneBetween
    <3>4. TablesMade' = TablesOf(<<>>) \o <<>>
      BY <3>2 DEF TablesMade
    <3>5. TablesMade' = <<>>
      BY <3>4, TablesOfNone
    <3> QED
      BY <3>3, <3>5 DEF MergeInv
  <2>3. CASE ~CanCompact
    BY <1>4, <2>1, <2>3 DEF FlushesChecked, TryLaunchCompaction, MergeInv
  <2> QED
    BY <2>2, <2>3
<1>5. CASE UNCHANGED indexVars
  BY <1>5 DEF indexVars, MergeInv, TablesRead, TablesMade
<1> QED
  BY <1>1, <1>2, <1>3, <1>4, <1>5, IndexFrame

-----------------------------------------------------------------------------
(***************************************************************************)
(* Between the renaming of a flushed file and pop.                         *)
(***************************************************************************)

LEMMA PopFrame ==
    [Next]_vars /\ pc' = "pop" =>
        \/ FlushReady \/ CloseFlush
        \/ /\ pc = "pop"
           /\ UNCHANGED <<indexQueue, unindexed>>
           /\ \/ \E i \in DOMAIN flushFutures : FlushJob(i)
              \/ UNCHANGED flushFutures
BY DEF Next, Client, CallStep, CheckFutures, Closed, Enter, CallGet, CallSet, CallRemove,
       CallClose, NoCompactionToCheck, CompactionRunning, CompactionReady, DeprecateNext,
       ActivateNext, ActivateLast, PopMemTable, FlushesChecked, Get, FirstMemTable,
       Write, Roll, Return, CloseDone, CompactionStep, CompactionJob, CompactionBegin,
       CompactionMerge, CompactionFlushBegin, CompactionFlushFinish, FlushJob,
       vars, memVars, indexVars, callVars

LEMMA FlushedInvStep == IndInv /\ FlushedInv /\ [Next]_vars => FlushedInv'
<1> SUFFICES ASSUME IndInv, FlushedInv, [Next]_vars, pc' = "pop",
                    NEW k \in DOMAIN flushFutures'[1].table
             PROVE  Entry(indexQueue' \o unindexed', k) = flushFutures'[1].table[k]
  BY DEF FlushedInv, Entry
<1>1. PICK q \in Seq(Indexes), u \in Seq(Indexes), f \in Seq(FlushJobs) :
          q = indexQueue /\ u = unindexed /\ f = flushFutures
  BY IdTypes
<1>2. CASE FlushReady \/ CloseFlush
  <2> DEFINE index == [id |-> f[1].id, table |-> f[1].table]
  <2>1. f # <<>> /\ f = flushFutures'
    BY <1>1, <1>2 DEF FlushReady, CloseFlush, OldestFlushReady, memVars
  <2>0. index = [id |-> Head(flushFutures).id, table |-> Head(flushFutures).table]
    BY <1>1, <2>1
  <2>2. index \in Indexes /\ index.table = f[1].table
    <3>1. f[1] \in FlushJobs
      BY <2>1
    <3> QED
      BY <3>1 DEF FlushJobs, Indexes
  <2>3. indexQueue' \o unindexed' = Append(q \o u, index)
    <3>1. CASE FlushReady
      <4>1. u = <<>> /\ indexQueue' = Append(q, index) /\ unindexed' = u
        <5>1. pc = "flushes" /\ unindexed' = unindexed
          BY <3>1 DEF FlushReady
        <5>2. u = <<>> /\ unindexed' = u
          BY <5>1, <1>1 DEF IndInv, CallInv
        <5>3. indexQueue' = Append(q, index)
          BY <2>0, <1>1, <3>1 DEF FlushReady, Insert
        <5> QED
          BY <5>2, <5>3
      <4>2. Append(q, index) \o <<>> = Append(q \o <<>>, index)
        BY <2>2
      <4> QED
        BY <4>1, <4>2
    <3>2. CASE CloseFlush
      <4>1. unindexed' = Append(u, index) /\ indexQueue' = q
        BY <1>1, <2>0, <3>2 DEF CloseFlush, indexVars
      <4>2. q \o Append(u, index) = Append(q \o u, index)
        BY <2>2
      <4> QED
        BY <4>1, <4>2
    <3> QED
      BY <1>2, <3>1, <3>2
  <2>4. q \o u \in Seq(Indexes)
    OBVIOUS
  <2> HIDE DEF index
  <2>5. Entry(Append(q \o u, index), k) = f[1].table[k]
    <3>1. Entry(Append(q \o u, index), k) =
              IF k \in DOMAIN index.table THEN index.table[k] ELSE Entry(q \o u, k)
      <4>1. \A p \in Seq(Indexes) :
                Entry(Append(p, index), k) =
                    IF k \in DOMAIN index.table THEN index.table[k] ELSE Entry(p, k)
        BY <2>2, RecordTables, EntryOfAppend
      <4> QED
        BY <2>4, <4>1
    <3>2. k \in DOMAIN index.table
      BY <2>1, <2>2
    <3> QED
      BY <3>1, <3>2, <2>2
  <2> QED
    BY <2>1, <2>3, <2>5
<1>3. CASE pc = "pop" /\ UNCHANGED <<indexQueue, unindexed>>
  <2>1. flushFutures'[1].table = flushFutures[1].table
    <3>1. CASE UNCHANGED flushFutures
      BY <3>1
    <3>2. ASSUME NEW i \in DOMAIN flushFutures, FlushJob(i)
          PROVE  flushFutures'[1].table = flushFutures[1].table
      <4>1. f # <<>> /\ f[1] \in FlushJobs /\ f[i] \in FlushJobs
        BY <1>1, <1>3 DEF IndInv, CallInv
      <4>2. flushFutures'[1] \in {[f[1] EXCEPT !.stage = "writing"],
                                  [f[1] EXCEPT !.stage = "ready"], f[1]}
        BY <1>1, <3>2, <4>1 DEF FlushJob, FlushBegin, FlushFinish
      <4> QED
        BY <4>1, <4>2, <1>1 DEF FlushJobs
    <3> QED
      BY <3>1, <3>2, <1>3, PopFrame, <1>2 DEF FlushReady, CloseFlush, memVars
  <2> QED
    BY <2>1, <1>3 DEF FlushedInv, Entry
<1> QED
  BY <1>2, <1>3, PopFrame

LEMMA RequestInvStep == IndInv /\ RequestInv /\ [Next]_vars => RequestInv'
BY DEF IndInv, CallInv, Next, Client, CallStep, CheckFutures, Closed, vars, Enter, CallGet, CallSet,
       CallRemove, CallClose, NoCompactionToCheck, CompactionRunning, CompactionReady,
       DeprecateNext, ActivateNext, ActivateLast, FlushReady, PopMemTable, FlushesChecked,
       Get, FirstMemTable, Write, Roll, Return, NoCall, CloseFlush, CloseDone, FlushJob,
       CompactionStep, callVars, RequestInv

LEMMA ContentsInvStep == IndInv /\ ContentsInv /\ [Next]_vars => ContentsInv'
BY MergeInvStep, FlushedInvStep, RequestInvStep DEF ContentsInv

LEMMA ContentsInvInit == Init => ContentsInv
BY DEF Init, SSTableIndexQueueInit, NoCompaction, NoCall, ContentsInv, MergeInv, FlushedInv,
       RequestInv

\* What the merging of tables drops, what pop drops and what the caller has
\* asked for: as ContentsInv has it, in every state of every instance.
THEOREM ContentsInvariance == Spec => []ContentsInv
BY ContentsInvInit, ContentsInvStep, Invariance, PTL DEF Spec

-----------------------------------------------------------------------------
(***************************************************************************)
(* What get would return: the MemTables, what the destructor flushed and   *)
(* the indexed SSTables, in this order.                                    *)
(***************************************************************************)

First(e, f) == IF e # Absent THEN e ELSE f

ViewOf(a, b, c, k) == UnderlyingValue(First(Entry(c, k), First(Entry(b, k), Entry(a, k))))

LEMMA ViewOfQueues ==
    ASSUME NEW a \in Seq(Indexes), NEW b \in Seq(Indexes), NEW c \in Seq(MemTables), NEW k
    PROVE  /\ UnderlyingValue(Newest(TablesOf(a \o b \o c), k)) = ViewOf(a, b, c, k)
           /\ ViewOf(a, b, c, k) \in Values \cup {Absent}
<1>1. Entry(a \o b, k) = First(Entry(b, k), Entry(a, k))
  BY RecordTables, EntryOfConcatenation DEF First
<1>2. PICK q \in Seq(Indexes) : q = a \o b
  <2>1. a \o b \in Seq(Indexes)
    OBVIOUS
  <2> QED
    BY <2>1
<1>3. Newest(TablesOf(q \o c), k) = First(Entry(c, k), Entry(q, k))
  BY QueuesRead DEF Entry, First
<1>4. /\ Entry(a, k) \in Entries \cup {Absent}
      /\ Entry(b, k) \in Entries \cup {Absent}
      /\ Entry(c, k) \in Entries \cup {Absent}
  BY RecordTables, EntryType
<1>5. ViewOf(a, b, c, k) \in Values \cup {Absent}
  BY <1>4, DataAssumption DEF ViewOf, First, UnderlyingValue, Entries
<1>6. UnderlyingValue(Newest(TablesOf(q \o c), k)) = ViewOf(a, b, c, k)
  BY <1>1, <1>2, <1>3 DEF ViewOf
<1> QED
  BY <1>2, <1>5, <1>6

LEMMA QueueTypes ==
    ASSUME IndInv
    PROVE  /\ indexQueue \in Seq(Indexes) /\ unindexed \in Seq(Indexes)
           /\ memTableQueue \in Seq(MemTables)
BY IdTypes, LogTypes

LEMMA ViewIs ==
    ASSUME IndInv, NEW k
    PROVE  /\ View(k) = ViewOf(indexQueue, unindexed, memTableQueue, k)
           /\ View(k) \in Values \cup {Absent}
BY QueueTypes, ViewOfQueues DEF View

LEMMA NextViewIs ==
    ASSUME IndInv, [Next]_vars, NEW k
    PROVE  /\ View(k)' = ViewOf(indexQueue', unindexed', memTableQueue', k)
           /\ View(k)' \in Values \cup {Absent}
<1>1. /\ indexQueue' \in Seq(Indexes) /\ unindexed' \in Seq(Indexes)
      /\ memTableQueue' \in Seq(MemTables)
  BY IndInvStep DEF IndInv, TypeOK, SSTableIndexQueueTypeOK, MemTableQueueTypeOK
<1> QED
  BY <1>1, ViewOfQueues DEF View

LEMMA ViewFrame ==
    [Next]_vars =>
        \/ Write \/ FirstMemTable \/ Roll \/ PopMemTable
        \/ FlushReady \/ CloseFlush \/ ActivateLast
        \/ UNCHANGED <<indexQueue, unindexed, memTableQueue>>
BY DEF Next, Client, CallStep, CheckFutures, Closed, vars, Enter, CallGet, CallSet, CallRemove,
       CallClose, NoCompactionToCheck, CompactionRunning, CompactionReady, DeprecateNext,
       ActivateNext, FlushesChecked, TryLaunchCompaction, Get, CloseDone, FlushJob, FlushBegin,
       FlushFinish, CompactionStep, CompactionJob, CompactionBegin, CompactionMerge,
       CompactionFlushBegin, CompactionFlushFinish, memVars, indexVars, callVars

-----------------------------------------------------------------------------
\* Steps that change the MemTables.

\* An empty MemTable is added.
LEMMA NewMemTable ==
    ASSUME IndInv, FirstMemTable \/ Roll, NEW k
    PROVE  View(k)' = View(k)
<1>1. PICK c \in Seq(MemTables), m \in MemTables :
          c = memTableQueue /\ m = [table |-> EmptyTable, log |-> txlCounter]
  BY LogTypes, EmptyTableType DEF MemTables
<1>2. /\ memTableQueue' = Append(c, m)
      /\ UNCHANGED <<indexQueue, unindexed>>
  BY <1>1 DEF FirstMemTable, Roll, RollMemTable, EmplaceBack, indexVars, callVars
<1>3. Entry(Append(c, m), k) = Entry(c, k)
  <2>1. DOMAIN m.table = {}
    BY <1>1 DEF EmptyTable
  <2> QED
    BY <2>1, RecordTables, EntryOfAppend
<1>4. [Next]_vars
  BY DEF Next, CallStep
<1> QED
  BY <1>1, <1>2, <1>3, <1>4, ViewIs, NextViewIs DEF ViewOf

\* The last MemTable gets an entry.
LEMMA EntryOfWritten ==
    ASSUME NEW c \in Seq(MemTables), c # <<>>, NEW x \in Keys, NEW e \in Entries, NEW k
    PROVE  Entry([c EXCEPT ![Len(c)].table = Put(@, x, e)], k) =
               IF k = x THEN e ELSE Entry(c, k)
<1> DEFINE front == SubSeq(c, 1, Len(c) - 1)
           last == c[Len(c)]
           lastWritten == [last EXCEPT !.table = Put(@, x, e)]
           written == [c EXCEPT ![Len(c)].table = Put(@, x, e)]
<1>1. last \in MemTables /\ last.table \in TableSet
  BY RecordTables
<1>2. lastWritten \in MemTables /\ lastWritten.table = Put(last.table, x, e)
  <2>1. Put(last.table, x, e) \in TableSet
    BY <1>1, PutTable
  <2> QED
    BY <2>1, <1>1 DEF MemTables
<1>3. front \in Seq(MemTables) /\ c = Append(front, last) /\ written = Append(front, lastWritten)
  <2>1. /\ Len(c) \in Nat \ {0} /\ Len(c) \in DOMAIN c
        /\ 1 <= Len(c) - 1 + 1 /\ Len(c) - 1 \in Nat /\ Len(c) - 1 <= Len(c)
    OBVIOUS
  <2>2. /\ front \in Seq(MemTables)
        /\ Len(front) = Len(c) - 1
        /\ \A i \in 1 .. Len(c) - 1 : front[i] = c[i]
    <3>1. PICK n \in Nat : n = Len(c) - 1 /\ n <= Len(c) /\ 1 <= n + 1
      BY <2>1
    <3>2. /\ SubSeq(c, 1, n) \in Seq(MemTables)
          /\ Len(SubSeq(c, 1, n)) = n
          /\ \A i \in 1 .. n : SubSeq(c, 1, n)[i] = c[i]
      BY <3>1
    <3> QED
      BY <3>1, <3>2
  <2>3. /\ written \in Seq(MemTables) /\ Len(written) = Len(c)
        /\ written[Len(c)] = lastWritten
        /\ \A i \in 1 .. Len(c) - 1 : written[i] = c[i]
    BY <1>2, <2>1
  <2> HIDE DEF front, lastWritten, written
  <2>5. ASSUME NEW d \in Seq(MemTables), Len(d) = Len(c),
               \A i \in 1 .. Len(c) - 1 : d[i] = c[i]
        PROVE  d = Append(front, d[Len(c)])
    <3>1. d[Len(c)] \in MemTables
      BY <2>1, <2>5
    <3>2. PICK p \in Seq(MemTables) : p = Append(front, d[Len(c)])
      <4>1. \A f \in Seq(MemTables), m \in MemTables : Append(f, m) \in Seq(MemTables)
        OBVIOUS
      <4> QED
        BY <2>2, <3>1, <4>1
    <3>3. /\ Len(p) = Len(c) /\ p[Len(c)] = d[Len(c)]
          /\ \A i \in 1 .. Len(c) - 1 : p[i] = c[i]
      BY <3>1, <3>2, <2>1, <2>2
    <3>4. \A i \in 1 .. Len(c) : p[i] = d[i]
      <4>1. \A i \in 1 .. Len(c) : i = Len(c) \/ i \in 1 .. Len(c) - 1
        BY <2>1
      <4> QED
        BY <4>1, <3>3, <2>5
    <3>5. p = d
      BY <3>3, <3>4, <2>5
    <3> QED
      BY <3>2, <3>5
  <2>6. c = Append(front, last)
    BY <2>5, <2>1
  <2> QED
    BY <2>2, <2>3, <2>5, <2>6
<1>4. /\ DOMAIN lastWritten.table = DOMAIN last.table \cup {x}
      /\ lastWritten.table[x] = e
      /\ \A z \in DOMAIN last.table : z # x => lastWritten.table[z] = last.table[z]
  BY <1>2 DEF Put
<1> HIDE DEF front, last, lastWritten, written
<1>5. /\ Entry(c, k) = IF k \in DOMAIN last.table THEN last.table[k] ELSE Entry(front, k)
      /\ Entry(written, k) = IF k \in DOMAIN lastWritten.table THEN lastWritten.table[k]
                             ELSE Entry(front, k)
  BY <1>1, <1>2, <1>3, RecordTables, EntryOfAppend
<1> QED
  BY <1>4, <1>5 DEF written

LEMMA WrittenView ==
    ASSUME IndInv, Write, NEW k
    PROVE  View(k)' = IF k = call.key THEN UnderlyingValue(call.value) ELSE View(k)
<1>1. PICK c \in Seq(MemTables), x \in Keys, e \in Entries :
          c = memTableQueue /\ c # <<>> /\ x = call.key /\ e = call.value
  BY LogTypes DEF IndInv, CallInv, Write
<1>2. /\ memTableQueue' = [c EXCEPT ![Len(c)].table = Put(@, x, e)]
      /\ UNCHANGED <<indexQueue, unindexed>>
  BY <1>1 DEF Write, WriteBack, Back, indexVars
<1>3. Entry(memTableQueue', k) = IF k = x THEN e ELSE Entry(c, k)
  <2>1. Entry([c EXCEPT ![Len(c)].table = Put(@, x, e)], k) = IF k = x THEN e ELSE Entry(c, k)
    BY <1>1, EntryOfWritten
  <2> QED
    BY <1>2, <2>1
<1>4. [Next]_vars
  BY DEF Next, CallStep
<1>5. e # Absent
  BY EntriesArePresent
<1> QED
  BY <1>1, <1>2, <1>3, <1>4, <1>5, ViewIs, NextViewIs DEF ViewOf, First

\* The first element of a queue and the others.
LEMMA EntryOfTail ==
    ASSUME NEW c \in Seq(MemTables), c # <<>>, NEW k
    PROVE  Entry(c, k) = First(Entry(Tail(c), k),
                               IF k \in DOMAIN c[1].table THEN c[1].table[k] ELSE Absent)
<1>1. /\ c[1] \in MemTables /\ Tail(c) \in Seq(MemTables) /\ <<c[1]>> \in Seq(MemTables)
      /\ c = <<c[1]>> \o Tail(c)
  OBVIOUS
<1>2. PICK h \in Seq(MemTables), t \in Seq(MemTables) : h = <<c[1]>> /\ t = Tail(c)
  BY <1>1
<1>3. Entry(h \o t, k) = First(Entry(t, k), Entry(h, k))
  BY RecordTables, EntryOfConcatenation DEF First
<1>4. Entry(h, k) = IF k \in DOMAIN c[1].table THEN c[1].table[k] ELSE Absent
  <2>1. h = Append(<<>>, c[1]) /\ <<>> \in Seq(MemTables)
    BY <1>2
  <2>2. Entry(Append(<<>>, c[1]), k) = IF k \in DOMAIN c[1].table THEN c[1].table[k]
                                      ELSE Entry(<<>>, k)
    BY <2>1, <1>1, RecordTables, EntryOfAppend
  <2>3. Entry(<<>>, k) = Absent
    BY TablesOfNone, NewestOfNone DEF Entry
  <2> QED
    BY <2>1, <2>2, <2>3
<1> QED
  BY <1>1, <1>2, <1>3, <1>4

\* The oldest MemTable, which is an SSTable by now, is dropped.
LEMMA PoppedView ==
    ASSUME IndInv, FlushedInv, PopMemTable, NEW k
    PROVE  View(k)' = View(k)
<1>1. PICK a \in Seq(Indexes), b \in Seq(Indexes), c \in Seq(MemTables) :
          a = indexQueue /\ b = unindexed /\ c = memTableQueue
  BY QueueTypes
<1>2. /\ memTableQueue' = Tail(c)
      /\ UNCHANGED <<indexQueue, unindexed>> /\ pc = "pop"
  BY <1>1 DEF PopMemTable, Pop, indexVars
<1>3. c # <<>> /\ c[1].table = flushFutures[1].table
  <2>1. flushFutures # <<>> /\ flushFutures \in Seq(FlushJobs)
    BY <1>2, IdTypes DEF IndInv, CallInv
  <2>2. 1 \in DOMAIN flushFutures
    BY <2>1
  <2> QED
    BY <2>2, <1>1 DEF IndInv, FuturesMatchQueue, FlushedTableIsFrozen
<1>4. Entry(a \o b, k) = First(Entry(b, k), Entry(a, k))
  BY RecordTables, EntryOfConcatenation DEF First
<1>5. k \in DOMAIN c[1].table => First(Entry(b, k), Entry(a, k)) = c[1].table[k]
  BY <1>1, <1>2, <1>3, <1>4 DEF FlushedInv, Entry
<1>6. Entry(c, k) = First(Entry(Tail(c), k),
                          IF k \in DOMAIN c[1].table THEN c[1].table[k] ELSE Absent)
  BY <1>3, EntryOfTail
<1>7. [Next]_vars
  BY DEF Next, CallStep, CheckFutures
<1>8. k \in DOMAIN c[1].table => c[1].table[k] # Absent
  <2>1. c[1].table \in TableSet
    BY <1>3, RecordTables
  <2> QED
    BY <2>1, EntryIsPresent
<1> QED
  BY <1>1, <1>2, <1>5, <1>6, <1>7, <1>8, ViewIs, NextViewIs DEF ViewOf, First

-----------------------------------------------------------------------------
\* Steps that change the SSTables.

\* The table of the oldest MemTable becomes the newest SSTable.
LEMMA FlushedView ==
    ASSUME IndInv, FlushReady \/ CloseFlush, NEW k
    PROVE  View(k)' = View(k)
<1>1. PICK a \in Seq(Indexes), b \in Seq(Indexes), c \in Seq(MemTables) :
          a = indexQueue /\ b = unindexed /\ c = memTableQueue
  BY QueueTypes
<1>2. /\ flushFutures # <<>> /\ flushFutures \in Seq(FlushJobs)
      /\ Head(flushFutures) \in FlushJobs /\ Head(flushFutures) = flushFutures[1]
  BY IdTypes DEF FlushReady, CloseFlush, OldestFlushReady
<1>3. PICK index \in Indexes :
          index = [id |-> Head(flushFutures).id, table |-> Head(flushFutures).table]
  BY <1>2 DEF FlushJobs, Indexes
<1>4. c # <<>> /\ index.table = c[1].table
  <2>1. 1 \in DOMAIN flushFutures
    BY <1>2
  <2> QED
    BY <2>1, <1>1, <1>2, <1>3 DEF IndInv, FuturesMatchQueue, FlushedTableIsFrozen
<1>5. memTableQueue' = c
  BY <1>1 DEF FlushReady, CloseFlush, memVars
<1>6. \/ indexQueue' = Append(a, index) /\ unindexed' = b /\ b = <<>>
      \/ indexQueue' = a /\ unindexed' = Append(b, index)
  <2>1. CASE FlushReady
    <3>1. call.op # "close"
      BY <2>1 DEF FlushReady, IndInv, CallInv
    <3> QED
      BY <2>1, <3>1, <1>1, <1>3 DEF FlushReady, Insert, IndInv, CallInv
  <2>2. CASE CloseFlush
    BY <2>2, <1>1, <1>3 DEF CloseFlush, indexVars
  <2> QED
    BY <2>1, <2>2
<1>7. /\ Entry(Append(a, index), k) = IF k \in DOMAIN index.table THEN index.table[k]
                                      ELSE Entry(a, k)
      /\ Entry(Append(b, index), k) = IF k \in DOMAIN index.table THEN index.table[k]
                                      ELSE Entry(b, k)
  BY RecordTables, EntryOfAppend
<1>8. k \in DOMAIN index.table => Entry(c, k) # Absent
  <2>1. c[1].table \in TableSet
    BY <1>4, RecordTables
  <2>2. Entry(c, k) = First(Entry(Tail(c), k),
                            IF k \in DOMAIN c[1].table THEN c[1].table[k] ELSE Absent)
    BY <1>4, EntryOfTail
  <2> QED
    BY <2>1, <2>2, <1>4, EntryIsPresent DEF First
<1>9. [Next]_vars
  BY DEF Next, CallStep, CheckFutures
<1> QED
  BY <1>1, <1>5, <1>6, <1>7, <1>8, <1>9, ViewIs, NextViewIs DEF ViewOf, First

LEMMA SplitQueue ==
    ASSUME NEW q \in Seq(Indexes), NEW s \in Nat, NEW e \in Nat, s <= e, e <= Len(q)
    PROVE  q = SubSeq(q, 1, s) \o SubSeq(q, s + 1, e) \o SubSeq(q, e + 1, Len(q))
<1> DEFINE front == SubSeq(q, 1, s)
           range == SubSeq(q, s + 1, e)
           back == SubSeq(q, e + 1, Len(q))
           both == front \o range
           all == both \o back
<1>1. /\ front \in Seq(Indexes) /\ Len(front) = s
      /\ \A i \in 1 .. s : front[i] = q[i]
  OBVIOUS
<1>2. /\ range \in Seq(Indexes) /\ Len(range) = e - s
      /\ \A i \in 1 .. e - s : range[i] = q[s + i]
  OBVIOUS
<1>3. /\ back \in Seq(Indexes) /\ Len(back) = Len(q) - e
      /\ \A i \in 1 .. Len(q) - e : back[i] = q[e + i]
  OBVIOUS
<1> HIDE DEF front, range, back
<1>4. /\ both \in Seq(Indexes) /\ Len(both) = e
      /\ \A i \in 1 .. e : both[i] = q[i]
  <2>1. /\ both \in Seq(Indexes) /\ Len(both) = e
        /\ \A i \in 1 .. e : both[i] = IF i <= s THEN front[i] ELSE range[i - s]
    BY <1>1, <1>2, Concatenation
  <2> HIDE DEF both
  <2> SUFFICES ASSUME NEW i \in 1 .. e PROVE both[i] = q[i]
    BY <2>1
  <2>2. CASE i <= s
    BY <2>1, <2>2, <1>1
  <2>3. CASE i > s
    <3>1. i - s \in 1 .. e - s /\ s + (i - s) = i
      BY <2>3
    <3> QED
      BY <3>1, <2>1, <2>3, <1>2
  <2> QED
    BY <2>2, <2>3
<1> HIDE DEF both
<1>5. /\ all \in Seq(Indexes) /\ Len(all) = Len(q)
      /\ \A i \in 1 .. Len(q) : all[i] = q[i]
  <2>1. /\ all \in Seq(Indexes) /\ Len(all) = Len(q)
        /\ \A i \in 1 .. Len(q) : all[i] = IF i <= e THEN both[i] ELSE back[i - e]
    BY <1>3, <1>4, Concatenation
  <2> HIDE DEF all
  <2> SUFFICES ASSUME NEW i \in 1 .. Len(q) PROVE all[i] = q[i]
    BY <2>1
  <2>2. CASE i <= e
    BY <2>1, <2>2, <1>4
  <2>3. CASE i > e
    <3>1. i - e \in 1 .. Len(q) - e /\ e + (i - e) = i
      BY <2>3
    <3> QED
      BY <3>1, <2>1, <2>3, <1>3
  <2> QED
    BY <2>2, <2>3
<1> HIDE DEF all
<1>6. all = q
  BY <1>5
<1> QED
  BY <1>6 DEF all, both, front, range, back

\* The result of the compaction takes the place of its range.
LEMMA ReplacedRange ==
    ASSUME IndInv, MergeInv, ActivateLast, NEW k \in Keys
    PROVE  \E front, range, back, result \in Seq(Indexes) :
               /\ Len(front) = compactionStartIndex
               /\ Len(result) = Len(compaction.result)
               /\ Entry(indexQueue, k) =
                      First(Entry(back, k), First(Entry(range, k), Entry(front, k)))
               /\ Entry(indexQueue', k) =
                      First(Entry(back, k), First(Entry(result, k), Entry(front, k)))
               /\ \/ Entry(result, k) = Entry(range, k)
                  \/ /\ Entry(range, k) = Tombstone
                     /\ Len(result) = 1 => Entry(result, k) = Absent
<1>1. PICK q \in Seq(Indexes), s \in Nat, e \in Nat, result \in Seq(Indexes) :
          /\ q = indexQueue /\ s = compactionStartIndex
          /\ e = s + NumSSTableToCompact + 1 /\ result = compaction.result
  BY CompactionTypes, CompactAssumption
<1>2. /\ compaction.stage = "ready" /\ compaction.next = e + 1 /\ e <= Len(q) /\ s <= e
  BY <1>1, CompactAssumption DEF ActivateLast, IndInv, UpdateInv, InUpdate, ProgressInv
<1> DEFINE front == SubSeq(q, 1, s)
           range == SubSeq(q, s + 1, e)
           back == SubSeq(q, e + 1, Len(q))
<1>3. front \in Seq(Indexes) /\ range \in Seq(Indexes) /\ back \in Seq(Indexes)
      /\ Len(front) = s
  BY <1>2
<1>4. q = front \o range \o back
  BY <1>2, SplitQueue
<1>5. indexQueue' = front \o result \o back
  <2>1. compactionStartIndex + NumSSTableToCompact + 2 = e + 1
    BY <1>1, CompactAssumption
  <2> QED
    BY <2>1, <1>1 DEF ActivateLast, ReplaceCompacted
<1>6. \/ Entry(result, k) = Entry(range, k)
      \/ /\ Entry(range, k) = Tombstone
         /\ Len(result) = 1 => Entry(result, k) = Absent
  <2>1. TablesMade = TablesOf(result) \o <<>>
    BY <1>1, <1>2 DEF TablesMade
  <2>2. TablesOf(result) \in Seq(TableSet) /\ Len(TablesOf(result)) = Len(result)
    BY RecordTables, TablesOfQueue
  <2>3. TablesMade = TablesOf(result)
    BY <2>1, <2>2
  <2>4. TablesRead = TablesOf(range)
    <3>1. e + 1 - 1 = e
      OBVIOUS
    <3> QED
      BY <3>1, <1>1, <1>2 DEF TablesRead
  <2> QED
    BY <2>2, <2>3, <2>4, <1>2 DEF MergeInv, Entry
<1> HIDE DEF front, range, back
<1>7. ASSUME NEW m \in Seq(Indexes)
      PROVE  Entry(front \o m \o back, k) =
                 First(Entry(back, k), First(Entry(m, k), Entry(front, k)))
  <2>1. PICK p \in Seq(Indexes) : p = front \o m
    BY <1>3, Concatenation
  <2>2. Entry(front \o m, k) = First(Entry(m, k), Entry(front, k))
    BY <1>3, RecordTables, EntryOfConcatenation DEF First
  <2>3. Entry(p \o back, k) = First(Entry(back, k), Entry(p, k))
    BY <1>3, RecordTables, EntryOfConcatenation DEF First
  <2> QED
    BY <2>1, <2>2, <2>3
<1> QED
  BY <1>1, <1>3, <1>4, <1>5, <1>6, <1>7

LEMMA CompactedView ==
    ASSUME IndInv, MergeInv, ActivateLast, NEW k \in Keys
    PROVE  /\ \/ View(k)' = View(k)
              \/ View(k) = Absent
           /\ compactionStartIndex = 0 /\ Len(compaction.result) = 1 => View(k)' = View(k)
<1>1. PICK front \in Seq(Indexes), range \in Seq(Indexes), back \in Seq(Indexes),
           result \in Seq(Indexes) :
          /\ Len(front) = compactionStartIndex
          /\ Len(result) = Len(compaction.result)
          /\ Entry(indexQueue, k) =
                 First(Entry(back, k), First(Entry(range, k), Entry(front, k)))
          /\ Entry(indexQueue', k) =
                 First(Entry(back, k), First(Entry(result, k), Entry(front, k)))
          /\ \/ Entry(result, k) = Entry(range, k)
             \/ /\ Entry(range, k) = Tombstone
                /\ Len(result) = 1 => Entry(result, k) = Absent
  BY ReplacedRange
<1>2. unindexed' = unindexed /\ memTableQueue' = memTableQueue
  BY DEF ActivateLast, memVars
<1>3. compactionStartIndex = 0 => Entry(front, k) = Absent
  <2>1. Len(front) = 0 => front = <<>>
    OBVIOUS
  <2> QED
    BY <2>1, <1>1, TablesOfNone, NewestOfNone DEF Entry
<1>4. [Next]_vars
  BY DEF Next, CallStep, CheckFutures
<1> QED
  BY <1>1, <1>2, <1>3, <1>4, ViewIs, NextViewIs, DataAssumption
     DEF ViewOf, First, UnderlyingValue

-----------------------------------------------------------------------------
(***************************************************************************)
(* Every step of the database is a step of the store, or none.             *)
(***************************************************************************)

\* No step but a write and the end of a compaction changes what is read.
LEMMA QuietView ==
    ASSUME IndInv, FlushedInv, [Next]_vars, ~Write, ~ActivateLast
    PROVE  Contents' = Contents
<1> SUFFICES ASSUME NEW k \in Keys PROVE View(k)' = View(k)
  BY DEF Contents
<1>1. CASE FirstMemTable \/ Roll
  BY <1>1, NewMemTable
<1>2. CASE PopMemTable
  BY <1>2, PoppedView
<1>3. CASE FlushReady \/ CloseFlush
  BY <1>3, FlushedView
<1>4. CASE UNCHANGED <<indexQueue, unindexed, memTableQueue>>
  BY <1>4 DEF View
<1> QED
  BY <1>1, <1>2, <1>3, <1>4, ViewFrame

UnansweredOf(p, c) ==
    IF p = "roll" \/ c.op \in {"close", "none"} THEN NoCall
    ELSE [op |-> c.op, key |-> c.key, value |-> IF c.op = "set" THEN c.value ELSE Absent]

LEMMA UnansweredIs ==
    ASSUME IndInv, RequestInv
    PROVE  Unanswered = UnansweredOf(pc, call)
<1>1. call \in Calls
  BY DEF IndInv, TypeOK
<1>2. call = [op |-> call.op, key |-> call.key, value |-> call.value]
      /\ call.op \in {"none", "get", "set", "remove", "close"}
  BY <1>1 DEF Calls
<1>3. [call EXCEPT !.value = UnderlyingValue(@)] =
          [op |-> call.op, key |-> call.key, value |-> UnderlyingValue(call.value)]
  BY <1>2
<1> QED
  BY <1>2, <1>3, DataAssumption DEF RequestInv, Unanswered, UnansweredOf, UnderlyingValue, NoCall

LEMMA NextUnansweredIs ==
    ASSUME IndInv, RequestInv, [Next]_vars
    PROVE  Unanswered' = UnansweredOf(pc', call')
<1>1. call' \in Calls /\ RequestInv'
  BY IndInvStep, RequestInvStep DEF IndInv, TypeOK
<1>2. call' = [op |-> call'.op, key |-> call'.key, value |-> call'.value]
      /\ call'.op \in {"none", "get", "set", "remove", "close"}
  BY <1>1 DEF Calls
<1>3. [call' EXCEPT !.value = UnderlyingValue(@)] =
          [op |-> call'.op, key |-> call'.key, value |-> UnderlyingValue(call'.value)]
  BY <1>2
<1> QED
  BY <1>1, <1>2, <1>3, DataAssumption
     DEF RequestInv, Unanswered, UnansweredOf, UnderlyingValue, NoCall

\* The caller asks.
LEMMA ClientStep ==
    ASSUME IndInv, ContentsInv, Client
    PROVE  [KV!Next]_<<Contents, Unanswered, reply>>
<1>1. [Next]_vars /\ RequestInv /\ FlushedInv
  BY DEF Next, ContentsInv
<1>2. pc = "idle" /\ reply' = reply
  BY DEF Client, CallGet, CallSet, CallRemove, CallClose, Enter
<1>3. Contents' = Contents
  BY <1>1, <1>2, QuietView DEF Write, ActivateLast
<1>4. Unanswered = NoCall
  BY <1>1, <1>2, UnansweredIs DEF UnansweredOf, IndInv, CallInv
<1>5. Unanswered' = UnansweredOf(pc', call')
  BY <1>1, NextUnansweredIs
<1>6. CASE CallClose
  <2>1. Unanswered' = NoCall
    BY <1>5, <1>6 DEF CallClose, Enter, UnansweredOf
  <2> QED
    BY <2>1, <1>2, <1>3, <1>4
<1>7. ASSUME NEW k \in Keys, CallGet(k) PROVE KV!Next
  <2>1. Unanswered' = [op |-> "get", key |-> k, value |-> Absent]
    BY <1>5, <1>7 DEF CallGet, Enter, UnansweredOf
  <2> QED
    BY <2>1, <1>2, <1>3, <1>4 DEF KV!Next, KV!Request, KV!NoRequest, NoCall
<1>8. ASSUME NEW k \in Keys, CallRemove(k) PROVE KV!Next
  <2>1. Unanswered' = [op |-> "remove", key |-> k, value |-> Absent]
    BY <1>5, <1>8 DEF CallRemove, Enter, UnansweredOf
  <2> QED
    BY <2>1, <1>2, <1>3, <1>4 DEF KV!Next, KV!Request, KV!NoRequest, NoCall
<1>9. ASSUME NEW k \in Keys, NEW v \in Values, CallSet(k, v) PROVE KV!Next
  <2>1. Unanswered' = [op |-> "set", key |-> k, value |-> v]
    BY <1>5, <1>9 DEF CallSet, Enter, UnansweredOf
  <2> QED
    BY <2>1, <1>2, <1>3, <1>4 DEF KV!Next, KV!Request, KV!NoRequest, NoCall
<1> QED
  BY <1>6, <1>7, <1>8, <1>9 DEF Client

\* get answers with what is read.
LEMMA GetValueIs ==
    ASSUME IndInv, ~InUpdate, unindexed = <<>>, NEW k
    PROVE  GetValue(k) = View(k)
<1>1. PICK a \in Seq(Indexes), c \in Seq(MemTables) : a = indexQueue /\ c = memTableQueue
  BY QueueTypes
<1>2. SSTableValue(k) = Entry(a, k)
  <2>1. \A i \in DOMAIN a : sst[a[i].id] = a[i].table
    BY <1>1 DEF IndInv, IndexMatchesFile
  <2>2. [i \in DOMAIN a |-> sst[a[i].id]] = [i \in DOMAIN a |-> a[i].table]
    BY <2>1
  <2> QED
    BY <1>1, <2>2 DEF SSTableValue, Entry, TablesOf
<1>3. Entry(c, k) \in Entries \cup {Absent}
  BY RecordTables, EntryType
<1>4. Entry(<<>>, k) = Absent
  BY TablesOfNone, NewestOfNone DEF Entry
<1>5. View(k) = UnderlyingValue(First(Entry(c, k), Entry(a, k)))
  BY <1>1, <1>4, ViewIs DEF ViewOf, First
<1> QED
  BY <1>1, <1>2, <1>3, <1>5, DataAssumption DEF GetValue, Entry, First, UnderlyingValue, Entries

LEMMA GetStep ==
    ASSUME IndInv, ContentsInv, Get
    PROVE  KV!Next
<1>1. [Next]_vars /\ RequestInv /\ FlushedInv
  BY DEF Next, CallStep, ContentsInv
<1>2. PICK k \in Keys : k = call.key
  BY DEF Get, IndInv, CallInv
<1>3. Contents' = Contents
  BY <1>1, QuietView DEF Get, Write, ActivateLast
<1>4. reply' = Contents[k]
  <2>1. ~InUpdate /\ unindexed = <<>> /\ reply' = GetValue(k)
    BY <1>2 DEF Get, InUpdate, IndInv, CallInv
  <2>2. GetValue(k) = View(k)
    BY <2>1, GetValueIs
  <2> QED
    BY <2>1, <2>2 DEF Contents
<1>5. Unanswered = [op |-> "get", key |-> k, value |-> Absent]
  BY <1>1, <1>2, UnansweredIs DEF UnansweredOf, Get
<1>6. Unanswered' = NoCall
  BY <1>1, NextUnansweredIs DEF UnansweredOf, Get, Return, NoCall
<1> QED
  BY <1>3, <1>4, <1>5, <1>6 DEF KV!Next, KV!Get, KV!NoRequest, NoCall

\* set and remove take effect with the MemTable.
LEMMA WriteStep ==
    ASSUME IndInv, ContentsInv, Write
    PROVE  KV!Next
<1>1. [Next]_vars /\ RequestInv
  BY DEF Next, CallStep, ContentsInv
<1>2. PICK k \in Keys : k = call.key
  BY DEF Write, IndInv, CallInv
<1>3. /\ pc = "apply" /\ call.op \in {"set", "remove"} /\ reply' = reply
      /\ pc' = "roll" \/ call' = NoCall
  BY DEF Write, Return
<1>4. Contents' = [Contents EXCEPT ![k] = UnderlyingValue(call.value)]
  <2>1. \A x \in Keys : View(x)' = IF x = k THEN UnderlyingValue(call.value) ELSE View(x)
    BY <1>2, WrittenView
  <2> QED
    BY <2>1 DEF Contents
<1>5. Unanswered' = NoCall
  BY <1>1, <1>3, NextUnansweredIs DEF UnansweredOf, NoCall
<1>6. CASE call.op = "set"
  <2>1. call.value \in Values /\ UnderlyingValue(call.value) = call.value
    BY <1>1, <1>6, DataAssumption DEF RequestInv, UnderlyingValue
  <2>2. Unanswered = [op |-> "set", key |-> k, value |-> call.value]
    BY <1>1, <1>2, <1>3, <1>6, UnansweredIs DEF UnansweredOf
  <2> QED
    BY <2>1, <2>2, <1>3, <1>4, <1>5 DEF KV!Next, KV!Set, KV!NoRequest, NoCall
<1>7. CASE call.op = "remove"
  <2>1. UnderlyingValue(call.value) = Absent
    BY <1>1, <1>7 DEF RequestInv, UnderlyingValue
  <2>2. Unanswered = [op |-> "remove", key |-> k, value |-> Absent]
    BY <1>1, <1>2, <1>3, <1>7, UnansweredIs DEF UnansweredOf
  <2> QED
    BY <2>1, <2>2, <1>3, <1>4, <1>5 DEF KV!Next, KV!Remove, KV!NoRequest, NoCall
<1> QED
  BY <1>3, <1>6, <1>7

\* The other steps of a call, and those of the jobs.
LEMMA InnerFrame ==
    ASSUME IndInv, [Next]_vars
    PROVE  \/ Client \/ Get \/ Write \/ Roll
           \/ UNCHANGED <<call, reply>> /\ pc # "roll" /\ pc' # "roll"
           \/ UNCHANGED <<call, reply, pc>>
BY DEF Next, CallStep, CheckFutures, Closed, vars, NoCompactionToCheck, CompactionRunning,
       CompactionReady, DeprecateNext, ActivateNext, ActivateLast, FlushReady, PopMemTable,
       FlushesChecked, FirstMemTable, CloseFlush, CloseDone, FlushJob, CompactionStep, callVars

LEMMA InnerStep ==
    ASSUME IndInv, ContentsInv, [Next]_vars, ~Client, ~Get, ~Write
    PROVE  UNCHANGED <<Unanswered, reply>>
<1>1. RequestInv
  BY DEF ContentsInv
<1>2. Unanswered = UnansweredOf(pc, call) /\ Unanswered' = UnansweredOf(pc', call')
  BY <1>1, UnansweredIs, NextUnansweredIs
<1>3. CASE Roll
  BY <1>2, <1>3 DEF UnansweredOf, Roll, Return, NoCall
<1>4. CASE UNCHANGED <<call, reply>> /\ pc # "roll" /\ pc' # "roll"
  BY <1>2, <1>4 DEF UnansweredOf
<1>5. CASE UNCHANGED <<call, reply, pc>>
  BY <1>2, <1>5
<1> QED
  BY <1>3, <1>4, <1>5, InnerFrame

LEMMA StoreStep ==
    ASSUME IndInv, ContentsInv, [Next]_vars, ~ActivateLast
    PROVE  [KV!Next]_<<Contents, Unanswered, reply>>
<1>1. CASE Client
  BY <1>1, ClientStep
<1>2. CASE Get
  BY <1>2, GetStep
<1>3. CASE Write
  BY <1>3, WriteStep
<1>4. CASE ~Client /\ ~Get /\ ~Write
  BY <1>4, InnerStep, QuietView DEF ContentsInv
<1> QED
  BY <1>1, <1>2, <1>3, <1>4

\* The end of a compaction may bring removed keys back.
LEMMA CompactedStep ==
    ASSUME IndInv, ContentsInv, ActivateLast
    PROVE  /\ KV!Reappear
           /\ compactionStartIndex = 0 /\ Len(compaction.result) = 1 =>
                  UNCHANGED <<Contents, Unanswered, reply>>
<1>1. [Next]_vars /\ MergeInv /\ ~Client /\ ~Get /\ ~Write
  BY DEF Next, CallStep, CheckFutures, ContentsInv, ActivateLast, Client, CallGet, CallSet,
         CallRemove, CallClose, Enter, Get, Write
<1>2. UNCHANGED <<Unanswered, reply>>
  BY <1>1, InnerStep
<1>3. ASSUME NEW k \in Keys
      PROVE  /\ View(k)' \in Values \cup {Absent}
             /\ View(k) \in Values => View(k)' = View(k)
             /\ compactionStartIndex = 0 /\ Len(compaction.result) = 1 => View(k)' = View(k)
  BY <1>1, NextViewIs, CompactedView, DataAssumption
<1> QED
  BY <1>2, <1>3 DEF KV!Reappear, Contents

LEMMA StoreInit == Init => KV!Init
<1> SUFFICES ASSUME Init PROVE KV!Init
  OBVIOUS
<1>1. IndInv /\ RequestInv
  BY IndInvInit, ContentsInvInit DEF ContentsInv
<1>2. Unanswered = NoCall /\ reply = Absent
  BY <1>1, UnansweredIs DEF UnansweredOf, Init, NoCall
<1>3. ASSUME NEW k \in Keys PROVE View(k) = Absent
  <2>1. Entry(<<>>, k) = Absent
    BY TablesOfNone, NewestOfNone DEF Entry
  <2>2. View(k) = ViewOf(<<>>, <<>>, <<>>, k)
    BY <1>1, ViewIs DEF Init, MemTableQueueInit, SSTableIndexQueueInit
  <2> QED
    BY <2>1, <2>2, DataAssumption DEF ViewOf, First, UnderlyingValue
<1> QED
  BY <1>2, <1>3 DEF KV!Init, KV!NoRequest, NoCall, Contents

-----------------------------------------------------------------------------
(***************************************************************************)
(* Theorems.                                                               *)
(***************************************************************************)

\* Whatever the jobs do beside the calls, and however the tables are merged: a
\* value that was set reads as that value until the key is set or removed again,
\* get answers with what is read, and each call of set or remove takes effect
\* once.  Only removed keys may come back.
THEOREM LossyStore == Spec => RefinesLossyStore
<1>1. ASSUME IndInv, ContentsInv, [Next]_vars
      PROVE  [KV!Next \/ KV!Reappear]_<<Contents, Unanswered, reply>>
  BY <1>1, StoreStep, CompactedStep
<1> QED
  BY <1>1, StoreInit, Invariance, ContentsInvariance, PTL DEF Spec, RefinesLossyStore, KV!LossySpec

\* What an SSTABLE_APPROXIMATE_MAX_SIZE_IN_BYTES that no compaction reaches
\* amounts to: the result is one table.
SingleResult == Len(compaction.result) <= 1

StartsAtOldest == compactionStartIndex = 0

LEMMA OneResult ==
    ASSUME IndInv, SingleResult, ActivateLast
    PROVE  Len(compaction.result) = 1
<1>1. PICK n \in Nat : n = Len(compaction.result)
  <2>1. Len(compaction.result) \in Nat
    BY CompactionTypes
  <2> QED
    BY <2>1
<1>2. n <= 1 /\ cursor \in 1 .. n
  BY <1>1 DEF ActivateLast, SingleResult, IndInv, UpdateInv
<1>3. n = 1
  BY <1>2
<1> QED
  BY <1>1, <1>3

LEMMA StartsAtOldestStep ==
    IndInv /\ StartsAtOldest /\ SingleResult /\ [Next]_vars => StartsAtOldest'
<1> SUFFICES ASSUME IndInv, StartsAtOldest, SingleResult, [Next]_vars PROVE StartsAtOldest'
  OBVIOUS
<1>1. CASE ActivateLast
  <2>1. Len(compaction.result) = 1
    BY <1>1, OneResult
  <2> QED
    BY <1>1, <2>1 DEF ActivateLast, ReplaceCompacted, StartsAtOldest
<1>2. CASE FlushReady \/ FlushesChecked \/ CompactionStep
  BY <1>2 DEF FlushReady, FlushesChecked, TryLaunchCompaction, CompactionStep, CompactionJob,
              CompactionBegin, CompactionMerge, CompactionFlushBegin, CompactionFlushFinish,
              StartsAtOldest
<1>3. CASE UNCHANGED indexVars
  BY <1>3 DEF indexVars, StartsAtOldest
<1> QED
  BY <1>1, <1>2, <1>3, IndexFrame

LEMMA SingleResultStep ==
    ASSUME IndInv, ContentsInv, StartsAtOldest, SingleResult, [Next]_vars
    PROVE  [KV!Next]_<<Contents, Unanswered, reply>>
<1>1. CASE ActivateLast
  <2>1. Len(compaction.result) = 1
    BY <1>1, OneResult
  <2> QED
    BY <1>1, <2>1, CompactedStep DEF StartsAtOldest
<1> QED
  BY <1>1, StoreStep

\* As long as each compaction makes one table, the database is the store that
\* projectdb.h describes, and a removed key stays removed.
THEOREM PromisedStore == Spec /\ []SingleResult => RefinesKeyValueStore
<1>1. Init => StartsAtOldest
  BY DEF Init, SSTableIndexQueueInit, StartsAtOldest
<1> QED
  BY <1>1, StartsAtOldestStep, SingleResultStep, StoreInit, Invariance, ContentsInvariance, PTL
     DEF Spec, RefinesKeyValueStore, KV!Spec

\* A compaction with several tables as its result is the only thing that brings
\* a removed key back.
THEOREM RemovedKeysStayRemoved == Spec /\ []SingleResult => RemovedKeyStaysRemoved
<1> DEFINE Stays == \A k \in Keys :
                        View(k) = Absent /\ View(k)' # Absent =>
                            pc = "apply" /\ call.op = "set" /\ call.key = k
<1>1. Init => StartsAtOldest
  BY DEF Init, SSTableIndexQueueInit, StartsAtOldest
<1>2. ASSUME IndInv, ContentsInv, StartsAtOldest, SingleResult, [Next]_vars
      PROVE  Stays
  <2> SUFFICES ASSUME NEW k \in Keys, View(k) = Absent, View(k)' # Absent
               PROVE  pc = "apply" /\ call.op = "set" /\ call.key = k
    OBVIOUS
  <2>1. Contents' # Contents
    BY DEF Contents
  <2>2. CASE ActivateLast
    <3>1. Len(compaction.result) = 1
      BY <2>2, <1>2, OneResult
    <3> QED
      BY <2>1, <2>2, <3>1, <1>2, CompactedStep DEF StartsAtOldest
  <2>3. CASE Write
    <3>1. View(k)' = IF k = call.key THEN UnderlyingValue(call.value) ELSE View(k)
      BY <2>3, <1>2, WrittenView
    <3>2. call.op = "remove" => UnderlyingValue(call.value) = Absent
      BY <1>2 DEF ContentsInv, RequestInv, UnderlyingValue
    <3> QED
      BY <2>3, <3>1, <3>2 DEF Write
  <2> QED
    BY <2>1, <2>2, <2>3, <1>2, QuietView DEF ContentsInv
<1>3. IndInv /\ ContentsInv /\ StartsAtOldest /\ SingleResult /\ [Next]_vars => Stays
  BY <1>2
<1> QED
  BY <1>1, <1>3, StartsAtOldestStep, Invariance, ContentsInvariance, PTL
     DEF Spec, RemovedKeyStaysRemoved

-----------------------------------------------------------------------------
(***************************************************************************)
(* When a compaction has one table as its result.                          *)
(***************************************************************************)

\* No file is larger than largest, and the files of a range are together not
\* larger than SSTABLE_APPROXIMATE_MAX_SIZE_IN_BYTES.
RangesFit(largest) ==
    /\ \A t \in TableSet : FileSizeInBytes(t) \in Nat /\ FileSizeInBytes(t) <= largest
    /\ (NumSSTableToCompact + 1) * largest <= SSTableMaxBytes

\* The first group never reaches the size at which it ends.
OneGroup(largest) ==
    /\ compaction.stage \notin {"ready"} => compaction.result = <<>>
    /\ compaction.stage = "ready" => Len(compaction.result) = 1
    /\ compaction.stage = "merging" =>
           /\ compaction.currTableSize \in Nat
           /\ compaction.currTableSize <=
                  (compaction.next - 1 - compactionStartIndex) * largest
    /\ compaction.stage \in {"flushing", "writing"} => compaction.next = compaction.last + 1

LEMMA OneGroupStep ==
    ASSUME NEW largest \in Nat, RangesFit(largest), IndInv, OneGroup(largest), [Next]_vars
    PROVE  OneGroup(largest)'
<1>1. CASE ActivateLast
  BY <1>1 DEF ActivateLast, ReplaceCompacted, NoCompaction, OneGroup
<1>2. CASE FlushReady
  BY <1>2 DEF FlushReady, OneGroup
<1>3. CASE FlushesChecked
  BY <1>3 DEF FlushesChecked, TryLaunchCompaction, OneGroup
<1>4. CASE UNCHANGED indexVars
  BY <1>4 DEF indexVars, OneGroup
<1>5. CASE CompactionStep
  <2>1. PICK s \in Nat, n \in Nat, e \in Nat :
            /\ s = compactionStartIndex /\ n = compaction.next /\ e = compaction.last
    BY CompactionTypes
  <2>2. /\ e = s + 1 + NumSSTableToCompact
        /\ compaction.stage = "launched" => n = s + 1
        /\ compaction.stage = "merging" => n \in s + 2 .. e
    BY <1>5, <2>1 DEF IndInv, ProgressInv, CompactionStep, CompactionJob, CompactionBegin,
              CompactionMerge, CompactionFlushBegin, CompactionFlushFinish
  <2>3. compactionStartIndex' = s
    BY <1>5, <2>1 DEF CompactionStep, CompactionJob, CompactionBegin, CompactionMerge,
                      CompactionFlushBegin, CompactionFlushFinish
  <2>4. ASSUME compaction.stage \in {"launched", "merging"}
        PROVE  /\ n <= e
               /\ FileSizeInBytes(sst[indexQueue[n].id]) \in Nat
               /\ FileSizeInBytes(sst[indexQueue[n].id]) <= largest
    <3>1. n <= e
      BY <2>2, <2>4, CompactAssumption
    <3>2. n \in DOMAIN indexQueue /\ sst[indexQueue[n].id] = indexQueue[n].table
      BY <2>1, <2>4, <3>1, CompactionReads
    <3>3. indexQueue[n].table \in TableSet
      BY <3>2, CompactionTypes, RecordTables
    <3> QED
      BY <3>1, <3>2, <3>3 DEF RangesFit
  <2>5. CASE CompactionBegin
    <3>1. compaction.stage = "launched"
      BY <2>5 DEF CompactionBegin
    <3>2. compaction'.result = <<>>
      BY <2>5 DEF CompactionBegin, StartGroup
    <3>3. compaction'.stage \in {"flushing", "merging"} /\ (compaction'.stage = "flushing" => n = e)
          /\ compaction'.next = n + 1 /\ compaction'.last = e
          /\ compaction'.currTableSize = FileSizeInBytes(sst[indexQueue[n].id])
      BY <2>5, <2>1 DEF CompactionBegin, StartGroup
    <3>4. (n + 1 - 1 - s) * largest = largest
      <4>1. n + 1 - 1 - s = 1
        BY <3>1, <2>2
      <4> QED
        BY <4>1
    <3>5. FileSizeInBytes(sst[indexQueue[n].id]) \in Nat
          /\ FileSizeInBytes(sst[indexQueue[n].id]) <= largest
      BY <2>4, <3>1
    <3>6. /\ compaction'.currTableSize \in Nat
          /\ compaction'.currTableSize <= (compaction'.next - 1 - compactionStartIndex') * largest
      BY <2>3, <3>3, <3>4, <3>5
    <3>7. compaction'.stage = "flushing" => compaction'.next = compaction'.last + 1
      BY <3>3
    <3>8. compaction'.stage \in {"flushing", "merging"}
      BY <3>3
    <3> QED
      BY <3>2, <3>6, <3>7, <3>8 DEF OneGroup
  <2>6. CASE CompactionMerge
    <3>1. compaction.stage = "merging" /\ compaction.result = <<>>
      BY <2>6 DEF CompactionMerge, OneGroup
    <3>2. PICK size \in Nat, f \in Nat :
              /\ size = compaction.currTableSize /\ f = FileSizeInBytes(sst[indexQueue[n].id])
              /\ size <= (n - 1 - s) * largest /\ f <= largest
      BY <3>1, <2>1, <2>4 DEF OneGroup
    <3>3. size + f <= (n + 1 - 1 - s) * largest
      <4>1. PICK m \in Nat : m = n - 1 - s /\ m + 1 = n + 1 - 1 - s
        BY <2>2, <3>1
      <4>2. (m + 1) * largest = m * largest + largest /\ m * largest \in Nat
        OBVIOUS
      <4> QED
        BY <4>1, <4>2, <3>2
    <3>4. size + f <= SSTableMaxBytes
      <4>1. PICK m \in Nat : m = n + 1 - 1 - s /\ m <= NumSSTableToCompact + 1
        BY <2>2, <3>1, CompactAssumption
      <4>2. PICK d \in Nat : NumSSTableToCompact + 1 = m + d
        BY <4>1, CompactAssumption, NumSSTableToCompact + 1 - m \in Nat
      <4>3. (m + d) * largest = m * largest + d * largest
            /\ m * largest \in Nat /\ d * largest \in Nat
        OBVIOUS
      <4> QED
        BY <4>1, <4>2, <4>3, <3>2, <3>3, SizeAssumption DEF RangesFit
    <3>5. ~(size + f > SSTableMaxBytes)
      BY <3>4, SizeAssumption
    <3>6. /\ compaction'.stage \in {"flushing", "merging"}
          /\ compaction'.stage = "flushing" => n = e
          /\ compaction'.next = n + 1 /\ compaction'.last = e
          /\ compaction'.currTableSize = size + f
          /\ compaction'.result = <<>>
      BY <2>6, <2>1, <3>1, <3>2, <3>5 DEF CompactionMerge
    <3> QED
      BY <2>3, <3>3, <3>6 DEF OneGroup
  <2>7. CASE CompactionFlushBegin
    BY <2>7 DEF CompactionFlushBegin, OneGroup, IndInv, TypeOK, SSTableIndexQueueTypeOK,
                IsCompaction
  <2>8. CASE CompactionFlushFinish
    <3>1. n = e + 1 /\ compaction.result = <<>>
      BY <2>8, <2>1 DEF CompactionFlushFinish, OneGroup
    <3>2. compaction'.stage = "ready"
          /\ compaction'.result = <<[id |-> compaction.currId, table |-> compaction.currTable]>>
      BY <2>8, <2>1, <3>1 DEF CompactionFlushFinish
    <3> QED
      BY <3>2 DEF OneGroup
  <2> QED
    BY <1>5, <2>5, <2>6, <2>7, <2>8 DEF CompactionStep, CompactionJob
<1> QED
  BY <1>1, <1>2, <1>3, <1>4, <1>5, IndexFrame

LEMMA OneGroupIsSingle ==
    ASSUME NEW largest \in Nat
    PROVE  OneGroup(largest) => SingleResult
<1>1. OneGroup(largest) => compaction.result = <<>> \/ Len(compaction.result) = 1
  BY DEF OneGroup
<1>2. compaction.result = <<>> => Len(compaction.result) = 0
  OBVIOUS
<1>3. OneGroup(largest) => Len(compaction.result) \in {0, 1}
  BY <1>1, <1>2
<1>4. \A n \in {0, 1} : n <= 1
  OBVIOUS
<1> QED
  BY <1>3, <1>4 DEF SingleResult

\* Where no range of tables can outgrow the largest SSTable, every compaction
\* makes one table, and the database is the store that projectdb.h describes.
THEOREM StoreOfFittingRanges ==
    ASSUME NEW largest \in Nat, RangesFit(largest)
    PROVE  Spec => RefinesKeyValueStore
<1>1. Init => OneGroup(largest)
  BY DEF Init, SSTableIndexQueueInit, NoCompaction, OneGroup
<1>2. IndInv /\ OneGroup(largest) /\ [Next]_vars => OneGroup(largest)'
  BY OneGroupStep
<1>3. OneGroup(largest) => SingleResult
  BY OneGroupIsSingle
<1> QED
  BY <1>1, <1>2, <1>3, Invariance, PromisedStore, PTL DEF Spec

-----------------------------------------------------------------------------
\* A database that keeps its files open.

\* Every step is one of ProjectDb, and a get returns the same.
LEMMA OpenStep ==
    ASSUME IndInv, StreamsMatchIndexes, [OpenNext]_openVars
    PROVE  [Next]_vars
<1>1. CASE OpenGet
  <2>1. ~InUpdate
    BY <1>1 DEF OpenGet, InUpdate
  <2>2. \A i \in DOMAIN indexQueue : SeekTable(i) = sst[indexQueue[i].id]
    <3> SUFFICES ASSUME NEW i \in DOMAIN indexQueue PROVE SeekTable(i) = sst[indexQueue[i].id]
      OBVIOUS
    <3>1. indexQueue \in Seq(Indexes)
      BY DEF IndInv, TypeOK, SSTableIndexQueueTypeOK
    <3>2. i \in DOMAIN streams
      BY <3>1 DEF StreamsMatchIndexes
    <3>3. sst[indexQueue[i].id] = indexQueue[i].table
      BY <2>1 DEF IndInv, IndexMatchesFile
    <3>4. CASE streams[i] = NotOpen
      BY <3>4 DEF SeekTable
    <3>5. CASE streams[i] # NotOpen
      <4>1. streams[i] = <<indexQueue[i].table>>
        BY <3>2, <3>5 DEF StreamsMatchIndexes
      <4> QED
        BY <4>1, <3>3, <3>5 DEF SeekTable
    <3> QED
      BY <3>4, <3>5
  <2>3. [i \in DOMAIN indexQueue |-> SeekTable(i)]
            = [i \in DOMAIN indexQueue |-> sst[indexQueue[i].id]]
    BY <2>2
  <2>4. Get
    BY <1>1, <2>3 DEF OpenGet, Get, GetValue, SSTableValue
  <2> QED
    BY <2>4 DEF Next, CallStep
<1>2. CASE OpenFlushReady \/ OpenActivateLast
  BY <1>2 DEF OpenFlushReady, OpenActivateLast, Next, CallStep, CheckFutures
<1>3. CASE OtherStep
  BY <1>3 DEF OtherStep, Next, CallStep, CheckFutures
<1>4. CASE UNCHANGED openVars
  BY <1>4 DEF openVars
<1> QED
  BY <1>1, <1>2, <1>3, <1>4 DEF OpenNext

\* The steps that are not named in OpenNext leave the queue as it is.
LEMMA OtherStepFrame == OtherStep => indexQueue' = indexQueue
BY DEF OtherStep, Client, CallGet, CallSet, CallRemove, CallClose, Enter, Closed, vars,
       NoCompactionToCheck, CompactionRunning, CompactionReady, DeprecateNext, ActivateNext,
       PopMemTable, FlushesChecked, TryLaunchCompaction, FirstMemTable, Write, Roll,
       CloseFlush, CloseDone, FlushJob, CompactionStep, CompactionJob, CompactionBegin,
       CompactionMerge, CompactionFlushBegin, CompactionFlushFinish, indexVars

\* A sequence in which the elements behind the a-th, up to the e-th, are
\* replaced by others.
Spliced(q, mid, a, e) == SubSeq(q, 1, a) \o mid \o SubSeq(q, e + 1, Len(q))

\* What the elements of such a sequence p are.
IsSpliced(p, q, mid, a, e) ==
    /\ Len(p) = a + Len(mid) + (Len(q) - e)
    /\ \A i \in 1 .. a + Len(mid) + (Len(q) - e) :
           \/ i \in 1 .. a /\ p[i] = q[i]
           \/ i - a \in 1 .. Len(mid) /\ i > a /\ p[i] = mid[i - a]
           \/ /\ i > a + Len(mid) /\ i - (a + Len(mid)) + e \in 1 .. Len(q)
              /\ p[i] = q[i - (a + Len(mid)) + e]

LEMMA Splice ==
    ASSUME NEW S, NEW q \in Seq(S), NEW mid \in Seq(S), NEW a \in Nat, NEW e \in Nat,
           a <= e, e <= Len(q)
    PROVE  /\ Spliced(q, mid, a, e) \in Seq(S)
           /\ IsSpliced(Spliced(q, mid, a, e), q, mid, a, e)
<1> DEFINE front == SubSeq(q, 1, a)
           back == SubSeq(q, e + 1, Len(q))
           head == front \o mid
           p == head \o back
<1>1. front \in Seq(S) /\ Len(front) = a /\ \A i \in 1 .. a : front[i] = q[i]
  OBVIOUS
<1>2. /\ back \in Seq(S) /\ Len(back) = Len(q) - e
      /\ \A i \in 1 .. Len(q) - e : back[i] = q[i + e]
  OBVIOUS
<1>3. Len(mid) \in Nat /\ Len(q) \in Nat
  OBVIOUS
<1> HIDE DEF front, back
<1>4. /\ head \in Seq(S) /\ Len(head) = a + Len(mid)
      /\ \A i \in 1 .. a + Len(mid) : head[i] = IF i <= a THEN front[i] ELSE mid[i - a]
  BY <1>1, Concatenation
<1> HIDE DEF head
<1>5. /\ p \in Seq(S) /\ Len(p) = a + Len(mid) + (Len(q) - e)
      /\ \A i \in 1 .. a + Len(mid) + (Len(q) - e) :
             p[i] = IF i <= a + Len(mid) THEN head[i] ELSE back[i - (a + Len(mid))]
  <2>1. p = head \o back
    OBVIOUS
  <2> HIDE DEF p
  <2>2. /\ head \o back \in Seq(S) /\ Len(head \o back) = Len(head) + Len(back)
        /\ \A i \in 1 .. Len(head) + Len(back) :
               (head \o back)[i] = IF i <= Len(head) THEN head[i] ELSE back[i - Len(head)]
    <3>1. head \in Seq(S) /\ back \in Seq(S)
      BY <1>2, <1>4
    <3> QED
      BY <3>1, Concatenation
  <2> QED
    BY <2>1, <2>2, <1>2, <1>4
<1> HIDE DEF p
<1>6. ASSUME NEW i \in 1 .. a + Len(mid) + (Len(q) - e)
      PROVE  \/ i \in 1 .. a /\ p[i] = q[i]
             \/ i - a \in 1 .. Len(mid) /\ i > a /\ p[i] = mid[i - a]
             \/ /\ i > a + Len(mid) /\ i - (a + Len(mid)) + e \in 1 .. Len(q)
                /\ p[i] = q[i - (a + Len(mid)) + e]
  <2>1. CASE i <= a
    <3>1. i \in 1 .. a /\ i \in 1 .. a + Len(mid) /\ i <= a + Len(mid)
      BY <2>1, <1>3
    <3>2. p[i] = front[i]
      BY <2>1, <3>1, <1>4, <1>5
    <3> QED
      BY <3>1, <3>2, <1>1
  <2>2. CASE i > a /\ i <= a + Len(mid)
    BY <2>2, <1>3, <1>4, <1>5
  <2>3. CASE i > a + Len(mid)
    <3>1. i - (a + Len(mid)) \in 1 .. Len(q) - e
      BY <2>3, <1>3
    <3>2. p[i] = back[i - (a + Len(mid))]
      BY <2>3, <1>3, <1>5
    <3>3. p[i] = q[i - (a + Len(mid)) + e]
      BY <3>1, <3>2, <1>2
    <3> QED
      BY <2>3, <3>1, <3>3, <1>3
  <2> QED
    BY <2>1, <2>2, <2>3, <1>3
<1> QED
  BY <1>5, <1>6 DEF Spliced, IsSpliced, p, head, front, back

LEMMA StreamsStep ==
    ASSUME IndInv, StreamsMatchIndexes, [OpenNext]_openVars
    PROVE  StreamsMatchIndexes'
<1>a. indexQueue \in Seq(Indexes)
  BY DEF IndInv, TypeOK, SSTableIndexQueueTypeOK
<1>b. /\ streams \in Seq(Streams) /\ Len(streams) = Len(indexQueue)
      /\ DOMAIN streams = 1 .. Len(indexQueue) /\ Len(indexQueue) \in Nat
      /\ \A i \in DOMAIN streams : streams[i] # NotOpen => streams[i] = <<indexQueue[i].table>>
  BY <1>a DEF StreamsMatchIndexes
<1>1. CASE indexQueue' = indexQueue /\ streams' = streams
  BY <1>1 DEF StreamsMatchIndexes
<1>2. CASE OpenGet
  <2>1. indexQueue' = indexQueue
    BY <1>2 DEF OpenGet, indexVars
  <2>2. CASE streams' = streams
    BY <2>1, <2>2, <1>1
  <2>3. CASE streams' = [i \in DOMAIN indexQueue |->
                            IF i \in Searched(call.key) THEN <<SeekTable(i)>> ELSE streams[i]]
    <3>1. ~InUpdate
      BY <1>2 DEF OpenGet, InUpdate
    <3>2. ASSUME NEW i \in 1 .. Len(indexQueue)
          PROVE  /\ SeekTable(i) = indexQueue[i].table
                 /\ indexQueue[i].table \in TableSet
      <4>1. sst[indexQueue[i].id] = indexQueue[i].table
        BY <3>1, <1>a DEF IndInv, IndexMatchesFile
      <4>2. SeekTable(i) = indexQueue[i].table
        BY <4>1, <1>b DEF SeekTable
      <4>3. indexQueue[i] \in Indexes
        BY <1>a
      <4> QED
        BY <4>2, <4>3 DEF Indexes
    <3>3. DOMAIN indexQueue = 1 .. Len(indexQueue)
      BY <1>a
    <3>4. \A i \in 1 .. Len(indexQueue) :
              streams'[i] \in {<<indexQueue[i].table>>, streams[i]}
      BY <2>3, <3>2, <3>3
    <3>5. \A i \in 1 .. Len(indexQueue) : streams'[i] \in Streams
      BY <3>2, <3>4, <1>b DEF Streams
    <3>6. DOMAIN streams' = 1 .. Len(indexQueue)
      BY <2>3, <3>3
    <3>7. streams' = [i \in 1 .. Len(indexQueue) |-> streams'[i]]
      BY <2>3, <3>3
    <3>8. streams' \in Seq(Streams) /\ Len(streams') = Len(indexQueue)
      BY <3>5, <3>7, <1>b
    <3> QED
      BY <2>1, <3>4, <3>6, <3>8, <1>b DEF StreamsMatchIndexes
  <2> QED
    BY <1>2, <2>2, <2>3 DEF OpenGet
<1>3. CASE OpenFlushReady
  <2>1. PICK index : indexQueue' = Append(indexQueue, index)
    BY <1>3 DEF OpenFlushReady, FlushReady, Insert
  <2>2. streams' = Append(streams, NotOpen) /\ NotOpen \in Streams
    BY <1>3 DEF OpenFlushReady, Streams
  <2>3. /\ streams' \in Seq(Streams) /\ Len(streams') = Len(indexQueue) + 1
        /\ DOMAIN streams' = 1 .. Len(indexQueue) + 1
        /\ \A i \in 1 .. Len(indexQueue) : streams'[i] = streams[i]
        /\ streams'[Len(indexQueue) + 1] = NotOpen
    BY <2>2, <1>b
  <2>4. /\ Len(indexQueue') = Len(indexQueue) + 1
        /\ \A i \in 1 .. Len(indexQueue) : indexQueue'[i] = indexQueue[i]
    BY <2>1, <1>a
  <2>5. \A i \in 1 .. Len(indexQueue) + 1 :
            i \in 1 .. Len(indexQueue) \/ i = Len(indexQueue) + 1
    BY <1>b
  <2> QED
    BY <2>3, <2>4, <2>5, <1>b DEF StreamsMatchIndexes
<1>4. CASE OpenActivateLast
  <2> DEFINE s == compactionStartIndex
             r == Len(compaction.result)
             e == compactionStartIndex + NumSSTableToCompact + 1
             n == Len(indexQueue)
             none == [i \in DOMAIN compaction.result |-> NotOpen]
             result == compaction.result
  <2>1. /\ compaction.stage = "ready" /\ compaction.last = e /\ compaction.last <= n
    <3>1. InUpdate
      BY <1>4 DEF OpenActivateLast, ActivateLast, InUpdate
    <3> QED
      BY <3>1, CompactAssumption DEF IndInv, UpdateInv, ProgressInv, TypeOK, SSTableIndexQueueTypeOK
  <2>2. s \in Nat /\ r \in Nat /\ e \in Nat /\ n \in Nat /\ s < e /\ e <= n
    BY <2>1, <1>b, CompactAssumption DEF IndInv, TypeOK, SSTableIndexQueueTypeOK, IsCompaction
  <2>3. compaction.result \in Seq(Indexes)
    BY DEF IndInv, TypeOK, SSTableIndexQueueTypeOK, IsCompaction
  <2>3a. e + 1 = compactionStartIndex + NumSSTableToCompact + 2
    BY CompactAssumption DEF IndInv, TypeOK, SSTableIndexQueueTypeOK
  <2>4. indexQueue' = SubSeq(indexQueue, 1, s) \o compaction.result \o SubSeq(indexQueue, e + 1, n)
    <3>1. indexQueue' = SubSeq(indexQueue, 1, compactionStartIndex)
                            \o compaction.result
                            \o SubSeq(indexQueue, compactionStartIndex + NumSSTableToCompact + 2,
                                      Len(indexQueue))
      BY <1>4 DEF OpenActivateLast, ActivateLast, ReplaceCompacted
    <3> QED
      BY <3>1, <2>3a
  <2>5. streams' = SubSeq(streams, 1, s) \o none \o SubSeq(streams, e + 1, n)
    <3>1. streams' = SubSeq(streams, 1, compactionStartIndex)
                         \o [i \in DOMAIN compaction.result |-> NotOpen]
                         \o SubSeq(streams, compactionStartIndex + NumSSTableToCompact + 2,
                                   Len(streams))
      BY <1>4 DEF OpenActivateLast
    <3> QED
      BY <3>1, <2>3a, <1>b
  <2>6. none \in Seq(Streams) /\ Len(none) = r /\ \A i \in 1 .. r : none[i] = NotOpen
    BY <2>2, <2>3 DEF Streams
  <2>7. result \in Seq(Indexes) /\ Len(result) = r
    BY <2>3
  <2>8. /\ indexQueue' = SubSeq(indexQueue, 1, s) \o result \o SubSeq(indexQueue, e + 1, n)
        /\ streams' = SubSeq(streams, 1, s) \o none \o SubSeq(streams, e + 1, Len(streams))
        /\ Len(streams) = n /\ n = Len(indexQueue)
    BY <2>4, <2>5, <1>b
  <2> HIDE DEF s, r, e, n, none, result
  <2>9. /\ indexQueue' \in Seq(Indexes) /\ Len(indexQueue') = s + r + (n - e)
        /\ \A i \in 1 .. s + r + (n - e) :
               \/ i \in 1 .. s /\ indexQueue'[i] = indexQueue[i]
               \/ i - s \in 1 .. r /\ i > s /\ indexQueue'[i] = result[i - s]
               \/ /\ i > s + r /\ i - (s + r) + e \in 1 .. n
                  /\ indexQueue'[i] = indexQueue[i - (s + r) + e]
    <3>1. PICK x \in Seq(Indexes), y \in Seq(Indexes), a \in Nat, z \in Nat :
              x = indexQueue /\ y = result /\ a = s /\ z = e
      BY <2>2, <2>7, <1>a
    <3>2. PICK p : p = indexQueue'
      OBVIOUS
    <3>3. a <= z /\ z <= Len(x)
      BY <3>1, <2>2, <2>8
    <3>4. p = Spliced(x, y, a, z)
      BY <3>1, <3>2, <2>8 DEF Spliced
    <3>5. p \in Seq(Indexes) /\ IsSpliced(p, x, y, a, z)
      BY <3>3, <3>4, Splice
    <3>6. Len(x) = n /\ Len(y) = r
      BY <3>1, <2>7, <2>8
    <3> QED
      BY <3>1, <3>2, <3>5, <3>6 DEF IsSpliced
  <2>10. /\ streams' \in Seq(Streams) /\ Len(streams') = s + r + (n - e)
         /\ \A i \in 1 .. s + r + (n - e) :
               \/ i \in 1 .. s /\ streams'[i] = streams[i]
               \/ i - s \in 1 .. r /\ i > s /\ streams'[i] = none[i - s]
               \/ /\ i > s + r /\ i - (s + r) + e \in 1 .. n
                  /\ streams'[i] = streams[i - (s + r) + e]
    <3>1. PICK x \in Seq(Streams), y \in Seq(Streams), a \in Nat, z \in Nat :
              x = streams /\ y = none /\ a = s /\ z = e
      BY <2>2, <2>6, <1>b
    <3>2. PICK p : p = streams'
      OBVIOUS
    <3>3. a <= z /\ z <= Len(x)
      BY <3>1, <2>2, <2>8
    <3>4. p = Spliced(x, y, a, z)
      BY <3>1, <3>2, <2>8 DEF Spliced
    <3>5. p \in Seq(Streams) /\ IsSpliced(p, x, y, a, z)
      BY <3>3, <3>4, Splice
    <3>6. Len(x) = n /\ Len(y) = r
      BY <3>1, <2>6, <2>8
    <3> QED
      BY <3>1, <3>2, <3>5, <3>6 DEF IsSpliced
  <2>11. ASSUME NEW i \in 1 .. Len(streams'), streams'[i] # NotOpen
         PROVE  streams'[i] = <<indexQueue'[i].table>>
    <3>1. i \in Nat /\ i \in 1 .. s + r + (n - e)
      BY <2>9, <2>10, <2>2
    <3>2. CASE i \in 1 .. s
      <4>1. i \in 1 .. n
        BY <3>2, <2>2
      <4>2. streams'[i] = streams[i] /\ indexQueue'[i] = indexQueue[i]
        BY <3>1, <3>2, <2>2, <2>9, <2>10
      <4> QED
        BY <4>1, <4>2, <2>8, <2>11, <1>b
    <3>3. CASE i - s \in 1 .. r /\ i > s
      <4>1. i \notin 1 .. s /\ ~ (i > s + r)
        BY ONLY <3>1, <3>3, <2>2
      <4>2. streams'[i] = none[i - s]
        BY ONLY <3>1, <4>1, <2>10
      <4>3. none[i - s] = NotOpen
        BY <3>3, <2>6
      <4> QED
        BY <4>2, <4>3, <2>11
    <3>4. CASE i > s + r /\ i - (s + r) + e \in 1 .. n
      <4>1. /\ streams'[i] = streams[i - (s + r) + e]
            /\ indexQueue'[i] = indexQueue[i - (s + r) + e]
        BY <3>1, <3>4, <2>2, <2>9, <2>10
      <4> QED
        BY <4>1, <3>4, <2>8, <2>11, <1>b
    <3> QED
      BY <3>2, <3>3, <3>4, <2>10
  <2>12. DOMAIN streams' = 1 .. Len(streams')
    BY <2>10
  <2> QED
    BY <2>9, <2>10, <2>11, <2>12 DEF StreamsMatchIndexes
<1>5. CASE OtherStep /\ UNCHANGED streams
  BY <1>1, <1>5, OtherStepFrame
<1>6. CASE UNCHANGED openVars
  BY <1>1, <1>6 DEF openVars, vars, indexVars
<1> QED
  BY <1>2, <1>3, <1>4, <1>5, <1>6 DEF OpenNext

LEMMA OpenInitStep == OpenInit => IndInv /\ StreamsMatchIndexes
BY IndInvInit DEF OpenInit, StreamsMatchIndexes, Init, SSTableIndexQueueInit

LEMMA OpenInvariant == OpenSpec => [](IndInv /\ StreamsMatchIndexes)
<1>1. IndInv /\ StreamsMatchIndexes /\ [OpenNext]_openVars
          => (IndInv /\ StreamsMatchIndexes)'
  BY OpenStep, StreamsStep, IndInvStep
<1> QED
  BY <1>1, OpenInitStep, PTL DEF OpenSpec

-----------------------------------------------------------------------------
\* An open stream reads the table its index was built from, however often the
\* file behind it has been deprecated, removed or its name given to another.
THEOREM StreamsStayValid == OpenSpec => []StreamsMatchIndexes
BY OpenInvariant, PTL

\* With KEEP_SSTABLE_FILE_OPEN the database implements the one without: every
\* step is one of its steps, with the same replies, so that all that is proved
\* of ProjectDb holds of it too.
THEOREM OpenFilesImplementProjectDb == OpenSpec => RefinesProjectDb
<1>1. OpenInit => Init
  BY DEF OpenInit
<1>2. IndInv /\ StreamsMatchIndexes /\ [OpenNext]_openVars => [Next]_vars
  BY OpenStep
<1> QED
  BY <1>1, <1>2, OpenInvariant, PTL DEF OpenSpec, RefinesProjectDb, Spec

\* In particular the value a key was set to is read from the open files too.
THEOREM OpenFilesImplementTheStore == OpenSpec => RefinesLossyStore
BY OpenFilesImplementProjectDb, LossyStore, PTL DEF RefinesProjectDb
=============================================================================

------------------------- MODULE SSTableIndexProofs -------------------------
(***************************************************************************)
(* Proofs about SSTableIndex and MergeLoop, where keys have an order, for  *)
(* all tables, sizes and block sizes: the invariant of building an index   *)
(* entry by entry, what it means for seek, and what the loop of            *)
(* mergeSSTable makes of two tables.                                       *)
(***************************************************************************)
EXTENDS SSTableIndex, MergeLoop, TablesProofs

-----------------------------------------------------------------------------
\* Entries and their positions.

LEMMA Shift ==
    ASSUME NEW x \in Int, NEW y \in Int, NEW z \in Int
    PROVE  (x - y) + z = (x + z) - y
OBVIOUS

LEMMA EntryBytesType ==
    ASSUME NEW k \in Keys, NEW v \in Entries
    PROVE  EntryBytes(k, v) \in Nat /\ EntryBytes(k, v) > 0
<1>1. Length(v) \in Nat
  BY DataAssumption, SizeAssumption DEF Length, Entries
<1>2. KeyBytes[k] \in Nat
  BY SizeAssumption
<1> QED
  BY <1>1, <1>2 DEF EntryBytes

LEMMA TableEntry ==
    ASSUME NEW t \in TableSet, NEW k \in DOMAIN t
    PROVE  k \in Keys /\ k \in Int /\ t[k] \in Entries
BY IndexAssumption DEF TableSet

\* What is known of an entry of the file.
LEMMA FileEntryType ==
    ASSUME IndexTypeOK, NEW i \in DOMAIN file
    PROVE  /\ i \in Nat /\ i >= 1 /\ i <= Len(file)
           /\ file[i].key \in Keys /\ file[i].key \in Int
           /\ file[i].value \in Entries
           /\ file[i].pos \in Nat
           /\ EntryBytes(file[i].key, file[i].value) \in Nat
           /\ EntryEnd(i) \in Nat /\ EntryEnd(i) > file[i].pos
<1>1. file[i] \in FileEntries /\ i \in 1 .. Len(file) /\ Len(file) \in Nat
  BY DEF IndexTypeOK
<1>2. file[i].key \in Keys /\ file[i].value \in Entries /\ file[i].pos \in Nat
  BY <1>1 DEF FileEntries
<1>3. /\ EntryBytes(file[i].key, file[i].value) \in Nat
      /\ EntryBytes(file[i].key, file[i].value) > 0
  BY <1>2, EntryBytesType
<1>4. EntryEnd(i) \in Nat /\ EntryEnd(i) > file[i].pos
  <2> DEFINE bytes == EntryBytes(file[i].key, file[i].value)
  <2>1. bytes \in Nat /\ bytes > 0 /\ EntryEnd(i) = file[i].pos + bytes
    BY <1>3 DEF EntryEnd
  <2> HIDE DEF bytes
  <2> QED
    BY <2>1, <1>2
<1>5. i \in Nat /\ i >= 1 /\ i <= Len(file)
  BY <1>1
<1> QED
  BY <1>2, <1>3, <1>4, <1>5, IndexAssumption

LEMMA InitStep == IndexInit => IndexInv
<1> SUFFICES ASSUME IndexInit PROVE IndexInv
  OBVIOUS
<1>1. IndexTypeOK
  BY DEF IndexInit, IndexTypeOK, EmptyIndex, FirstPos
<1> QED
  BY <1>1 DEF IndexInit, IndexInv, FileInv, PositionInv, IndexedInv, BlockInv, EmptyIndex, Built

-----------------------------------------------------------------------------
\* flushSSTable.

LEMMA FlushEntryStep == IndexInv /\ FlushEntry => IndexInv'
<1> SUFFICES ASSUME IndexInv, NEW k \in KeysToWrite,
                    phase = "flushing",
                    \A other \in KeysToWrite : k <= other,
                    LET isFirstOrLastEntry == file = <<>> \/ KeysToWrite = {k}
                        indexAdded == isFirstOrLastEntry \/ currBlockSize >= blockSize
                    IN  /\ AddIndex(indexAdded, k, currPos)
                        /\ currBlockSize' = (IF indexAdded THEN 0 ELSE currBlockSize)
                                                + EntryBytes(k, table[k]),
                    file' = Append(file, [key |-> k, value |-> table[k], pos |-> currPos]),
                    done' = done + 1,
                    currPos' = currPos + EntryBytes(k, table[k]),
                    UNCHANGED <<phase, table, blockSize, eofPos>>
             PROVE  IndexInv'
  BY DEF FlushEntry
<1> DEFINE indexAdded == (file = <<>> \/ KeysToWrite = {k}) \/ currBlockSize >= blockSize
           size == EntryBytes(k, table[k])
           entry == [key |-> k, value |-> table[k], pos |-> currPos]
<1> USE DEF IndexInv
<1> PICK n \in Nat : n = Len(file) + 1
  BY DEF IndexTypeOK
<1>1. k \in Keys /\ k \in Int /\ table[k] \in Entries /\ size \in Nat /\ size > 0
  BY TableEntry, EntryBytesType DEF IndexTypeOK, KeysToWrite
<1>2. entry \in FileEntries /\ currPos \in Nat /\ done = Len(file) /\ Len(file) \in Nat
  BY <1>1 DEF FileEntries, IndexTypeOK, PositionInv
<1>3. /\ file' \in Seq(FileEntries) /\ Len(file') = n /\ file'[n] = entry
      /\ DOMAIN file' = 1 .. n /\ DOMAIN file = 1 .. Len(file)
      /\ \A i \in 1 .. Len(file) : file'[i] = file[i]
  BY <1>2 DEF IndexTypeOK
<1>4. KeysToWrite' = KeysToWrite \ {k}
  <2>1. {file'[i].key : i \in DOMAIN file'} = {file[i].key : i \in DOMAIN file} \cup {k}
    BY <1>2, <1>3
  <2> QED
    BY <2>1 DEF KeysToWrite
<1>5. \A i \in 1 .. Len(file) : file[i].key < k /\ EntryEnd(i)' = EntryEnd(i)
  BY <1>3 DEF FileInv, EntryEnd
<1>6. EntryEnd(n)' = currPos' /\ file'[n].pos = currPos /\ file'[n].key = k
  BY <1>3, <1>2, <1>1 DEF EntryEnd
<1>7. \A i \in 1 .. Len(file) : EntryEnd(i) <= currPos
  <2> TAKE i \in 1 .. Len(file)
  <2>1. currPos = EntryEnd(Len(file)) /\ Len(file) \in DOMAIN file /\ i \in DOMAIN file
    BY <1>2, <1>3 DEF PositionInv
  <2>2. CASE i < Len(file)
    <3>1. EntryEnd(i) <= file[Len(file)].pos /\ file[Len(file)].pos < EntryEnd(Len(file))
      BY <2>1, <2>2, FileEntryType DEF FileInv
    <3> QED
      BY <3>1, <2>1, FileEntryType
  <2> QED
    BY <2>1, <2>2, FileEntryType
<1>8. k \notin DOMAIN index
  BY <1>2, <1>3, <1>5, <1>1, FileEntryType DEF IndexedInv
<1>9. DOMAIN index' = IF indexAdded THEN DOMAIN index \cup {k} ELSE DOMAIN index
  BY DEF AddIndex, Put
<1>10. /\ \A x \in DOMAIN index : index'[x] = index[x]
       /\ indexAdded => index'[k] = currPos
  BY <1>8 DEF AddIndex, Put
<1>11. /\ \A i \in 1 .. Len(file) : Indexed(i)' <=> Indexed(i)
       /\ Indexed(n)' <=> indexAdded
  BY <1>3, <1>5, <1>8, <1>9, <1>1, FileEntryType, <1>6 DEF Indexed
<1>12. /\ currBlockSize' = (IF indexAdded THEN 0 ELSE currBlockSize) + size
       /\ currBlockSize \in Nat /\ blockSize \in Nat /\ blockSize' = blockSize
  BY IndexAssumption DEF IndexTypeOK
<1>13. IndexTypeOK'
  <2>1. index' \in [DOMAIN index' -> Nat] /\ DOMAIN index' \subseteq Keys
    <3>1. index' = [z \in DOMAIN index' |-> index'[z]]
      BY DEF AddIndex, Put, IndexTypeOK
    <3>2. \A z \in DOMAIN index' : index'[z] \in Nat
      BY <1>9, <1>10, <1>2 DEF IndexTypeOK
    <3> QED
      BY <3>1, <3>2, <1>9, <1>1 DEF IndexTypeOK
  <2>2. currBlockSize' \in Nat /\ currPos' \in Nat /\ done' \in 0 .. Len(file')
    BY <1>12, <1>1, <1>2, <1>3
  <2> QED
    BY <2>1, <2>2, <1>3 DEF IndexTypeOK
<1>14. FileInv'
  <2>1. ASSUME NEW i \in 1 .. n
        PROVE  /\ file'[i].key \in DOMAIN table'
               /\ file'[i].value = table'[file'[i].key]
               /\ \A x \in KeysToWrite' : file'[i].key < x
               /\ i + 1 \in DOMAIN file' => EntryEnd(i)' = file'[i + 1].pos
    <3>1. CASE i = n
      <4>1. \A x \in KeysToWrite' : k < x
        <5> TAKE x \in KeysToWrite'
        <5>1. x \in KeysToWrite /\ x # k /\ x \in DOMAIN table
          BY <1>4 DEF KeysToWrite
        <5>2. x \in Int
          BY <5>1, TableEntry DEF IndexTypeOK
        <5> QED
          BY <5>1, <5>2, <1>1
      <4> QED
        BY <3>1, <4>1, <1>3, <1>2, <1>6 DEF KeysToWrite
    <3>2. CASE i # n
      <4>1. i \in 1 .. Len(file) /\ i \in DOMAIN file /\ file'[i] = file[i]
        BY <3>2, <1>2, <1>3
      <4>2. i + 1 \in DOMAIN file' => EntryEnd(i)' = file'[i + 1].pos
        <5>1. CASE i = Len(file)
          <6>1. EntryEnd(i) = currPos
            BY <5>1, <4>1, <1>2 DEF PositionInv
          <6> QED
            BY <6>1, <5>1, <4>1, <1>5, <1>6
        <5>2. CASE i # Len(file)
          <6>1. i + 1 \in DOMAIN file /\ file'[i + 1] = file[i + 1]
            BY <5>2, <4>1, <1>2, <1>3
          <6> QED
            BY <6>1, <4>1, <1>5 DEF FileInv
        <5> QED
          BY <5>1, <5>2
      <4> QED
        BY <4>1, <4>2, <1>4 DEF FileInv
    <3> QED
      BY <3>1, <3>2
  <2>2. ASSUME NEW i \in 1 .. n, NEW j \in 1 .. n, i < j
        PROVE  file'[i].key < file'[j].key /\ EntryEnd(i)' <= file'[j].pos
    <3>1. i \in 1 .. Len(file) /\ file'[i] = file[i] /\ i \in DOMAIN file
      BY <2>2, <1>2, <1>3
    <3>2. CASE j = n
      BY <3>1, <3>2, <1>5, <1>6, <1>7
    <3>3. CASE j # n
      <4>1. j \in DOMAIN file /\ file'[j] = file[j]
        BY <3>3, <1>2, <1>3
      <4> QED
        BY <3>1, <4>1, <2>2, <1>5 DEF FileInv
    <3> QED
      BY <3>2, <3>3
  <2>3. file'[1].pos = FirstPos
    <3>1. CASE file = <<>>
      BY <3>1, <1>2, <1>6 DEF PositionInv
    <3>2. CASE file # <<>>
      <4>1. 1 \in 1 .. Len(file)
        BY <3>2, <1>2 DEF IndexTypeOK
      <4> QED
        BY <4>1, <3>2, <1>3 DEF FileInv
    <3> QED
      BY <3>1, <3>2
  <2> QED
    BY <2>1, <2>2, <2>3, <1>3 DEF FileInv
<1>15. PositionInv'
  BY <1>2, <1>3, <1>6 DEF PositionInv, Built
<1>16. IndexedInv'
  <2>1. ASSUME NEW x \in DOMAIN index'
        PROVE  \E i \in 1 .. done' : file'[i].key = x /\ file'[i].pos = index'[x]
    <3>1. CASE x \in DOMAIN index
      <4>1. PICK i \in 1 .. done : file[i].key = x /\ file[i].pos = index[x]
        BY <3>1 DEF IndexedInv
      <4> QED
        BY <4>1, <3>1, <1>2, <1>3, <1>10
    <3>2. CASE x = k /\ indexAdded
      <4>1. n \in 1 .. done'
        BY <1>2
      <4> QED
        BY <4>1, <3>2, <1>6, <1>10
    <3> QED
      BY <3>1, <3>2, <1>9
  <2>2. Indexed(1)'
    <3>1. CASE file = <<>>
      BY <3>1, <1>2, <1>11
    <3>2. CASE file # <<>>
      <4>1. 1 \in 1 .. Len(file)
        BY <3>2, <1>2 DEF IndexTypeOK
      <4> QED
        BY <4>1, <1>2, <1>11 DEF IndexedInv
    <3> QED
      BY <3>1, <3>2
  <2>3. KeysToWrite' = {} => Indexed(done)'
    <3>1. KeysToWrite' = {} => indexAdded
      BY <1>4
    <3> QED
      BY <3>1, <1>2, <1>11 DEF Indexed
  <2> QED
    BY <2>1, <2>2, <2>3 DEF IndexedInv, Indexed
<1>17. BlockInv'
  <2> SUFFICES ASSUME NEW a \in 1 .. n, NEW b \in 1 .. n, a <= b,
                      Indexed(a)', \A i \in a + 1 .. b : ~Indexed(i)'
               PROVE  /\ b = n => currBlockSize' = currPos' - file'[a].pos
                      /\ a = b \/ file'[b].pos - file'[a].pos < blockSize
    <3>1. done' = n /\ phase' = "flushing" /\ blockSize' = blockSize
      BY <1>2
    <3> QED
      BY <3>1 DEF BlockInv, ByWriter
  <2>1. CASE b # n
    <3>1. a \in 1 .. done /\ b \in 1 .. done /\ file'[a] = file[a] /\ file'[b] = file[b]
      BY <2>1, <1>2, <1>3
    <3>2. Indexed(a) /\ \A i \in a + 1 .. b : ~Indexed(i)
      BY <3>1, <1>2, <1>11
    <3> QED
      BY <3>1, <3>2, <2>1 DEF BlockInv, ByWriter
  <2>2. CASE b = n /\ a = n
    BY <2>2, <1>11, <1>12, <1>6, <1>1, <1>2
  <2>3. CASE b = n /\ a # n
    <3>1. ~indexAdded
      BY <2>3, <1>2, <1>11
    <3>2. a \in 1 .. done /\ done \in 1 .. done /\ file'[a] = file[a] /\ a <= done
      BY <2>3, <1>2, <1>3
    <3>3. Indexed(a) /\ \A i \in a + 1 .. done : ~Indexed(i)
      BY <3>2, <2>3, <1>2, <1>11
    <3>4. currBlockSize = currPos - file[a].pos
      BY <3>2, <3>3 DEF BlockInv, ByWriter
    <3>5. file[a].pos \in Nat
      BY <3>2, <1>2, <1>3, FileEntryType
    <3>6. currBlockSize < blockSize /\ currBlockSize' = currBlockSize + size
      BY <3>1, <1>12
    <3>7. currPos' = currPos + size /\ file'[b].pos = currPos /\ file'[a].pos = file[a].pos
      BY <3>2, <1>6, <2>3
    <3> HIDE DEF size, indexAdded
    <3>8. size \in Nat /\ currPos \in Nat /\ currBlockSize \in Nat /\ blockSize \in Nat
      BY <1>1, <1>2, <1>12
    <3>9. currBlockSize' = currPos' - file'[a].pos
      <4>1. (currPos - file[a].pos) + size = (currPos + size) - file[a].pos
        BY <3>5, <3>8, Shift
      <4> QED
        BY <4>1, <3>4, <3>6, <3>7, Zenon
    <3>10. file'[b].pos - file'[a].pos < blockSize
      BY <3>4, <3>5, <3>6, <3>7, <3>8
    <3> QED
      BY <3>9, <3>10
  <2> QED
    BY <2>1, <2>2, <2>3
<1> QED
  BY <1>13, <1>14, <1>15, <1>16, <1>17

LEMMA FlushDoneStep == IndexInv /\ FlushDone => IndexInv'
<1> SUFFICES ASSUME IndexInv, FlushDone PROVE IndexInv'
  OBVIOUS
<1> USE DEF IndexInv, FlushDone
<1>1. IndexTypeOK'
  BY DEF IndexTypeOK
<1>2. FileInv'
  BY DEF FileInv, EntryEnd, KeysToWrite
<1>3. PositionInv'
  BY DEF PositionInv, EntryEnd, Built
<1>4. IndexedInv'
  BY DEF IndexedInv, Indexed, KeysToWrite
<1>5. BlockInv'
  BY DEF BlockInv, Indexed, EntryEnd, ByWriter
<1> QED
  BY <1>1, <1>2, <1>3, <1>4, <1>5

-----------------------------------------------------------------------------
\* loadSSTable.

LEMMA LoadBeginStep == IndexInv /\ LoadBegin => IndexInv'
<1> SUFFICES ASSUME IndexInv, LoadBegin PROVE IndexInv'
  OBVIOUS
<1> USE DEF IndexInv, LoadBegin
<1>1. IndexTypeOK'
  BY DEF IndexTypeOK, EmptyIndex, FirstPos
<1>2. FileInv'
  BY DEF FileInv, EntryEnd, KeysToWrite
<1>3. PositionInv'
  BY DEF PositionInv, Built
<1>4. IndexedInv'
  BY DEF IndexedInv, EmptyIndex
<1>5. BlockInv'
  BY DEF BlockInv
<1> QED
  BY <1>1, <1>2, <1>3, <1>4, <1>5

LEMMA LoadEntryStep == IndexInv /\ LoadEntry => IndexInv'
<1> SUFFICES ASSUME IndexInv, LoadEntry PROVE IndexInv'
  OBVIOUS
<1> USE DEF IndexInv
<1>0. done \in Nat
  BY DEF IndexTypeOK
<1> PICK n \in Nat : done = n - 1 /\ n > 0
  BY <1>0
<1> DEFINE k == file[n].key
           size == EntryBytes(file[n].key, file[n].value)
           indexAdded == n \in {1, Len(file)} \/ currBlockSize + size >= blockSize
<1>1. /\ phase = "loading" /\ done < Len(file)
      /\ AddIndex(indexAdded, k, currPos)
      /\ currBlockSize' = IF indexAdded THEN 0 ELSE currBlockSize + size
      /\ done' = n /\ currPos' = currPos + size
      /\ UNCHANGED <<phase, table, file, blockSize, eofPos>>
  BY DEF LoadEntry
<1>2. n \in DOMAIN file /\ DOMAIN file = 1 .. Len(file) /\ done \in Nat /\ Len(file) \in Nat
  BY <1>1 DEF IndexTypeOK
<1>3. /\ k \in Keys /\ k \in Int /\ size \in Nat /\ currPos \in Nat
      /\ currBlockSize \in Nat /\ blockSize \in Nat
  BY <1>2, FileEntryType, IndexAssumption DEF IndexTypeOK
<1>4. \A i : EntryEnd(i)' = EntryEnd(i)
  BY <1>1 DEF EntryEnd
<1>5. file[n].pos = currPos
  <2>1. CASE done = 0
    BY <2>1, <1>2 DEF FileInv, PositionInv
  <2>2. CASE done # 0
    BY <2>2, <1>2 DEF FileInv, PositionInv
  <2> QED
    BY <2>1, <2>2
<1>6. EntryEnd(n) = currPos'
  BY <1>1, <1>5 DEF EntryEnd
<1>7. \A i \in 1 .. done : i \in 1 .. n /\ i # n /\ file[i].key < k /\ file[i].key \in Int
  <2> TAKE i \in 1 .. done
  <2>1. i \in DOMAIN file /\ i < n /\ i \in 1 .. n
    BY <1>0, <1>2
  <2> QED
    BY <2>1, <1>2, FileEntryType DEF FileInv
<1>7a. \A i \in 1 .. n : i = n \/ i \in 1 .. done
  BY <1>0
<1>8. k \notin DOMAIN index
  BY <1>3, <1>7 DEF IndexedInv
<1>9. DOMAIN index' = IF indexAdded THEN DOMAIN index \cup {k} ELSE DOMAIN index
  BY <1>1 DEF AddIndex, Put
<1>10. /\ \A x \in DOMAIN index : index'[x] = index[x]
       /\ indexAdded => index'[k] = currPos
  BY <1>1, <1>8 DEF AddIndex, Put
<1>11. /\ \A i \in 1 .. done : Indexed(i)' <=> Indexed(i)
       /\ Indexed(n)' <=> indexAdded
  BY <1>1, <1>3, <1>7, <1>8, <1>9 DEF Indexed
<1> HIDE DEF k, size, indexAdded
<1>12. IndexTypeOK'
  <2>1. index' \in [DOMAIN index' -> Nat] /\ DOMAIN index' \subseteq Keys
    <3>1. index' = [z \in DOMAIN index' |-> index'[z]]
      BY <1>1 DEF AddIndex, Put, IndexTypeOK
    <3>2. \A z \in DOMAIN index' : index'[z] \in Nat
      BY <1>9, <1>10, <1>3 DEF IndexTypeOK
    <3> QED
      BY <3>1, <3>2, <1>9, <1>3 DEF IndexTypeOK
  <2>2. currBlockSize' \in Nat /\ currPos' \in Nat /\ done' \in 0 .. Len(file')
    <3>1. n \in 0 .. Len(file)
      BY <1>2
    <3> QED
      BY <3>1, <1>1, <1>3
  <2> QED
    BY <2>1, <2>2, <1>1 DEF IndexTypeOK
<1>13. FileInv'
  <2>1. KeysToWrite' = KeysToWrite /\ file' = file /\ table' = table /\ phase' = phase
    BY <1>1 DEF KeysToWrite
  <2> QED
    BY <2>1, <1>4 DEF FileInv
<1>14. PositionInv'
  BY <1>1, <1>4, <1>6 DEF PositionInv, Built
<1>15. IndexedInv'
  <2>1. ASSUME NEW x \in DOMAIN index'
        PROVE  \E i \in 1 .. n : file[i].key = x /\ file[i].pos = index'[x]
    <3>1. CASE x \in DOMAIN index
      <4>1. PICK i \in 1 .. done : file[i].key = x /\ file[i].pos = index[x]
        BY <3>1 DEF IndexedInv
      <4> QED
        BY <4>1, <3>1, <1>7, <1>10
    <3>2. CASE x = k /\ indexAdded
      BY <3>2, <1>5, <1>10 DEF k
    <3> QED
      BY <3>1, <3>2, <1>9
  <2>2. Indexed(1)'
    <3>1. CASE done = 0
      BY <3>1, <1>0, <1>11 DEF indexAdded
    <3>2. CASE done # 0
      <4>1. 1 \in 1 .. done
        BY <3>2, <1>0
      <4> QED
        BY <3>2, <4>1, <1>11 DEF IndexedInv
    <3> QED
      BY <3>1, <3>2
  <2>3. n = Len(file) => Indexed(n)'
    BY <1>11 DEF indexAdded
  <2> QED
    BY <2>1, <2>2, <2>3, <1>1 DEF IndexedInv, Indexed
<1>16. BlockInv'
  <2> SUFFICES ASSUME NEW a \in 1 .. n, NEW b \in 1 .. n, a <= b,
                      Indexed(a)', \A i \in a + 1 .. b : ~Indexed(i)'
               PROVE  /\ b = n => currBlockSize' = currPos' - EntryEnd(a)
                      /\ a = b \/ EntryEnd(b) - EntryEnd(a) < blockSize
    <3>1. done' = n /\ phase' = "loading" /\ blockSize' = blockSize
      BY <1>1
    <3> QED
      BY <3>1, <1>4 DEF BlockInv, ByWriter
  <2>1. CASE b # n
    <3>1. a \in 1 .. done /\ b \in 1 .. done
      BY <2>1, <1>7a
    <3>2. Indexed(a) /\ \A i \in a + 1 .. b : ~Indexed(i)
      <4>1. \A i \in a + 1 .. b : i \in 1 .. done
        BY <3>1, <1>0
      <4> QED
        BY <3>1, <4>1, <1>11
    <3> QED
      BY <3>1, <3>2, <2>1, <1>1 DEF BlockInv, ByWriter
  <2>2. CASE b = n /\ a = n
    BY <2>2, <1>1, <1>3, <1>6, <1>11
  <2>3. CASE b = n /\ a # n
    <3>1. ~indexAdded
      <4>1. n \in a + 1 .. b
        BY <2>3
      <4> QED
        BY <4>1, <1>11
    <3>2. a \in 1 .. done /\ done \in 1 .. done /\ a <= done
      BY <2>3, <1>0
    <3>3. Indexed(a) /\ \A i \in a + 1 .. done : ~Indexed(i)
      <4>1. \A i \in a + 1 .. done : i \in a + 1 .. b /\ i \in 1 .. done
        BY <3>2, <2>3, <1>0
      <4> QED
        BY <3>2, <4>1, <1>11
    <3>4. currBlockSize = currPos - EntryEnd(a)
      BY <3>2, <3>3, <1>1 DEF BlockInv, ByWriter
    <3>5. EntryEnd(a) \in Nat
      BY <3>2, <1>2, FileEntryType
    <3>6. currBlockSize + size < blockSize /\ currBlockSize' = currBlockSize + size
      BY <3>1, <1>1, <1>3 DEF indexAdded
    <3>7. currBlockSize + size = (currPos + size) - EntryEnd(a)
      BY <3>4, <3>5, <1>3, Shift
    <3>8. EntryEnd(b) = currPos + size /\ currPos' = currPos + size
      BY <2>3, <1>6, <1>1
    <3> QED
      BY <3>6, <3>7, <3>8
  <2> QED
    BY <2>1, <2>2, <2>3
<1> QED
  BY <1>12, <1>13, <1>14, <1>15, <1>16

LEMMA LoadDoneStep == IndexInv /\ LoadDone => IndexInv'
<1> SUFFICES ASSUME IndexInv, LoadDone PROVE IndexInv'
  OBVIOUS
<1> USE DEF IndexInv, LoadDone
<1>1. IndexTypeOK'
  BY DEF IndexTypeOK
<1>2. FileInv'
  BY DEF FileInv, EntryEnd, KeysToWrite
<1>3. PositionInv'
  BY DEF PositionInv, EntryEnd, Built
<1>4. IndexedInv'
  BY DEF IndexedInv, Indexed, KeysToWrite
<1>5. BlockInv'
  BY DEF BlockInv, Indexed, EntryEnd, ByWriter
<1> QED
  BY <1>1, <1>2, <1>3, <1>4, <1>5

LEMMA StutterStep == IndexInv /\ UNCHANGED indexVars => IndexInv'
<1> SUFFICES ASSUME IndexInv, UNCHANGED indexVars PROVE IndexInv'
  OBVIOUS
<1> USE DEF IndexInv, indexVars
<1>1. IndexTypeOK'
  BY DEF IndexTypeOK
<1>2. FileInv'
  BY DEF FileInv, EntryEnd, KeysToWrite
<1>3. PositionInv'
  BY DEF PositionInv, EntryEnd, Built
<1>4. IndexedInv'
  BY DEF IndexedInv, Indexed, KeysToWrite
<1>5. BlockInv'
  BY DEF BlockInv, Indexed, EntryEnd, ByWriter
<1> QED
  BY <1>1, <1>2, <1>3, <1>4, <1>5

\* The invariant of both ways to build an index, flushSSTable's and
\* loadSSTable's: what is in the index are the positions of entries, the first
\* and the last among them, and the blocks are as long as the code counts.
THEOREM IndexInvariance == IndexSpec => []IndexInv
<1>1. IndexInv /\ [IndexNext]_indexVars => IndexInv'
  BY FlushEntryStep, FlushDoneStep, LoadBeginStep, LoadEntryStep, LoadDoneStep,
     StutterStep DEF IndexNext
<1> QED
  BY <1>1, InitStep, PTL DEF IndexSpec

-----------------------------------------------------------------------------
\* seek.

\* The greatest key of the index that is not greater than the one sought is
\* that of the last entry a that is indexed and has such a key; the smallest
\* greater one that of the first indexed entry with a greater key, c.
LEMMA BeginOfBlock ==
    ASSUME IndexInv, Built, NEW k \in Keys, HasBlock(k)
    PROVE  \E a \in DOMAIN file :
               /\ Indexed(a) /\ file[a].key <= k
               /\ BlockBegin(k) = file[a].pos
               /\ \A i \in DOMAIN file : Indexed(i) /\ file[i].key <= k => i <= a
<1> USE DEF IndexInv
<1> DEFINE H == {i \in 1 .. Len(file) : Indexed(i) /\ file[i].key <= k}
<1>1. Len(file) \in Nat /\ DOMAIN file = 1 .. Len(file) /\ done = Len(file) /\ k \in Int
  BY IndexAssumption DEF IndexTypeOK, PositionInv, Built
<1>2. \A x \in DOMAIN index :
          \E i \in 1 .. Len(file) : file[i].key = x /\ file[i].pos = index[x] /\ Indexed(i)
  BY <1>1 DEF IndexedInv, Indexed
<1>3. H # {}
  BY <1>2 DEF HasBlock, NotGreater
<1>4. PICK a \in H : \A i \in H : a >= i
  BY <1>1, <1>3, MaxInRange
<1>5. file[a].key \in NotGreater(k) /\ file[a].key \in Int
  BY <1>1, <1>4, FileEntryType DEF NotGreater, Indexed
<1>6. ASSUME NEW x \in NotGreater(k) PROVE x <= file[a].key /\ x \in Int
  <2>1. PICK i \in H : file[i].key = x
    BY <1>2, <1>6 DEF NotGreater
  <2>2. i <= a /\ i \in DOMAIN file /\ a \in DOMAIN file
    BY <1>4, <1>1, <2>1
  <2>3. CASE i = a
    BY <2>1, <2>3, <1>5
  <2>4. CASE i < a
    BY <2>1, <2>2, <2>4, <1>5, FileEntryType DEF FileInv
  <2> QED
    BY <2>2, <2>3, <2>4, <1>1
<1>7. Max(NotGreater(k)) = file[a].key
  <2>1. \A y \in NotGreater(k) : file[a].key >= y
    BY <1>5, <1>6
  <2>2. Max(NotGreater(k)) \in NotGreater(k) /\ \A y \in NotGreater(k) : Max(NotGreater(k)) >= y
    BY <2>1, <1>5 DEF Max
  <2> QED
    BY <2>2, <1>5, <1>6
<1>8. index[file[a].key] = file[a].pos
  <2>1. PICK i \in 1 .. Len(file) : file[i].key = file[a].key /\ file[i].pos = index[file[a].key]
    BY <1>2, <1>5 DEF NotGreater
  <2>2. i = a
    <3>1. i \in DOMAIN file /\ a \in DOMAIN file /\ i \in Nat /\ a \in Nat
      BY <2>1, <1>1, <1>4
    <3>2. ~(i < a) /\ ~(a < i)
      BY <3>1, <2>1, <1>5 DEF FileInv
    <3> QED
      BY <3>1, <3>2
  <2> QED
    BY <2>1, <2>2
<1> QED
  BY <1>1, <1>4, <1>7, <1>8 DEF BlockBegin

LEMMA EndOfBlock ==
    ASSUME IndexInv, Built, NEW k \in Keys, Greater(k) # {}
    PROVE  \E c \in DOMAIN file :
               /\ Indexed(c) /\ file[c].key > k
               /\ BlockEnd(k) = file[c].pos
               /\ \A i \in DOMAIN file : Indexed(i) /\ file[i].key > k => c <= i
<1> USE DEF IndexInv
<1> DEFINE H == {i \in 1 .. Len(file) : Indexed(i) /\ file[i].key > k}
<1>1. Len(file) \in Nat /\ DOMAIN file = 1 .. Len(file) /\ done = Len(file) /\ k \in Int
  BY IndexAssumption DEF IndexTypeOK, PositionInv, Built
<1>2. \A x \in DOMAIN index :
          \E i \in 1 .. Len(file) : file[i].key = x /\ file[i].pos = index[x] /\ Indexed(i)
  BY <1>1 DEF IndexedInv, Indexed
<1>3. H # {} /\ H \subseteq Nat
  BY <1>2 DEF Greater
<1>4. PICK c \in H : \A i \in H : c <= i
  BY <1>3, MinInNat
<1>5. file[c].key \in Greater(k) /\ file[c].key \in Int
  BY <1>1, <1>4, FileEntryType DEF Greater, Indexed
<1>6. ASSUME NEW x \in Greater(k) PROVE file[c].key <= x /\ x \in Int
  <2>1. PICK i \in H : file[i].key = x
    BY <1>2, <1>6 DEF Greater
  <2>2. c <= i /\ i \in DOMAIN file /\ c \in DOMAIN file
    BY <1>4, <1>1, <2>1
  <2>3. CASE i = c
    BY <2>1, <2>3, <1>5
  <2>4. CASE c < i
    BY <2>1, <2>2, <2>4, <1>5, FileEntryType DEF FileInv
  <2> QED
    BY <2>2, <2>3, <2>4, <1>1
<1>7. Min(Greater(k)) = file[c].key
  <2>1. \A y \in Greater(k) : file[c].key <= y
    BY <1>6
  <2>2. Min(Greater(k)) \in Greater(k) /\ \A y \in Greater(k) : Min(Greater(k)) <= y
    BY <2>1, <1>5 DEF Min
  <2> QED
    BY <2>2, <1>5, <1>6
<1>8. index[file[c].key] = file[c].pos
  <2>1. PICK i \in 1 .. Len(file) : file[i].key = file[c].key /\ file[i].pos = index[file[c].key]
    BY <1>2, <1>5 DEF Greater
  <2>2. i = c
    <3>1. i \in DOMAIN file /\ c \in DOMAIN file /\ i \in Nat /\ c \in Nat
      BY <2>1, <1>1, <1>4
    <3>2. ~(i < c) /\ ~(c < i)
      BY <3>1, <2>1, <1>5 DEF FileInv
    <3> QED
      BY <3>1, <3>2
  <2> QED
    BY <2>1, <2>2
<1> QED
  BY <1>1, <1>4, <1>7, <1>8 DEF BlockEnd

\* The block a seek reads are the entries from a to b, of which only a is in
\* the index, and the key is not outside of it.
LEMMA BlockEntries ==
    ASSUME IndexInv, Built, NEW k \in Keys, HasBlock(k)
    PROVE  \E a, b \in DOMAIN file :
               /\ a <= b /\ Indexed(a) /\ \A i \in a + 1 .. b : ~Indexed(i)
               /\ BlockBegin(k) = file[a].pos /\ BlockEnd(k) = EntryEnd(b)
               /\ Block(k) = a .. b
               /\ \A i \in DOMAIN file : file[i].key = k => i \in a .. b
<1>a. IndexTypeOK /\ FileInv /\ PositionInv
  BY DEF IndexInv
<1>b. \A i \in DOMAIN file :
          /\ i \in Nat /\ file[i].key \in Int /\ file[i].pos \in Nat
          /\ EntryEnd(i) \in Nat /\ EntryEnd(i) > file[i].pos
  BY <1>a, FileEntryType
<1>c. \A i, j \in DOMAIN file :
          i < j => file[i].key < file[j].key /\ EntryEnd(i) <= file[j].pos
  BY <1>a DEF FileInv
<1>1. Len(file) \in Nat /\ DOMAIN file = 1 .. Len(file) /\ done = Len(file) /\ k \in Int
  BY <1>a, IndexAssumption DEF IndexTypeOK, PositionInv, Built
<1>2. PICK a \in DOMAIN file :
          /\ Indexed(a) /\ file[a].key <= k
          /\ BlockBegin(k) = file[a].pos
          /\ \A i \in DOMAIN file : Indexed(i) /\ file[i].key <= k => i <= a
  BY BeginOfBlock
<1>3. \E b \in DOMAIN file :
          /\ a <= b /\ BlockEnd(k) = EntryEnd(b)
          /\ \A i \in DOMAIN file : i <= b => ~(Indexed(i) /\ file[i].key > k)
          /\ \A i \in DOMAIN file : i > b => file[i].key > k
  <2>1. CASE Greater(k) = {}
    <3>1. BlockEnd(k) = EntryEnd(Len(file)) /\ Len(file) \in DOMAIN file
      BY <2>1, <1>a, <1>1, <1>2 DEF BlockEnd, PositionInv
    <3>2. \A i \in DOMAIN file : ~(Indexed(i) /\ file[i].key > k)
      BY <2>1, <1>b DEF Greater, Indexed
    <3> QED
      BY <3>1, <3>2, <1>1
  <2>2. CASE Greater(k) # {}
    <3>1. PICK c \in DOMAIN file :
              /\ Indexed(c) /\ file[c].key > k
              /\ BlockEnd(k) = file[c].pos
              /\ \A i \in DOMAIN file : Indexed(i) /\ file[i].key > k => c <= i
      BY <2>2, EndOfBlock
    <3>2. a < c
      <4>1. file[a].key \in Int /\ file[c].key \in Int /\ a \in Int /\ c \in Int
        BY <1>b
      <4>2. ~ (c < a)
        BY <4>1, <3>1, <1>2, <1>1, <1>c
      <4>3. c # a
        BY <4>1, <3>1, <1>2, <1>1
      <4> QED
        BY <4>1, <4>2, <4>3
    <3>3. c - 1 \in DOMAIN file /\ a <= c - 1 /\ (c - 1) + 1 = c
      BY <3>2, <1>1
    <3>4. EntryEnd(c - 1) = file[c].pos
      BY <1>a, <3>3 DEF FileInv
    <3>5. \A i \in DOMAIN file : i <= c - 1 => ~(Indexed(i) /\ file[i].key > k)
      BY <3>1, <1>1
    <3>6. ASSUME NEW i \in DOMAIN file, i > c - 1 PROVE file[i].key > k
      <4>1. i = c \/ c < i
        BY <3>6, <1>1
      <4> QED
        BY <4>1, <3>1, <1>1, <1>b, <1>c
    <3> QED
      BY <3>1, <3>3, <3>4, <3>5, <3>6
  <2> QED
    BY <2>1, <2>2
<1>4. PICK b \in DOMAIN file :
          /\ a <= b /\ BlockEnd(k) = EntryEnd(b)
          /\ \A i \in DOMAIN file : i <= b => ~(Indexed(i) /\ file[i].key > k)
          /\ \A i \in DOMAIN file : i > b => file[i].key > k
  BY <1>3
<1>5. ASSUME NEW i \in a + 1 .. b PROVE ~Indexed(i)
  <2>1. i \in DOMAIN file /\ i > a /\ i <= b
    BY <1>1, <1>4
  <2> QED
    <3>1. i \in Nat /\ a \in Nat /\ file[i].key \in Int
      BY <2>1, <1>b
    <3>2. Indexed(i) => file[i].key <= k
      BY <2>1, <3>1, <1>1, <1>4
    <3>3. Indexed(i) /\ file[i].key <= k => i <= a
      BY <2>1, <1>2
    <3> QED
      BY <2>1, <3>1, <3>2, <3>3
<1>6. Block(k) = a .. b
  <2>1. ASSUME NEW i \in DOMAIN file, i < a PROVE file[i].pos < file[a].pos
    <3>1. EntryEnd(i) <= file[a].pos
      BY <2>1, <1>c
    <3> QED
      BY <3>1, <1>b
  <2>2. ASSUME NEW i \in DOMAIN file, i > b PROVE EntryEnd(b) <= file[i].pos
    BY <2>2, <1>4, <1>1, <1>c
  <2>3. ASSUME NEW i \in DOMAIN file, a <= i, i <= b
        PROVE  file[a].pos <= file[i].pos /\ file[i].pos < EntryEnd(b)
    <3>1. file[a].pos <= file[i].pos
      <4>1. CASE a = i
        BY <4>1, <1>b
      <4>2. CASE a < i
        <5>1. EntryEnd(a) <= file[i].pos
          BY <4>2, <2>3, <1>c
        <5> QED
          BY <5>1, <1>b
      <4> QED
        BY <4>1, <4>2, <2>3, <1>1
    <3>2. file[i].pos < EntryEnd(b)
      <4>1. CASE i = b
        BY <4>1, <1>b
      <4>2. CASE i < b
        <5>1. EntryEnd(i) <= file[b].pos
          BY <4>2, <2>3, <1>c
        <5> QED
          BY <5>1, <1>b
      <4> QED
        BY <4>1, <4>2, <2>3, <1>1
    <3> QED
      BY <3>1, <3>2
  <2>4. \A i \in DOMAIN file :
            BlockBegin(k) <= file[i].pos /\ file[i].pos < BlockEnd(k) <=> a <= i /\ i <= b
    <3> TAKE i \in DOMAIN file
    <3>1. file[i].pos \in Nat /\ file[a].pos \in Nat /\ EntryEnd(b) \in Nat
      BY <1>b
    <3>2. i \in Nat /\ a \in Nat /\ b \in Nat
      BY <1>1
    <3>3. CASE i < a
      BY <3>1, <3>2, <3>3, <2>1, <1>2, <1>4
    <3>4. CASE i > b
      BY <3>1, <3>2, <3>4, <2>2, <1>2, <1>4
    <3>5. CASE a <= i /\ i <= b
      BY <3>1, <3>5, <2>3, <1>2, <1>4
    <3> QED
      BY <3>2, <3>3, <3>4, <3>5
  <2>5. a .. b = {i \in DOMAIN file : a <= i /\ i <= b}
    BY <1>1
  <2> QED
    BY <2>4, <2>5 DEF Block
<1>7. ASSUME NEW i \in DOMAIN file, file[i].key = k PROVE i \in a .. b
  <2>1. i \in Nat /\ a \in Nat /\ b \in Nat
    BY <1>1
  <2>2. ~(i > b)
    BY <1>4, <1>7, <1>1
  <2>3. ~(i < a)
    <3>1. Indexed(a) /\ file[a].key <= k /\ file[a].key \in Int
      BY <1>2, <1>b
    <3>2. i < a => file[i].key < file[a].key
      BY <1>c
    <3> QED
      BY <3>1, <3>2, <1>1, <1>7
  <2> QED
    BY <2>1, <2>2, <2>3
<1> QED
  BY <1>2, <1>4, <1>5, <1>6, <1>7

LEMMA SeekFromInvariant == IndexInv => SeekFindsEntry
<1> SUFFICES ASSUME IndexInv, Built, NEW k \in Keys
             PROVE  Seek(k) = IF k \in DOMAIN table THEN table[k] ELSE Absent
  BY DEF SeekFindsEntry
<1> USE DEF IndexInv
<1>1. Len(file) \in Nat /\ DOMAIN file = 1 .. Len(file) /\ done = Len(file) /\ k \in Int
  BY IndexAssumption DEF IndexTypeOK, PositionInv, Built
<1>2. \A i \in DOMAIN file : file[i].key \in DOMAIN table /\ file[i].value = table[file[i].key]
  BY DEF FileInv
<1>3. CASE k \in DOMAIN table
  <2>1. PICK j \in DOMAIN file : file[j].key = k
    BY <1>3 DEF FileInv, KeysToWrite, Built
  <2>2. HasBlock(k)
    <3>1. Indexed(1) /\ Indexed(Len(file)) /\ 1 \in DOMAIN file /\ Len(file) \in DOMAIN file
      BY <1>1, <2>1 DEF IndexedInv, FileInv, Built
    <3>2. file[1].key <= k
      <4>1. file[1].key \in Int /\ (j = 1 \/ 1 < j)
        BY <3>1, <1>1, FileEntryType
      <4> QED
        BY <4>1, <3>1, <2>1, <1>1 DEF FileInv
    <3>3. file[1].key \in NotGreater(k)
      BY <3>1, <3>2 DEF NotGreater, Indexed
    <3>4. CASE j = Len(file)
      BY <3>1, <3>3, <3>4, <2>1 DEF HasBlock, Indexed
    <3>5. CASE j # Len(file)
      <4>1. file[Len(file)].key > k
        BY <3>1, <3>5, <2>1, <1>1, FileEntryType DEF FileInv
      <4> QED
        BY <4>1, <3>1, <3>3 DEF HasBlock, Greater, Indexed
    <3> QED
      BY <3>4, <3>5
  <2>3. j \in Block(k)
    BY <2>1, <2>2, BlockEntries
  <2>4. \A i \in Block(k) : file[i].key = k => i = j
    BY <2>1, <1>1, FileEntryType DEF FileInv, Block
  <2>5. (CHOOSE i \in Block(k) : file[i].key = k) = j
    BY <2>1, <2>3, <2>4
  <2> QED
    BY <2>1, <2>2, <2>3, <2>5, <1>2, <1>3 DEF Seek
<1>4. CASE k \notin DOMAIN table
  <2>1. \A i \in Block(k) : file[i].key # k
    BY <1>2, <1>4 DEF Block
  <2> QED
    BY <2>1, <1>4 DEF Seek
<1> QED
  BY <1>3, <1>4

\* seek finds what the table has for a key, whoever built the index.
THEOREM SeekIsLookup == IndexSpec => []SeekFindsEntry
BY IndexInvariance, SeekFromInvariant, PTL

LEMMA ShortFromInvariant == IndexInv => BlocksAreShort
<1> SUFFICES ASSUME IndexInv, Built, NEW k \in Keys, HasBlock(k)
             PROVE  \E i \in Block(k) :
                        LET rest == BlockEnd(k) - BlockBegin(k)
                                        - EntryBytes(file[i].key, file[i].value)
                        IN  rest = 0 \/ rest < blockSize
  BY DEF BlocksAreShort
<1> USE DEF IndexInv
<1>1. Len(file) \in Nat /\ DOMAIN file = 1 .. Len(file) /\ done = Len(file)
  BY DEF IndexTypeOK, PositionInv, Built
<1>2. PICK a \in DOMAIN file, b \in DOMAIN file :
          /\ a <= b /\ Indexed(a) /\ \A i \in a + 1 .. b : ~Indexed(i)
          /\ BlockBegin(k) = file[a].pos /\ BlockEnd(k) = EntryEnd(b)
          /\ Block(k) = a .. b
  BY BlockEntries
<1> DEFINE bytes(i) == EntryBytes(file[i].key, file[i].value)
<1>3. /\ a \in Block(k) /\ b \in Block(k)
      /\ file[a].pos \in Nat /\ file[b].pos \in Nat /\ bytes(a) \in Nat /\ bytes(b) \in Nat
      /\ EntryEnd(a) = file[a].pos + bytes(a) /\ EntryEnd(b) = file[b].pos + bytes(b)
  BY <1>1, <1>2, FileEntryType DEF EntryEnd
<1>4. blockSize \in Nat
  BY IndexAssumption DEF IndexTypeOK
<1>5. \/ a = b
      \/ file[b].pos - file[a].pos < blockSize
      \/ EntryEnd(b) - EntryEnd(a) < blockSize
  BY <1>1, <1>2 DEF BlockInv
<1> HIDE DEF bytes
<1>6. CASE a = b
  BY <1>2, <1>3, <1>6 DEF bytes
<1>7. CASE file[b].pos - file[a].pos < blockSize
  <2>1. BlockEnd(k) - BlockBegin(k) - bytes(b) = file[b].pos - file[a].pos
    BY <1>2, <1>3
  <2> QED
    BY <2>1, <1>7, <1>3 DEF bytes
<1>8. CASE EntryEnd(b) - EntryEnd(a) < blockSize
  <2>1. BlockEnd(k) - BlockBegin(k) - bytes(a) = EntryEnd(b) - EntryEnd(a)
    BY <1>2, <1>3
  <2> QED
    BY <2>1, <1>8, <1>3 DEF bytes
<1> QED
  BY <1>5, <1>6, <1>7, <1>8

\* A seek reads less than the block size and one entry of the file.
THEOREM SeekReadsLittle == IndexSpec => []BlocksAreShort
BY IndexInvariance, ShortFromInvariant, PTL

-----------------------------------------------------------------------------
\* The loop of mergeSSTable.

TurnsTo(old, new, m, f) ==
    f = [turns \in 0 .. m |-> IF turns = 0 THEN MergeBegin ELSE MergeTurn(old, new, f[turns - 1])]

LEMMA OneMoreTurn ==
    ASSUME NEW old, NEW new, NEW m \in Nat, NEW f, TurnsTo(old, new, m, f)
    PROVE  \E g : TurnsTo(old, new, m + 1, g)
<1> DEFINE g == [turns \in 0 .. m + 1 |-> IF turns = m + 1 THEN MergeTurn(old, new, f[m]) ELSE f[turns]]
<1> DEFINE h == [turns \in 0 .. m + 1 |-> IF turns = 0 THEN MergeBegin ELSE MergeTurn(old, new, g[turns - 1])]
<1>1. \A t \in 0 .. m : f[t] = IF t = 0 THEN MergeBegin ELSE MergeTurn(old, new, f[t - 1])
  BY DEF TurnsTo
<1>2. \A t \in 0 .. m : g[t] = f[t]
  OBVIOUS
<1>3. ASSUME NEW t \in 0 .. m + 1
      PROVE  g[t] = h[t]
  <2>1. CASE t = m + 1
    <3>1. t # 0 /\ t - 1 = m /\ m \in 0 .. m
      BY <2>1
    <3>2. g[t - 1] = f[m]
      BY <1>2, <3>1
    <3>3. h[t] = MergeTurn(old, new, f[m])
      BY <3>1, <3>2
    <3> QED
      BY <2>1, <3>3
  <2>2. CASE t = 0
    <3>1. h[t] = MergeBegin /\ t \in 0 .. m
      BY <2>2
    <3> QED
      BY <1>1, <1>2, <2>2, <3>1
  <2>3. CASE t # 0 /\ t # m + 1
    <3>1. t \in 0 .. m /\ t - 1 \in 0 .. m
      BY <2>3
    <3>2. g[t] = MergeTurn(old, new, f[t - 1]) /\ g[t - 1] = f[t - 1]
      BY <1>1, <1>2, <2>3, <3>1
    <3>3. h[t] = MergeTurn(old, new, g[t - 1])
      BY <2>3
    <3> QED
      BY <3>2, <3>3
  <2> QED
    BY <2>1, <2>2, <2>3
<1> HIDE DEF g
<1>4. DOMAIN g = 0 .. m + 1 /\ g = [t \in DOMAIN g |-> g[t]]
  BY DEF g
<1>5. g = h
  BY <1>3, <1>4
<1> QED
  BY <1>5 DEF TurnsTo

LEMMA TurnsExist ==
    ASSUME NEW old, NEW new, NEW m \in Nat
    PROVE  \E f : TurnsTo(old, new, m, f)
<1> DEFINE S == {n \in Nat : ~ \E f : TurnsTo(old, new, n, f)}
<1>1. ASSUME S # {} PROVE FALSE
  <2>1. PICK n \in S : \A y \in S : n <= y
    BY <1>1, MinInNat
  <2>2. n \in Nat /\ ~ \E f : TurnsTo(old, new, n, f)
    BY <2>1
  <2>3. CASE n = 0
    <3>1. PICK f : f = [turns \in 0 .. 0 |-> MergeBegin]
      OBVIOUS
    <3>2. \A t \in 0 .. 0 : t = 0
      OBVIOUS
    <3>3. f = [turns \in 0 .. 0 |->
                   IF turns = 0 THEN MergeBegin ELSE MergeTurn(old, new, f[turns - 1])]
      BY <3>1, <3>2
    <3> QED
      BY <2>2, <2>3, <3>3 DEF TurnsTo
  <2>4. CASE n # 0
    <3>1. PICK k \in Nat : n = k + 1
      <4>1. n - 1 \in Nat /\ n = (n - 1) + 1
        BY <2>2, <2>4
      <4> QED
        BY <4>1
    <3>2. k \notin S
      BY <2>1, <3>1
    <3>3. \E f : TurnsTo(old, new, k, f)
      BY <3>2
    <3>4. \E f : TurnsTo(old, new, k + 1, f)
      BY <3>3, OneMoreTurn
    <3> QED
      BY <2>2, <3>1, <3>4
  <2> QED
    BY <2>3, <2>4
<1> QED
  BY <1>1

LEMMA MergeEntriesAre ==
    ASSUME NEW old \in Seq(Records), NEW new \in Seq(Records)
    PROVE  \E f : TurnsTo(old, new, Len(old) + Len(new), f)
                  /\ MergeEntries(old, new) = f[Len(old) + Len(new)].merged
<1> DEFINE after == CHOOSE f : TurnsTo(old, new, Len(old) + Len(new), f)
<1>1. Len(old) + Len(new) \in Nat
  OBVIOUS
<1>2. TurnsTo(old, new, Len(old) + Len(new), after)
  BY <1>1, TurnsExist
<1>3. MergeEntries(old, new) = after[Len(old) + Len(new)].merged
  BY DEF MergeEntries, TurnsTo
<1> QED
  BY <1>2, <1>3

\* What an iterator has passed and what it has not: the entries of each table that
\* go into the result, whichever comes first.
FromOld(old, new, a, e) == old[a] = e /\ \A b \in DOMAIN new : new[b].key # e.key

FromNew(old, new, b, e) ==
    new[b] = e /\ (e.value # Tombstone \/ \A a \in DOMAIN old : old[a].key # e.key)

Emplaced(s, e) == \E i \in DOMAIN s : s[i] = e

Passed(old, new, s, e) ==
    \/ \E a \in 1 .. s.oldIt - 1 : FromOld(old, new, a, e)
    \/ \E b \in 1 .. s.newIt - 1 : FromNew(old, new, b, e)

MergedSoFar(old, new, s) ==
    /\ s.oldIt \in 1 .. Len(old) + 1 /\ s.newIt \in 1 .. Len(new) + 1
    /\ s.merged \in Seq(Records)
    /\ InOrder(s.merged)
    /\ \A a \in 1 .. s.oldIt - 1, b \in s.newIt .. Len(new) : old[a].key < new[b].key
    /\ \A a \in s.oldIt .. Len(old), b \in 1 .. s.newIt - 1 : new[b].key < old[a].key
    /\ \A e \in Records : Emplaced(s.merged, e) <=> Passed(old, new, s, e)

LEMMA EntryIsEmplaced ==
    ASSUME NEW s \in Seq(Records), InOrder(s), NEW e \in Records,
           \A i \in DOMAIN s : s[i].key < e.key
    PROVE  /\ Append(s, e) \in Seq(Records) /\ InOrder(Append(s, e))
           /\ \A x : Emplaced(Append(s, e), x) <=> Emplaced(s, x) \/ x = e
<1>1. PICK n \in Nat : n = Len(s) /\ DOMAIN s = 1 .. n
  OBVIOUS
<1>2. PICK z \in Seq(Records) : z = Append(s, e)
  <2>1. Append(s, e) \in Seq(Records)
    OBVIOUS
  <2> QED
    BY <2>1
<1>3. DOMAIN z = 1 .. n + 1 /\ (\A i \in 1 .. n : z[i] = s[i]) /\ z[n + 1] = e
  BY <1>1, <1>2
<1>4. \A i, j \in 1 .. n + 1 : i < j => z[i].key < z[j].key
  <2> SUFFICES ASSUME NEW i \in 1 .. n + 1, NEW j \in 1 .. n + 1, i < j
               PROVE  z[i].key < z[j].key
    OBVIOUS
  <2>1. i \in 1 .. n
    OBVIOUS
  <2>2. CASE j \in 1 .. n
    BY <1>1, <1>3, <2>1, <2>2 DEF InOrder
  <2>3. CASE j = n + 1
    BY <1>1, <1>3, <2>1, <2>3
  <2> QED
    BY <2>2, <2>3
<1>5. \A x : Emplaced(z, x) <=> Emplaced(s, x) \/ x = e
  <2> SUFFICES ASSUME NEW x
               PROVE  Emplaced(z, x) <=> Emplaced(s, x) \/ x = e
    OBVIOUS
  <2>1. ASSUME Emplaced(z, x) PROVE Emplaced(s, x) \/ x = e
    <3>1. PICK i \in 1 .. n + 1 : z[i] = x
      BY <1>3, <2>1 DEF Emplaced
    <3>2. CASE i = n + 1
      BY <1>3, <3>1, <3>2
    <3>3. CASE i \in 1 .. n
      BY <1>1, <1>3, <3>1, <3>3 DEF Emplaced
    <3> QED
      BY <3>2, <3>3
  <2>2. ASSUME Emplaced(s, x) PROVE Emplaced(z, x)
    <3>1. PICK i \in 1 .. n : s[i] = x
      BY <1>1, <2>2 DEF Emplaced
    <3>2. i \in 1 .. n + 1 /\ z[i] = x
      BY <1>3, <3>1
    <3> QED
      BY <1>3, <3>2 DEF Emplaced
  <2>3. ASSUME x = e PROVE Emplaced(z, x)
    <3>1. n + 1 \in 1 .. n + 1
      OBVIOUS
    <3> QED
      BY <1>3, <2>3, <3>1 DEF Emplaced
  <2> QED
    BY <2>1, <2>2, <2>3
<1> QED
  BY <1>2, <1>3, <1>4, <1>5 DEF InOrder

\* Everything emplaced is in front of what the iterators are at.
LEMMA MergedIsBehind ==
    ASSUME NEW old \in Seq(Records), NEW new \in Seq(Records), InOrder(old), InOrder(new),
           NEW s, MergedSoFar(old, new, s), NEW i \in DOMAIN s.merged
    PROVE  /\ \A a \in s.oldIt .. Len(old) : s.merged[i].key < old[a].key
           /\ \A b \in s.newIt .. Len(new) : s.merged[i].key < new[b].key
<1>1. PICK n \in Nat, m \in Nat : n = Len(old) /\ m = Len(new)
  OBVIOUS
<1>2. PICK p \in 1 .. n + 1, q \in 1 .. m + 1 : p = s.oldIt /\ q = s.newIt
  BY <1>1 DEF MergedSoFar
<1>3. PICK e \in Records : e = s.merged[i]
  BY DEF MergedSoFar
<1>4. Passed(old, new, s, e)
  BY <1>3 DEF MergedSoFar, Emplaced
<1>5. CASE \E a \in 1 .. p - 1 : FromOld(old, new, a, e)
  <2>1. PICK c \in 1 .. p - 1 : old[c] = e
    BY <1>5 DEF FromOld
  <2>2. \A a \in p .. n : old[c].key < old[a].key
    <3> SUFFICES ASSUME NEW a \in p .. n PROVE old[c].key < old[a].key
      OBVIOUS
    <3>1. c \in 1 .. n /\ a \in 1 .. n /\ c < a
      BY <1>2, <2>1
    <3> QED
      BY <1>1, <3>1 DEF InOrder
  <2>3. \A b \in q .. m : old[c].key < new[b].key
    BY <1>1, <1>2, <2>1 DEF MergedSoFar
  <2> QED
    BY <1>1, <1>2, <1>3, <2>1, <2>2, <2>3
<1>6. CASE \E b \in 1 .. q - 1 : FromNew(old, new, b, e)
  <2>1. PICK c \in 1 .. q - 1 : new[c] = e
    BY <1>6 DEF FromNew
  <2>2. \A b \in q .. m : new[c].key < new[b].key
    <3> SUFFICES ASSUME NEW b \in q .. m PROVE new[c].key < new[b].key
      OBVIOUS
    <3>1. c \in 1 .. m /\ b \in 1 .. m /\ c < b
      BY <1>2, <2>1
    <3> QED
      BY <1>1, <3>1 DEF InOrder
  <2>3. \A a \in p .. n : new[c].key < old[a].key
    BY <1>1, <1>2, <2>1 DEF MergedSoFar
  <2> QED
    BY <1>1, <1>2, <1>3, <2>1, <2>2, <2>3
<1> QED
  BY <1>2, <1>4, <1>5, <1>6 DEF Passed

LEMMA KeyIsNumber ==
    ASSUME NEW r \in Records
    PROVE  r.key \in Int
BY IndexAssumption DEF Records

LEMMA BeginIsMerged ==
    ASSUME NEW old \in Seq(Records), NEW new \in Seq(Records)
    PROVE  MergedSoFar(old, new, MergeBegin)
<1>1. 1 \in 1 .. Len(old) + 1 /\ 1 \in 1 .. Len(new) + 1 /\ 1 .. 1 - 1 = {}
  OBVIOUS
<1>2. <<>> \in Seq(Records) /\ DOMAIN <<>> = {}
  OBVIOUS
<1>3. InOrder(<<>>) /\ \A e : ~Emplaced(<<>>, e)
  BY <1>2 DEF InOrder, Emplaced
<1> QED
  BY <1>1, <1>2, <1>3 DEF MergedSoFar, MergeBegin, Passed

\* One iterator goes on: its entry is emplaced.
LEMMA OldTurn ==
    ASSUME NEW old \in Seq(Records), NEW new \in Seq(Records),
           InOrder(old), InOrder(new), NEW s, MergedSoFar(old, new, s),
           NEW a \in DOMAIN old, a = s.oldIt,
           \A b \in s.newIt .. Len(new) : old[a].key < new[b].key
    PROVE  MergedSoFar(old, new, [oldIt |-> a + 1, newIt |-> s.newIt,
                                  merged |-> Append(s.merged, old[a])])
<1>1. PICK n \in Nat, m \in Nat : n = Len(old) /\ m = Len(new)
  OBVIOUS
<1>2. PICK q \in 1 .. m + 1 : q = s.newIt
  BY <1>1 DEF MergedSoFar
<1>3. PICK o \in Records : o = old[a]
  OBVIOUS
<1>4. a \in 1 .. n /\ DOMAIN new = 1 .. m /\ DOMAIN old = 1 .. n
  BY <1>1
<1>5. \A i \in DOMAIN s.merged : s.merged[i].key < o.key
  BY <1>1, <1>3, <1>4, MergedIsBehind
<1>6. PICK z \in Seq(Records) : /\ z = Append(s.merged, o) /\ InOrder(z)
                                /\ \A x : Emplaced(z, x) <=> Emplaced(s.merged, x) \/ x = o
  <2>1. s.merged \in Seq(Records) /\ InOrder(s.merged)
    BY DEF MergedSoFar
  <2>2. /\ Append(s.merged, o) \in Seq(Records) /\ InOrder(Append(s.merged, o))
        /\ \A x : Emplaced(Append(s.merged, o), x) <=> Emplaced(s.merged, x) \/ x = o
    BY <1>5, <2>1, EntryIsEmplaced
  <2> QED
    BY <2>2
<1>7. \A b \in 1 .. m : new[b].key # o.key
  <2>1. o.key \in Int /\ \A b \in 1 .. m : new[b].key \in Int
    <3>1. \A b \in 1 .. m : new[b] \in Records
      BY <1>1
    <3> QED
      BY <3>1, KeyIsNumber
  <2>2. \A b \in 1 .. q - 1 : new[b].key < o.key
    <3>1. a \in s.oldIt .. Len(old)
      BY <1>1, <1>4
    <3> QED
      BY <1>2, <1>3, <3>1 DEF MergedSoFar
  <2>3. \A b \in q .. m : o.key < new[b].key
    BY <1>1, <1>2, <1>3
  <2>4. ASSUME NEW b \in 1 .. m
        PROVE  new[b].key # o.key
    <3>1. b \in 1 .. q - 1 \/ b \in q .. m
      OBVIOUS
    <3>2. new[b].key < o.key \/ o.key < new[b].key
      BY <2>2, <2>3, <3>1
    <3> QED
      BY <2>1, <3>2
  <2> QED
    BY <2>4
<1> DEFINE t == [oldIt |-> a + 1, newIt |-> q, merged |-> z]
<1>8. t.oldIt = a + 1 /\ t.newIt = q /\ t.merged = z
  OBVIOUS
<1> HIDE DEF t
<1>9. \A x \in 1 .. a, b \in q .. m : old[x].key < new[b].key
  <2> SUFFICES ASSUME NEW x \in 1 .. a, NEW b \in q .. m PROVE old[x].key < new[b].key
    OBVIOUS
  <2>1. x = a \/ x \in 1 .. a - 1
    OBVIOUS
  <2> QED
    BY <1>1, <1>2, <2>1 DEF MergedSoFar
<1>10. \A x \in a + 1 .. n, b \in 1 .. q - 1 : new[b].key < old[x].key
  <2> SUFFICES ASSUME NEW x \in a + 1 .. n, NEW b \in 1 .. q - 1 PROVE new[b].key < old[x].key
    OBVIOUS
  <2>1. x \in a .. n
    OBVIOUS
  <2> QED
    BY <1>1, <1>2, <2>1 DEF MergedSoFar
<1>11. \A e : Passed(old, new, t, e) <=> Passed(old, new, s, e) \/ e = o
  <2> SUFFICES ASSUME NEW e PROVE Passed(old, new, t, e) <=> Passed(old, new, s, e) \/ e = o
    OBVIOUS
  <2>1. FromOld(old, new, a, o)
    BY <1>3, <1>4, <1>7 DEF FromOld
  <2>2. \A x : FromOld(old, new, a, x) => x = o
    BY <1>3 DEF FromOld
  <2>3. 1 .. (a + 1) - 1 = (1 .. a - 1) \cup {a}
    BY <1>4
  <2> QED
    BY <1>2, <1>8, <2>1, <2>2, <2>3 DEF Passed
<1>12. MergedSoFar(old, new, t)
  <2>1. a + 1 \in 1 .. n + 1 /\ (a + 1) - 1 = a
    BY <1>4
  <2>2. \A e \in Records : Emplaced(z, e) <=> Passed(old, new, t, e)
    BY <1>6, <1>11 DEF MergedSoFar
  <2> QED
    BY <1>1, <1>6, <1>8, <1>9, <1>10, <2>1, <2>2 DEF MergedSoFar
<1> QED
  BY <1>2, <1>3, <1>6, <1>12 DEF t

LEMMA NewTurn ==
    ASSUME NEW old \in Seq(Records), NEW new \in Seq(Records),
           InOrder(old), InOrder(new), NEW s, MergedSoFar(old, new, s),
           NEW b \in DOMAIN new, b = s.newIt,
           \A a \in s.oldIt .. Len(old) : new[b].key < old[a].key
    PROVE  MergedSoFar(old, new, [oldIt |-> s.oldIt, newIt |-> b + 1,
                                  merged |-> Append(s.merged, new[b])])
<1>1. PICK n \in Nat, m \in Nat : n = Len(old) /\ m = Len(new)
  OBVIOUS
<1>2. PICK p \in 1 .. n + 1 : p = s.oldIt
  BY <1>1 DEF MergedSoFar
<1>3. PICK o \in Records : o = new[b]
  OBVIOUS
<1>4. b \in 1 .. m /\ DOMAIN new = 1 .. m /\ DOMAIN old = 1 .. n
  BY <1>1
<1>5. \A i \in DOMAIN s.merged : s.merged[i].key < o.key
  BY <1>1, <1>3, <1>4, MergedIsBehind
<1>6. PICK z \in Seq(Records) : /\ z = Append(s.merged, o) /\ InOrder(z)
                                /\ \A x : Emplaced(z, x) <=> Emplaced(s.merged, x) \/ x = o
  <2>1. s.merged \in Seq(Records) /\ InOrder(s.merged)
    BY DEF MergedSoFar
  <2>2. /\ Append(s.merged, o) \in Seq(Records) /\ InOrder(Append(s.merged, o))
        /\ \A x : Emplaced(Append(s.merged, o), x) <=> Emplaced(s.merged, x) \/ x = o
    BY <1>5, <2>1, EntryIsEmplaced
  <2> QED
    BY <2>2
<1>7. \A a \in 1 .. n : old[a].key # o.key
  <2>1. o.key \in Int /\ \A a \in 1 .. n : old[a].key \in Int
    <3>1. \A a \in 1 .. n : old[a] \in Records
      BY <1>1
    <3> QED
      BY <3>1, KeyIsNumber
  <2>2. \A a \in 1 .. p - 1 : old[a].key < o.key
    <3>1. b \in s.newIt .. Len(new)
      BY <1>1, <1>4
    <3> QED
      BY <1>2, <1>3, <3>1 DEF MergedSoFar
  <2>3. \A a \in p .. n : o.key < old[a].key
    BY <1>1, <1>2, <1>3
  <2>4. ASSUME NEW a \in 1 .. n
        PROVE  old[a].key # o.key
    <3>1. a \in 1 .. p - 1 \/ a \in p .. n
      OBVIOUS
    <3>2. old[a].key < o.key \/ o.key < old[a].key
      BY <2>2, <2>3, <3>1
    <3> QED
      BY <2>1, <3>2
  <2> QED
    BY <2>4
<1> DEFINE t == [oldIt |-> p, newIt |-> b + 1, merged |-> z]
<1>8. t.oldIt = p /\ t.newIt = b + 1 /\ t.merged = z
  OBVIOUS
<1> HIDE DEF t
<1>9. \A a \in p .. n, x \in 1 .. b : new[x].key < old[a].key
  <2> SUFFICES ASSUME NEW a \in p .. n, NEW x \in 1 .. b PROVE new[x].key < old[a].key
    OBVIOUS
  <2>1. x = b \/ x \in 1 .. b - 1
    OBVIOUS
  <2> QED
    BY <1>1, <1>2, <2>1 DEF MergedSoFar
<1>10. \A a \in 1 .. p - 1, x \in b + 1 .. m : old[a].key < new[x].key
  <2> SUFFICES ASSUME NEW a \in 1 .. p - 1, NEW x \in b + 1 .. m PROVE old[a].key < new[x].key
    OBVIOUS
  <2>1. x \in b .. m
    OBVIOUS
  <2> QED
    BY <1>1, <1>2, <2>1 DEF MergedSoFar
<1>11. \A e : Passed(old, new, t, e) <=> Passed(old, new, s, e) \/ e = o
  <2> SUFFICES ASSUME NEW e PROVE Passed(old, new, t, e) <=> Passed(old, new, s, e) \/ e = o
    OBVIOUS
  <2>1. FromNew(old, new, b, o)
    BY <1>3, <1>4, <1>7 DEF FromNew
  <2>2. \A x : FromNew(old, new, b, x) => x = o
    BY <1>3 DEF FromNew
  <2>3. 1 .. (b + 1) - 1 = (1 .. b - 1) \cup {b}
    BY <1>4
  <2> QED
    BY <1>2, <1>8, <2>1, <2>2, <2>3 DEF Passed
<1>12. MergedSoFar(old, new, t)
  <2>1. b + 1 \in 1 .. m + 1 /\ (b + 1) - 1 = b
    BY <1>4
  <2>2. \A e \in Records : Emplaced(z, e) <=> Passed(old, new, t, e)
    BY <1>6, <1>11 DEF MergedSoFar
  <2> QED
    BY <1>1, <1>6, <1>8, <1>9, <1>10, <2>1, <2>2 DEF MergedSoFar
<1> QED
  BY <1>2, <1>3, <1>6, <1>12 DEF t

\* Both iterators go on, from the same key: the newer entry is emplaced, or a
\* TOMBSTONE dropped.
LEMMA BothTurn ==
    ASSUME NEW old \in Seq(Records), NEW new \in Seq(Records),
           InOrder(old), InOrder(new), NEW s, MergedSoFar(old, new, s),
           NEW a \in DOMAIN old, a = s.oldIt, NEW b \in DOMAIN new, b = s.newIt,
           old[a].key = new[b].key
    PROVE  MergedSoFar(old, new,
               [oldIt |-> a + 1, newIt |-> b + 1,
                merged |-> IF new[b].value = Tombstone THEN s.merged ELSE Append(s.merged, new[b])])
<1>1. PICK n \in Nat, m \in Nat : n = Len(old) /\ m = Len(new)
  OBVIOUS
<1>2. a \in 1 .. n /\ b \in 1 .. m /\ DOMAIN new = 1 .. m /\ DOMAIN old = 1 .. n
  BY <1>1
<1>3. PICK o \in Records : o = new[b]
  OBVIOUS
<1>4. \A i \in DOMAIN s.merged : s.merged[i].key < o.key
  BY <1>1, <1>2, <1>3, MergedIsBehind
<1>5. PICK y \in Seq(Records) : /\ y = Append(s.merged, o) /\ InOrder(y)
                                /\ \A x : Emplaced(y, x) <=> Emplaced(s.merged, x) \/ x = o
  <2>1. s.merged \in Seq(Records) /\ InOrder(s.merged)
    BY DEF MergedSoFar
  <2>2. /\ Append(s.merged, o) \in Seq(Records) /\ InOrder(Append(s.merged, o))
        /\ \A x : Emplaced(Append(s.merged, o), x) <=> Emplaced(s.merged, x) \/ x = o
    BY <1>4, <2>1, EntryIsEmplaced
  <2> QED
    BY <2>2
<1>6. PICK z \in Seq(Records) :
          /\ z = (IF o.value = Tombstone THEN s.merged ELSE y)
          /\ InOrder(z)
          /\ \A x : Emplaced(z, x) <=> Emplaced(s.merged, x) \/ (x = o /\ o.value # Tombstone)
  <2>1. CASE o.value = Tombstone
    <3>1. s.merged \in Seq(Records) /\ InOrder(s.merged)
      BY DEF MergedSoFar
    <3> QED
      BY <2>1, <3>1
  <2>2. CASE o.value # Tombstone
    BY <1>5, <2>2
  <2> QED
    BY <2>1, <2>2
<1> DEFINE t == [oldIt |-> a + 1, newIt |-> b + 1, merged |-> z]
<1>7. t.oldIt = a + 1 /\ t.newIt = b + 1 /\ t.merged = z
  OBVIOUS
<1> HIDE DEF t
<1>8. \A i \in 1 .. n, j \in 1 .. n : i < j => old[i].key < old[j].key
  BY <1>2 DEF InOrder
<1>9. \A i \in 1 .. m, j \in 1 .. m : i < j => new[i].key < new[j].key
  BY <1>2 DEF InOrder
<1>10. \A x \in 1 .. a, w \in b + 1 .. m : old[x].key < new[w].key
  <2> SUFFICES ASSUME NEW x \in 1 .. a, NEW w \in b + 1 .. m PROVE old[x].key < new[w].key
    OBVIOUS
  <2>1. CASE x = a
    <3>1. b \in 1 .. m /\ w \in 1 .. m /\ b < w
      BY <1>2
    <3>2. new[b].key < new[w].key
      BY <1>9, <3>1
    <3> QED
      BY <2>1, <3>2
  <2>2. CASE x # a
    <3>1. x \in 1 .. a - 1 /\ w \in b .. m
      BY <1>2, <2>2
    <3> QED
      BY <1>1, <3>1 DEF MergedSoFar
  <2> QED
    BY <2>1, <2>2
<1>11. \A x \in a + 1 .. n, w \in 1 .. b : new[w].key < old[x].key
  <2> SUFFICES ASSUME NEW x \in a + 1 .. n, NEW w \in 1 .. b PROVE new[w].key < old[x].key
    OBVIOUS
  <2>1. CASE w = b
    <3>1. a \in 1 .. n /\ x \in 1 .. n /\ a < x
      BY <1>2
    <3>2. old[a].key < old[x].key
      BY <1>8, <3>1
    <3> QED
      BY <2>1, <3>2
  <2>2. CASE w # b
    <3>1. w \in 1 .. b - 1 /\ x \in a .. n
      BY <1>2, <2>2
    <3> QED
      BY <1>1, <3>1 DEF MergedSoFar
  <2> QED
    BY <2>1, <2>2
<1>12. \A e : Passed(old, new, t, e) <=> Passed(old, new, s, e) \/ (e = o /\ o.value # Tombstone)
  <2> SUFFICES ASSUME NEW e
               PROVE  Passed(old, new, t, e) <=>
                          Passed(old, new, s, e) \/ (e = o /\ o.value # Tombstone)
    OBVIOUS
  <2>1. ~FromOld(old, new, a, e)
    BY DEF FromOld
  <2>2. FromNew(old, new, b, e) <=> e = o /\ o.value # Tombstone
    BY <1>3 DEF FromNew
  <2>3. 1 .. (a + 1) - 1 = (1 .. a - 1) \cup {a} /\ 1 .. (b + 1) - 1 = (1 .. b - 1) \cup {b}
    BY <1>2
  <2> QED
    BY <1>7, <2>1, <2>2, <2>3 DEF Passed
<1>13. MergedSoFar(old, new, t)
  <2>1. /\ a + 1 \in 1 .. n + 1 /\ (a + 1) - 1 = a
        /\ b + 1 \in 1 .. m + 1 /\ (b + 1) - 1 = b
    <3>1. a + 1 \in 1 .. n + 1 /\ (a + 1) - 1 = a
      BY <1>2
    <3>2. b + 1 \in 1 .. m + 1 /\ (b + 1) - 1 = b
      BY <1>2
    <3> QED
      BY <3>1, <3>2
  <2>2. \A e \in Records : Emplaced(z, e) <=> Passed(old, new, t, e)
    BY <1>6, <1>12 DEF MergedSoFar
  <2> QED
    BY <1>1, <1>6, <1>7, <1>10, <1>11, <2>1, <2>2 DEF MergedSoFar
<1> QED
  BY <1>3, <1>5, <1>6, <1>13 DEF t

AtEnds(old, new, s) == s.oldIt = Len(old) + 1 /\ s.newIt = Len(new) + 1

LEMMA TurnKeepsMerged ==
    ASSUME NEW old \in Seq(Records), NEW new \in Seq(Records), InOrder(old), InOrder(new),
           NEW s, MergedSoFar(old, new, s), NEW t, t = MergeTurn(old, new, s)
    PROVE  /\ MergedSoFar(old, new, t)
           /\ AtEnds(old, new, t) \/ t.oldIt + t.newIt > s.oldIt + s.newIt
<1>1. PICK n \in Nat, m \in Nat : n = Len(old) /\ m = Len(new)
  OBVIOUS
<1>2. PICK p \in 1 .. n + 1, q \in 1 .. m + 1 : p = s.oldIt /\ q = s.newIt
  BY <1>1 DEF MergedSoFar
<1>3. DOMAIN old = 1 .. n /\ DOMAIN new = 1 .. m
  BY <1>1
<1>4. p <= n => old[p].key \in Int
  <2>1. p <= n => old[p] \in Records
    BY <1>3
  <2> QED
    BY <2>1, KeyIsNumber
<1>5. q <= m => new[q].key \in Int
  <2>1. q <= m => new[q] \in Records
    BY <1>3
  <2> QED
    BY <2>1, KeyIsNumber
<1>6. CASE p > n /\ q > m
  <2>1. t = s
    BY <1>1, <1>2, <1>6 DEF MergeTurn
  <2>2. p = n + 1 /\ q = m + 1
    BY <1>6
  <2> QED
    BY <1>1, <1>2, <2>1, <2>2 DEF AtEnds
<1>7. CASE p <= n /\ (q <= m => old[p].key < new[q].key)
  <2>1. t = [oldIt |-> p + 1, newIt |-> s.newIt, merged |-> Append(s.merged, old[p])]
    BY <1>1, <1>2, <1>7 DEF MergeTurn
  <2>2. ASSUME NEW b \in q .. m
        PROVE  old[p].key < new[b].key
    <3>1. q <= m /\ old[p].key < new[q].key
      BY <1>7
    <3>2. b = q \/ new[q].key < new[b].key
      <4>1. q \in 1 .. m /\ b \in 1 .. m /\ (b = q \/ q < b)
        BY <3>1
      <4> QED
        BY <1>3, <4>1 DEF InOrder
    <3>3. new[b].key \in Int
      <4>1. new[b] \in Records
        BY <1>3
      <4> QED
        BY <4>1, KeyIsNumber
    <3> QED
      BY <1>4, <1>5, <1>7, <3>1, <3>2, <3>3
  <2>3. MergedSoFar(old, new, t)
    <3>1. p \in DOMAIN old
      BY <1>3, <1>7
    <3>2. \A b \in s.newIt .. Len(new) : old[p].key < new[b].key
      BY <1>1, <1>2, <2>2
    <3> QED
      BY <1>2, <2>1, <3>1, <3>2, OldTurn
  <2>4. t.oldIt + t.newIt > p + q
    BY <1>2, <2>1
  <2> QED
    BY <1>2, <2>3, <2>4
<1>8. CASE q <= m /\ (p <= n => new[q].key < old[p].key)
  <2>1. t = [oldIt |-> s.oldIt, newIt |-> q + 1, merged |-> Append(s.merged, new[q])]
    <3>1. ~(p <= n /\ (q <= m => old[p].key < new[q].key))
      BY <1>4, <1>5, <1>8
    <3> QED
      BY <1>1, <1>2, <1>8, <3>1 DEF MergeTurn
  <2>2. ASSUME NEW a \in p .. n
        PROVE  new[q].key < old[a].key
    <3>1. p <= n /\ new[q].key < old[p].key
      BY <1>8
    <3>2. a = p \/ old[p].key < old[a].key
      <4>1. p \in 1 .. n /\ a \in 1 .. n /\ (a = p \/ p < a)
        BY <3>1
      <4> QED
        BY <1>3, <4>1 DEF InOrder
    <3>3. old[a].key \in Int
      <4>1. old[a] \in Records
        BY <1>3
      <4> QED
        BY <4>1, KeyIsNumber
    <3> QED
      BY <1>4, <1>5, <1>8, <3>1, <3>2, <3>3
  <2>3. MergedSoFar(old, new, t)
    <3>1. q \in DOMAIN new
      BY <1>3, <1>8
    <3>2. \A a \in s.oldIt .. Len(old) : new[q].key < old[a].key
      BY <1>1, <1>2, <2>2
    <3> QED
      BY <1>2, <2>1, <3>1, <3>2, NewTurn
  <2>4. t.oldIt + t.newIt > p + q
    BY <1>2, <2>1
  <2> QED
    BY <1>2, <2>3, <2>4
<1>9. CASE p <= n /\ q <= m /\ old[p].key = new[q].key
  <2>1. t = [oldIt |-> p + 1, newIt |-> q + 1,
             merged |-> IF new[q].value = Tombstone THEN s.merged ELSE Append(s.merged, new[q])]
    <3>1. ~(old[p].key < new[q].key) /\ ~(new[q].key < old[p].key)
      BY <1>4, <1>5, <1>9
    <3> QED
      BY <1>1, <1>2, <1>9, <3>1 DEF MergeTurn
  <2>2. MergedSoFar(old, new, t)
    <3>1. p \in DOMAIN old /\ q \in DOMAIN new
      BY <1>3, <1>9
    <3> QED
      BY <1>2, <1>9, <2>1, <3>1, BothTurn
  <2>3. t.oldIt + t.newIt > p + q
    BY <2>1
  <2> QED
    BY <1>2, <2>2, <2>3
<1> QED
  BY <1>4, <1>5, <1>6, <1>7, <1>8, <1>9

LEMMA MergedSum ==
    ASSUME NEW old \in Seq(Records), NEW new \in Seq(Records), NEW s, MergedSoFar(old, new, s)
    PROVE  s.oldIt + s.newIt \in Int
<1>1. s.oldIt \in 1 .. Len(old) + 1 /\ s.newIt \in 1 .. Len(new) + 1
  BY DEF MergedSoFar
<1> QED
  BY <1>1

\* After that many turns the iterators have gone that far.
LEMMA TurnsAreMerged ==
    ASSUME NEW old \in Seq(Records), NEW new \in Seq(Records), InOrder(old), InOrder(new),
           NEW m \in Nat, NEW f, TurnsTo(old, new, m, f)
    PROVE  /\ MergedSoFar(old, new, f[m])
           /\ AtEnds(old, new, f[m]) \/ f[m].oldIt + f[m].newIt >= m + 2
<1> DEFINE Good(n) == /\ MergedSoFar(old, new, f[n])
                      /\ AtEnds(old, new, f[n]) \/ f[n].oldIt + f[n].newIt >= n + 2
           S == {n \in 0 .. m : ~Good(n)}
<1>1. \A t \in 0 .. m : f[t] = IF t = 0 THEN MergeBegin ELSE MergeTurn(old, new, f[t - 1])
  BY DEF TurnsTo
<1>2. ASSUME S # {} PROVE FALSE
  <2>1. S \subseteq Nat
    OBVIOUS
  <2>2. PICK n \in S : \A y \in S : n <= y
    BY <1>2, <2>1, MinInNat
  <2>3. n \in 0 .. m /\ ~Good(n)
    BY <2>2
  <2>4. CASE n = 0
    <3>1. f[n] = MergeBegin
      BY <1>1, <2>3, <2>4
    <3>2. f[n].oldIt + f[n].newIt >= n + 2
      BY <2>4, <3>1 DEF MergeBegin
    <3> QED
      BY <2>3, <3>1, <3>2, BeginIsMerged
  <2>5. CASE n # 0
    <3>1. PICK k \in Nat : n = k + 1 /\ k \in 0 .. m /\ n - 1 = k
      <4>1. n - 1 \in Nat /\ n = (n - 1) + 1 /\ n - 1 \in 0 .. m
        BY <2>3, <2>5
      <4> QED
        BY <4>1
    <3>2. Good(k)
      <4>1. k \notin S
        BY <2>2, <3>1
      <4> QED
        BY <3>1, <4>1
    <3>3. f[n] = MergeTurn(old, new, f[k])
      BY <1>1, <2>3, <2>5, <3>1
    <3>4. /\ MergedSoFar(old, new, f[n])
          /\ AtEnds(old, new, f[n]) \/ f[n].oldIt + f[n].newIt > f[k].oldIt + f[k].newIt
      BY <3>2, <3>3, TurnKeepsMerged
    <3>5. CASE AtEnds(old, new, f[k])
      <4>1. f[n] = f[k]
        <5>1. ~(f[k].oldIt <= Len(old)) /\ ~(f[k].newIt <= Len(new))
          BY <3>5 DEF AtEnds
        <5> QED
          BY <3>3, <5>1 DEF MergeTurn
      <4> QED
        BY <2>3, <3>4, <3>5, <4>1
    <3>6. CASE f[k].oldIt + f[k].newIt >= k + 2
      <4>1. PICK x \in Int : x = f[k].oldIt + f[k].newIt
        BY <3>2, MergedSum
      <4>2. PICK y \in Int : y = f[n].oldIt + f[n].newIt
        BY <3>4, MergedSum
      <4>3. y > x /\ x >= k + 2 => y >= n + 2
        BY <3>1
      <4>4. AtEnds(old, new, f[n]) \/ f[n].oldIt + f[n].newIt >= n + 2
        BY <3>4, <3>6, <4>1, <4>2, <4>3
      <4> QED
        BY <2>3, <3>4, <4>4
    <3> QED
      BY <3>2, <3>5, <3>6
  <2> QED
    BY <2>4, <2>5
<1>3. m \notin S
  BY <1>2
<1> QED
  BY <1>3

LEMMA TableEntries ==
    ASSUME NEW s \in Seq(Records), InOrder(s)
    PROVE  /\ DOMAIN TableOf(s) = {s[i].key : i \in DOMAIN s}
           /\ \A i \in DOMAIN s : TableOf(s)[s[i].key] = s[i].value
<1>1. DOMAIN TableOf(s) = {s[i].key : i \in DOMAIN s}
  BY DEF TableOf
<1>2. ASSUME NEW i \in DOMAIN s
      PROVE  TableOf(s)[s[i].key] = s[i].value
  <2>1. PICK j \in DOMAIN s : /\ j = CHOOSE x \in DOMAIN s : s[x].key = s[i].key
                              /\ s[j].key = s[i].key
    OBVIOUS
  <2>2. TableOf(s)[s[i].key] = s[j].value
    BY <2>1 DEF TableOf
  <2>3. i = j
    <3>1. i \in Nat /\ j \in Nat
      OBVIOUS
    <3>2. s[i].key \in Int /\ s[j].key \in Int
      <4>1. s[i] \in Records /\ s[j] \in Records
        OBVIOUS
      <4> QED
        BY <4>1, KeyIsNumber
    <3>3. ~(i < j) /\ ~(j < i)
      BY <2>1, <3>2 DEF InOrder
    <3> QED
      BY <3>1, <3>3
  <2> QED
    BY <2>2, <2>3
<1> QED
  BY <1>1, <1>2

\* The loop of mergeSSTable, with an iterator in each of two tables of any size,
\* emplaces in the order of their keys the entries of the table MergeSSTable.
THEOREM MergeLoopIsMerge ==
    ASSUME NEW old \in Seq(Records), NEW new \in Seq(Records), InOrder(old), InOrder(new)
    PROVE  /\ InOrder(MergeEntries(old, new))
           /\ TableOf(MergeEntries(old, new)) = MergeSSTable(TableOf(old), TableOf(new))
<1>1. PICK n \in Nat, m \in Nat : n = Len(old) /\ m = Len(new)
  OBVIOUS
<1>2. PICK f : TurnsTo(old, new, n + m, f) /\ MergeEntries(old, new) = f[n + m].merged
  BY <1>1, MergeEntriesAre
<1>3. PICK s : s = f[n + m]
  OBVIOUS
<1>4. MergedSoFar(old, new, s) /\ (AtEnds(old, new, s) \/ s.oldIt + s.newIt >= n + m + 2)
  BY <1>2, <1>3, TurnsAreMerged
<1>5. s.oldIt = n + 1 /\ s.newIt = m + 1
  <2>1. s.oldIt \in 1 .. n + 1 /\ s.newIt \in 1 .. m + 1
    BY <1>1, <1>4 DEF MergedSoFar
  <2> QED
    BY <1>1, <1>4, <2>1 DEF AtEnds
<1>6. PICK z \in Seq(Records) : z = s.merged /\ InOrder(z)
  BY <1>4 DEF MergedSoFar
<1>7. DOMAIN old = 1 .. n /\ DOMAIN new = 1 .. m /\ (n + 1) - 1 = n /\ (m + 1) - 1 = m
  BY <1>1
<1>8. \A e \in Records : Emplaced(z, e) <=> \/ \E a \in DOMAIN old : FromOld(old, new, a, e)
                                            \/ \E b \in DOMAIN new : FromNew(old, new, b, e)
  BY <1>4, <1>5, <1>6, <1>7 DEF MergedSoFar, Passed
<1> DEFINE O == TableOf(old)
           N == TableOf(new)
           M == MergeSSTable(O, N)
           Z == TableOf(z)
<1>9. /\ DOMAIN O = {old[i].key : i \in DOMAIN old}
      /\ \A i \in DOMAIN old : O[old[i].key] = old[i].value
  BY TableEntries
<1>10. /\ DOMAIN N = {new[i].key : i \in DOMAIN new}
       /\ \A i \in DOMAIN new : N[new[i].key] = new[i].value
  BY TableEntries
<1>11. /\ DOMAIN Z = {z[i].key : i \in DOMAIN z}
       /\ \A i \in DOMAIN z : Z[z[i].key] = z[i].value
  BY <1>6, TableEntries
<1>12. /\ DOMAIN M = {k \in DOMAIN O \cup DOMAIN N :
                          k \in DOMAIN O /\ k \in DOMAIN N => N[k] # Tombstone}
       /\ \A k \in DOMAIN M : M[k] = IF k \in DOMAIN N THEN N[k] ELSE O[k]
       /\ M = [k \in DOMAIN M |-> M[k]]
  BY DEF MergeSSTable
<1>13. Z = [k \in DOMAIN Z |-> Z[k]]
  BY DEF TableOf
<1> HIDE DEF O, N, M, Z
<1>14. ASSUME NEW i \in DOMAIN z
       PROVE  z[i].key \in DOMAIN M /\ M[z[i].key] = z[i].value
  <2>1. PICK e \in Records : e = z[i]
    OBVIOUS
  <2>2. Emplaced(z, e)
    BY <2>1 DEF Emplaced
  <2>3. ASSUME NEW a \in DOMAIN old, FromOld(old, new, a, e)
        PROVE  e.key \in DOMAIN M /\ M[e.key] = e.value
    <3>1. old[a] = e /\ e.key \notin DOMAIN N
      BY <1>10, <2>3 DEF FromOld
    <3>2. e.key \in DOMAIN O /\ O[e.key] = e.value
      BY <1>9, <3>1
    <3> QED
      BY <1>12, <3>1, <3>2
  <2>4. ASSUME NEW b \in DOMAIN new, FromNew(old, new, b, e)
        PROVE  e.key \in DOMAIN M /\ M[e.key] = e.value
    <3>1. new[b] = e /\ (e.value # Tombstone \/ e.key \notin DOMAIN O)
      BY <1>9, <2>4 DEF FromNew
    <3>2. e.key \in DOMAIN N /\ N[e.key] = e.value
      BY <1>10, <3>1
    <3> QED
      BY <1>12, <3>1, <3>2
  <2> QED
    BY <1>8, <2>1, <2>2, <2>3, <2>4
<1>15. ASSUME NEW k \in DOMAIN M
       PROVE  k \in DOMAIN Z
  <2>1. CASE k \in DOMAIN N
    <3>1. PICK b \in DOMAIN new : new[b].key = k
      BY <1>10, <2>1
    <3>2. PICK e \in Records : e = new[b]
      OBVIOUS
    <3>3. e.value # Tombstone \/ k \notin DOMAIN O
      BY <1>10, <1>12, <2>1, <3>1, <3>2
    <3>4. FromNew(old, new, b, e)
      BY <1>9, <3>1, <3>2, <3>3 DEF FromNew
    <3>5. Emplaced(z, e)
      BY <1>8, <3>4
    <3> QED
      BY <1>11, <3>1, <3>2, <3>5 DEF Emplaced
  <2>2. CASE k \notin DOMAIN N
    <3>1. k \in DOMAIN O
      BY <1>12, <2>2
    <3>2. PICK a \in DOMAIN old : old[a].key = k
      BY <1>9, <3>1
    <3>3. PICK e \in Records : e = old[a]
      OBVIOUS
    <3>4. FromOld(old, new, a, e)
      BY <1>10, <2>2, <3>2, <3>3 DEF FromOld
    <3>5. Emplaced(z, e)
      BY <1>8, <3>4
    <3> QED
      BY <1>11, <3>2, <3>3, <3>5 DEF Emplaced
  <2> QED
    BY <2>1, <2>2
<1>16. DOMAIN Z = DOMAIN M
  BY <1>11, <1>14, <1>15
<1>17. \A k \in DOMAIN Z : Z[k] = M[k]
  BY <1>11, <1>14
<1>18. Z = M
  BY <1>12, <1>13, <1>16, <1>17
<1> QED
  BY <1>2, <1>3, <1>6, <1>18 DEF Z, M, O, N
=============================================================================

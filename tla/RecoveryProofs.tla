--------------------------- MODULE RecoveryProofs ---------------------------
(***************************************************************************)
(* Proofs about Recovery and Failures, for all values of their constants:  *)
(* what ProjectDbProofs, FilesProofs and RefinementProofs show of a        *)
(* database that starts empty holds of one that starts with what any       *)
(* stopped process has left.  An error changes nothing in it: a call that  *)
(* ends with an exception leaves nothing half done that a later call or    *)
(* process relies on.                                                      *)
(***************************************************************************)
EXTENDS Failures, RefinementProofs, FiniteSetTheorems

-----------------------------------------------------------------------------
\* The directory has finitely many SSTables.

LEMMA SSTableChange ==
    IndInv /\ [Next]_vars =>
        \/ sst' = sst
        \/ \E n, t : sst' = Put(sst, n, t)
        \/ \E n : sst' = Without(sst, n)
<1> SUFFICES ASSUME IndInv, [Next]_vars
             PROVE  \/ sst' = sst
                    \/ \E n, t : sst' = Put(sst, n, t)
                    \/ \E n : sst' = Without(sst, n)
  OBVIOUS
<1>1. CASE DeprecateNext
  BY <1>1 DEF DeprecateNext, DeprecateCompacted, DeprecateSSTable
<1>2. CASE ActivateNext \/ ActivateLast
  BY <1>2 DEF ActivateNext, ActivateLast, ActivateCompacted, ActivateMerged
<1>3. CASE FlushReady \/ CloseFlush
  BY <1>3 DEF FlushReady, CloseFlush, ActivateInProgress
<1>4. CASE PopMemTable \/ FirstMemTable \/ Write \/ Roll \/ CloseDone
  BY <1>4 DEF PopMemTable, FirstMemTable, Write, Roll, CloseDone
<1>5. CASE \E i \in DOMAIN flushFutures : FlushJob(i)
  BY <1>5 DEF FlushJob
<1>6. CASE CompactionStep
  BY <1>6 DEF CompactionStep, CompactionJob, CompactionBegin, CompactionMerge,
              CompactionFlushBegin, CompactionFlushFinish
<1>7. CASE UNCHANGED dirVars
  BY <1>7 DEF dirVars
<1> QED
  BY <1>1, <1>2, <1>3, <1>4, <1>5, <1>6, <1>7, DirFrame

LEMMA FiniteStep ==
    IndInv /\ [Next]_vars /\ IsFiniteSet(DOMAIN sst) => IsFiniteSet(DOMAIN sst)'
<1> SUFFICES ASSUME IndInv, [Next]_vars, IsFiniteSet(DOMAIN sst)
             PROVE  IsFiniteSet(DOMAIN sst')
  OBVIOUS
<1>1. CASE sst' = sst
  BY <1>1
<1>2. ASSUME NEW n, NEW t, sst' = Put(sst, n, t) PROVE IsFiniteSet(DOMAIN sst')
  BY <1>2, FS_AddElement DEF Put
<1>3. ASSUME NEW n, sst' = Without(sst, n) PROVE IsFiniteSet(DOMAIN sst')
  BY <1>3, FS_RemoveElement DEF Without
<1> QED
  BY <1>1, <1>2, <1>3, SSTableChange

-----------------------------------------------------------------------------
\* A process stops, and the next one begins with the directory.

LEMMA InitStep == RecoveryInit => RecoveryInv
<1> SUFFICES ASSUME RecoveryInit PROVE RecoveryInv
  OBVIOUS
<1>1. IndInv
  BY IndInvInit DEF RecoveryInit
<1>2. RecoveryTypeOK
  BY <1>1 DEF RecoveryInit, RecoveryTypeOK, IndInv
<1>3. IsFiniteSet(DOMAIN sst)
  BY FS_EmptySet DEF RecoveryInit, Init, EmptyDirectory
<1> QED
  BY <1>2, <1>3 DEF RecoveryInit, RecoveryInv, Init, IdleInv, MemTableQueueInit,
                    SSTableIndexQueueInit

LEMMA EndStep == RecoveryInv /\ ProcessEnds /\ stops' \in Nat => RecoveryInv'
<1> SUFFICES ASSUME RecoveryInv, ProcessEnds, stops' \in Nat PROVE RecoveryInv'
  OBVIOUS
<1>a. RecoveryTypeOK /\ IsFiniteSet(DOMAIN sst)
  BY DEF RecoveryInv
<1>b. /\ memTableQueue' = <<>> /\ flushFutures' = <<>> /\ indexQueue' = <<>>
      /\ sstCounter' \in {0, sstCounter} /\ txlCounter' \in {0, txlCounter}
      /\ compactionStartIndex' = 0 /\ compaction' = NoCompaction
      /\ pc' = "idle" /\ call' = NoCall /\ cursor' = 1 /\ reply' = Absent /\ unindexed' = <<>>
      /\ status' = "down"
      /\ UNCHANGED <<dirVars, writes>>
  BY DEF ProcessEnds
<1>1. DirectoryTypeOK'
  BY <1>a, <1>b DEF RecoveryTypeOK, TypeOK, DirectoryTypeOK, dirVars
<1>2. MemTableQueueTypeOK'
  BY <1>a, <1>b DEF RecoveryTypeOK, TypeOK, MemTableQueueTypeOK
<1>3. SSTableIndexQueueTypeOK'
  BY <1>b, EmptyTableType DEF SSTableIndexQueueTypeOK, IsCompaction, NoCompaction
<1>4. call' \in Calls
  BY <1>b DEF NoCall, Calls
<1>5. TypeOK'
  BY <1>a, <1>b, <1>1, <1>2, <1>3, <1>4 DEF RecoveryTypeOK, TypeOK
<1> QED
  BY <1>a, <1>b, <1>5 DEF RecoveryInv, RecoveryTypeOK, IdleInv, dirVars

LEMMA StopStep == RecoveryInv /\ Stop => RecoveryInv'
<1>1. RecoveryInv => stops \in Nat
  BY DEF RecoveryInv, RecoveryTypeOK
<1> QED
  BY <1>1, EndStep DEF Stop

LEMMA OpenDirectoryStep == RecoveryInv /\ OpenDirectory => RecoveryInv'
<1> SUFFICES ASSUME RecoveryInv, OpenDirectory PROVE RecoveryInv'
  OBVIOUS
<1>a. /\ RecoveryTypeOK /\ IsFiniteSet(DOMAIN sst) /\ IdleInv
      /\ memTableQueue = <<>> /\ flushFutures = <<>>
  BY DEF RecoveryInv, OpenDirectory
<1>b. IsFiles(sst, TableSet) /\ sstCounter \in Nat
  BY <1>a DEF RecoveryTypeOK, TypeOK, DirectoryTypeOK, MemTableQueueTypeOK
<1>c. PICK ids \in SortedNames(sst) :
           /\ indexQueue' = [i \in DOMAIN ids |-> [id |-> ids[i], table |-> sst[ids[i]]]]
           /\ sstCounter' = IF ids = <<>> THEN sstCounter ELSE 1 + ids[Len(ids)]
  BY DEF OpenDirectory
<1>d. /\ deprecated' = {} /\ inProgress' = [n \in {} |-> EmptyTable]
      /\ merged' = [n \in {} |-> EmptyTable] /\ status' = "opening"
      /\ UNCHANGED <<memTableQueue, flushFutures, txlCounter, compactionStartIndex, compaction>>
      /\ UNCHANGED <<sst, txl, callVars, stops>>
  BY DEF OpenDirectory, RemoveDeprecated
<1>1. Cardinality(DOMAIN sst) \in Nat
  BY <1>a, FS_CardinalityType
<1>2. /\ ids \in Seq(Nat) /\ \A i \in DOMAIN ids : ids[i] \in DOMAIN sst
      /\ \A i, j \in DOMAIN ids : i < j => ids[i] < ids[j]
  BY <1>1, <1>b DEF SortedNames, Increasing, IsFiles
<1>3. \A i \in DOMAIN ids : [id |-> ids[i], table |-> sst[ids[i]]] \in Indexes
  BY <1>2, <1>b DEF Indexes, IsFiles
<1>4. indexQueue' \in Seq(Indexes) /\ DOMAIN indexQueue' = DOMAIN ids
  BY <1>2, <1>3, <1>c
<1>5. \A i \in DOMAIN ids : indexQueue'[i].id = ids[i] /\ indexQueue'[i].table = sst[ids[i]]
  BY <1>c
<1>6. sstCounter' \in Nat /\ \A i \in DOMAIN ids : ids[i] <= sstCounter'
  <2>1. CASE ids = <<>>
    BY <2>1, <1>b, <1>c
  <2>2. CASE ids # <<>>
    <3>1. Len(ids) \in DOMAIN ids /\ ids[Len(ids)] \in Nat /\ sstCounter' = 1 + ids[Len(ids)]
      BY <2>2, <1>2, <1>c
    <3>2. ASSUME NEW i \in DOMAIN ids PROVE ids[i] <= ids[Len(ids)]
      <4>1. i = Len(ids) \/ i < Len(ids)
        BY <1>2
      <4> QED
        BY <4>1, <3>1, <1>2
    <3> QED
      BY <3>1, <3>2, <1>2
  <2> QED
    BY <2>1, <2>2
<1>7. TypeOK'
  <2>1. DirectoryTypeOK'
    BY <1>a, <1>d DEF RecoveryTypeOK, TypeOK, DirectoryTypeOK, IsFiles
  <2>2. MemTableQueueTypeOK' /\ SSTableIndexQueueTypeOK'
    BY <1>a, <1>d, <1>4, <1>6
       DEF RecoveryTypeOK, TypeOK, MemTableQueueTypeOK, SSTableIndexQueueTypeOK
  <2> QED
    BY <1>a, <1>d, <2>1, <2>2 DEF RecoveryTypeOK, TypeOK, callVars
<1>8. IdleInv'
  BY <1>a, <1>d DEF IdleInv, callVars
<1>9. PushInv' /\ InProgressInv'
  BY <1>a, <1>d DEF PushInv, InProgressInv
<1>10. IdInv'
  BY <1>a, <1>d, <1>2, <1>4, <1>5, <1>6 DEF IdInv, IdleInv, callVars
<1>11. IndexMatchesFile'
  BY <1>d, <1>2, <1>4, <1>5 DEF IndexMatchesFile
<1> QED
  BY <1>a, <1>d, <1>7, <1>8, <1>9, <1>10, <1>11 DEF RecoveryInv, RecoveryTypeOK

-----------------------------------------------------------------------------
\* The logs are pushed.

LEMMA PushStep == RecoveryInv /\ PushFromTransactionLog => RecoveryInv'
<1> SUFFICES ASSUME RecoveryInv, PushFromTransactionLog PROVE RecoveryInv'
  OBVIOUS
<1>a. /\ status = "opening" /\ RecoveryTypeOK /\ IsFiniteSet(DOMAIN sst)
      /\ IdleInv /\ PushInv /\ IdInv /\ InProgressInv /\ IndexMatchesFile
  BY DEF RecoveryInv, PushFromTransactionLog
<1>b. /\ memTableQueue \in Seq(MemTables) /\ flushFutures \in Seq(FlushJobs)
      /\ sstCounter \in Nat /\ txlCounter \in Nat /\ IsFiles(txl, Seq(Records))
  BY <1>a DEF RecoveryTypeOK, TypeOK, MemTableQueueTypeOK, DirectoryTypeOK
<1>c. PICK n \in LogsToPush :
           LET table == Replay(Readable(txl[n]))
               isLastTransactionLog == LogsToPush = {n}
           IN  /\ \A m \in LogsToPush : n <= m
               /\ memTableQueue' = Append(memTableQueue, [table |-> table, log |-> n])
               /\ IF isLastTransactionLog
                  THEN UNCHANGED <<flushFutures, sstCounter>>
                  ELSE /\ sstCounter' = sstCounter + 1
                       /\ flushFutures' =
                              Append(flushFutures, [id |-> sstCounter + 1, log |-> n,
                                                    table |-> table, stage |-> "launched"])
  BY DEF PushFromTransactionLog
<1> DEFINE table == Replay(Readable(txl[n]))
           memTable == [table |-> table, log |-> n]
           job == [id |-> sstCounter + 1, log |-> n, table |-> table, stage |-> "launched"]
<1>d. UNCHANGED <<txlCounter, indexVars, dirVars, callVars, status, stops>>
  BY DEF PushFromTransactionLog
<1>1. n \in DOMAIN txl /\ n \in Nat /\ table \in TableSet
  BY <1>b, ReadableType, ReplayType DEF LogsToPush, IsFiles
<1>2. memTable \in MemTables /\ memTable.log = n /\ memTable.table = table
  BY <1>1 DEF MemTables
<1>3. /\ job \in FlushJobs /\ job.log = n /\ job.table = table /\ job.id = sstCounter + 1
      /\ job.stage = "launched"
  BY <1>1, <1>b DEF FlushJobs
<1>4. memTableQueue' = Append(memTableQueue, memTable)
  BY <1>c
<1>5. \/ LogsToPush = {n} /\ UNCHANGED <<flushFutures, sstCounter>>
      \/ LogsToPush # {n} /\ flushFutures' = Append(flushFutures, job) /\ sstCounter' = sstCounter + 1
  BY <1>c
<1> HIDE DEF table, memTable, job
<1>6. /\ memTableQueue' \in Seq(MemTables) /\ Len(memTableQueue') = Len(memTableQueue) + 1
      /\ DOMAIN memTableQueue' = 1 .. Len(memTableQueue) + 1
      /\ \A i \in 1 .. Len(memTableQueue) : memTableQueue'[i] = memTableQueue[i]
      /\ memTableQueue'[Len(memTableQueue) + 1] = memTable
  BY <1>b, <1>2, <1>4
<1>7. LogsToPush' = LogsToPush \ {n}
  <2>1. txl' = txl
    BY <1>d DEF dirVars
  <2>2. {memTableQueue'[i].log : i \in DOMAIN memTableQueue'}
            = {memTableQueue[i].log : i \in DOMAIN memTableQueue} \cup {n}
    <3>1. \A i \in DOMAIN memTableQueue' : i \in DOMAIN memTableQueue \/ i = Len(memTableQueue) + 1
      BY <1>b, <1>6
    <3>2. /\ DOMAIN memTableQueue \subseteq DOMAIN memTableQueue'
          /\ Len(memTableQueue) + 1 \in DOMAIN memTableQueue'
          /\ \A i \in DOMAIN memTableQueue : memTableQueue'[i].log = memTableQueue[i].log
          /\ memTableQueue'[Len(memTableQueue) + 1].log = n
      BY <1>b, <1>2, <1>6
    <3> QED
      BY <3>1, <3>2
  <2> QED
    BY <2>1, <2>2 DEF LogsToPush
<1>8. \A m \in LogsToPush : m \in Nat /\ n <= m
  BY <1>b, <1>c DEF LogsToPush, IsFiles
<1>9. \A i \in 1 .. Len(memTableQueue) : memTableQueue[i].log \in Nat
  <2> SUFFICES ASSUME NEW i \in 1 .. Len(memTableQueue) PROVE memTableQueue[i].log \in Nat
    OBVIOUS
  <2>1. memTableQueue[i] \in MemTables
    BY <1>b
  <2> QED
    BY <2>1 DEF MemTables
<1> DEFINE L == Len(memTableQueue)
<1>10. /\ Len(flushFutures) = L /\ L \in Nat
       /\ DOMAIN flushFutures = 1 .. L /\ DOMAIN memTableQueue = 1 .. L
       /\ Len(memTableQueue') = L + 1
  BY <1>a, <1>b, <1>c, <1>6 DEF PushInv
<1> HIDE DEF L
<1>11. /\ flushFutures' \in Seq(FlushJobs) /\ sstCounter' \in Nat /\ sstCounter' >= sstCounter
       /\ LogsToPush = {n} => Len(flushFutures') = L
       /\ LogsToPush # {n} => Len(flushFutures') = L + 1
       /\ \A i \in DOMAIN flushFutures' :
              \/ i \in 1 .. L /\ flushFutures'[i] = flushFutures[i]
              \/ i = L + 1 /\ flushFutures'[i] = job /\ sstCounter' = sstCounter + 1
  <2>1. CASE LogsToPush = {n}
    <3>1. flushFutures' = flushFutures /\ sstCounter' = sstCounter
      BY <2>1, <1>5
    <3>2. sstCounter >= sstCounter
      BY <1>b
    <3> QED
      BY <2>1, <3>1, <3>2, <1>b, <1>10
  <2>2. CASE LogsToPush # {n}
    <3>1. flushFutures' = Append(flushFutures, job) /\ sstCounter' = sstCounter + 1
      BY <2>2, <1>5
    <3>2. /\ flushFutures' \in Seq(FlushJobs) /\ Len(flushFutures') = L + 1
          /\ DOMAIN flushFutures' = 1 .. L + 1
          /\ \A i \in 1 .. L : flushFutures'[i] = flushFutures[i]
          /\ flushFutures'[L + 1] = job
      BY <3>1, <1>b, <1>3, <1>10
    <3>3. \A i \in 1 .. L + 1 : i \in 1 .. L \/ i = L + 1
      BY <1>10
    <3>4. sstCounter + 1 \in Nat /\ sstCounter + 1 >= sstCounter
      BY <1>b
    <3> QED
      BY <2>2, <3>1, <3>2, <3>3, <3>4
  <2> QED
    BY <2>1, <2>2
<1>12. PushInv'
  <2>1. txl' = txl
    BY <1>d DEF dirVars
  <2>2. \A i \in 1 .. Len(memTableQueue) : memTableQueue[i].log < n
    BY <1>a, <1>b, <1>c DEF PushInv
  <2>3. \A i, j \in DOMAIN memTableQueue' :
            i < j => memTableQueue'[i].log < memTableQueue'[j].log
    BY <2>2, <1>a, <1>b, <1>2, <1>6 DEF PushInv
  <2>4. ASSUME NEW i \in DOMAIN memTableQueue'
        PROVE  /\ memTableQueue'[i].log \in DOMAIN txl'
               /\ \A m \in LogsToPush' : memTableQueue'[i].log < m
    <3>1. CASE i \in 1 .. Len(memTableQueue)
      BY <3>1, <2>1, <1>a, <1>b, <1>6, <1>7 DEF PushInv
    <3>2. CASE i = Len(memTableQueue) + 1
      <4>1. \A m \in LogsToPush' : n < m
        BY <1>1, <1>7, <1>8
      <4> QED
        BY <3>2, <4>1, <2>1, <1>1, <1>2, <1>6
    <3> QED
      BY <3>1, <3>2, <1>6
  <2>5. ASSUME NEW i \in DOMAIN flushFutures'
        PROVE  /\ flushFutures'[i].log = memTableQueue'[i].log
               /\ flushFutures'[i].table = memTableQueue'[i].table
    <3>1. CASE i \in 1 .. L /\ flushFutures'[i] = flushFutures[i]
      <4>1. memTableQueue'[i] = memTableQueue[i]
        BY <3>1, <1>6 DEF L
      <4> QED
        BY <3>1, <4>1, <1>a, <1>10 DEF PushInv
    <3>2. CASE i = L + 1 /\ flushFutures'[i] = job
      <4>1. memTableQueue'[i] = memTable
        BY <3>2, <1>6 DEF L
      <4> QED
        BY <3>2, <4>1, <1>2, <1>3
    <3> QED
      BY <3>1, <3>2, <1>11
  <2>6. Len(flushFutures') <= Len(memTableQueue')
    BY <1>10, <1>11
  <2>7. LogsToPush' # {} => Len(flushFutures') = Len(memTableQueue')
    BY <1>7, <1>10, <1>11
  <2>8. LogsToPush' = {} => LogsToPush = {n}
    BY <1>c, <1>7
  <2>9. LogsToPush' = {} => Len(memTableQueue') = Len(flushFutures') + 1
    BY <2>8, <1>10, <1>11
  <2> QED
    BY <2>3, <2>4, <2>5, <2>6, <2>7, <2>9 DEF PushInv
<1>13. IdInv'
  <2>1. /\ indexQueue' = indexQueue /\ unindexed' = <<>> /\ pc' = "idle" /\ pc = "idle"
    BY <1>a, <1>d DEF indexVars, callVars, IdleInv
  <2>2. indexQueue \in Seq(Indexes)
    BY <1>a DEF RecoveryTypeOK, TypeOK, SSTableIndexQueueTypeOK
  <2>3. \A i \in DOMAIN indexQueue : indexQueue[i].id \in Nat
    <3> SUFFICES ASSUME NEW i \in DOMAIN indexQueue PROVE indexQueue[i].id \in Nat
      OBVIOUS
    <3>1. indexQueue[i] \in Indexes
      BY <2>2
    <3> QED
      BY <3>1 DEF Indexes
  <2>4. \A i \in 1 .. L : flushFutures[i].id \in Nat
    <3> SUFFICES ASSUME NEW i \in 1 .. L PROVE flushFutures[i].id \in Nat
      OBVIOUS
    <3>1. flushFutures[i] \in FlushJobs
      BY <1>b, <1>10
    <3> QED
      BY <3>1 DEF FlushJobs
  <2>5. /\ \A i \in 1 .. L : flushFutures[i].id <= sstCounter
        /\ \A i, j \in 1 .. L : i < j => flushFutures[i].id < flushFutures[j].id
        /\ \A i \in DOMAIN indexQueue, j \in 1 .. L : indexQueue[i].id < flushFutures[j].id
        /\ \A i \in DOMAIN indexQueue : indexQueue[i].id <= sstCounter
        /\ \A i, j \in DOMAIN indexQueue : i < j => indexQueue[i].id < indexQueue[j].id
    BY <1>a, <1>10, <2>1 DEF IdInv, FirstPending
  <2>6. ASSUME NEW i \in DOMAIN flushFutures', NEW j \in DOMAIN flushFutures', i < j
        PROVE  flushFutures'[i].id < flushFutures'[j].id
    <3>1. i \in 1 .. L /\ flushFutures'[i] = flushFutures[i]
      <4>1. i \in 1 .. L + 1 /\ j \in 1 .. L + 1
        BY <1>10, <1>11
      <4> QED
        BY <4>1, <2>6, <1>10, <1>11
    <3>2. CASE j \in 1 .. L /\ flushFutures'[j] = flushFutures[j]
      BY <3>1, <3>2, <2>5, <2>6
    <3>3. CASE j = L + 1 /\ flushFutures'[j] = job
      <4>1. flushFutures[i].id <= sstCounter /\ flushFutures[i].id \in Nat
        BY <3>1, <2>4, <2>5
      <4> QED
        BY <3>1, <3>3, <4>1, <1>b, <1>3
    <3> QED
      BY <3>2, <3>3, <1>11
  <2>7. ASSUME NEW i \in DOMAIN indexQueue, NEW j \in DOMAIN flushFutures'
        PROVE  indexQueue[i].id < flushFutures'[j].id
    <3>1. CASE j \in 1 .. L /\ flushFutures'[j] = flushFutures[j]
      BY <3>1, <2>5
    <3>2. CASE j = L + 1 /\ flushFutures'[j] = job
      <4>1. indexQueue[i].id <= sstCounter /\ indexQueue[i].id \in Nat
        BY <2>3, <2>5
      <4> QED
        BY <3>2, <4>1, <1>b, <1>3
    <3> QED
      BY <3>1, <3>2, <1>11
  <2>8. ASSUME NEW i \in DOMAIN flushFutures' PROVE flushFutures'[i].id <= sstCounter'
    <3>1. CASE i \in 1 .. L /\ flushFutures'[i] = flushFutures[i]
      <4>1. flushFutures[i].id <= sstCounter /\ flushFutures[i].id \in Nat
        BY <3>1, <2>4, <2>5
      <4> QED
        BY <3>1, <4>1, <1>b, <1>11
    <3>2. CASE i = L + 1 /\ flushFutures'[i] = job /\ sstCounter' = sstCounter + 1
      BY <3>2, <1>b, <1>3
    <3> QED
      BY <3>1, <3>2, <1>11
  <2>9. ASSUME NEW i \in DOMAIN indexQueue PROVE indexQueue[i].id <= sstCounter'
    <3>1. indexQueue[i].id <= sstCounter /\ indexQueue[i].id \in Nat
      BY <2>3, <2>5
    <3> QED
      BY <3>1, <1>b, <1>11
  <2> QED
    BY <2>1, <2>5, <2>6, <2>7, <2>8, <2>9 DEF IdInv
<1>14. InProgressInv'
  <2>1. /\ pc = "idle" /\ pc' = "idle" /\ inProgress' = inProgress
        /\ FirstPending = 1 /\ FirstPending' = 1
    BY <1>a, <1>d DEF IdleInv, callVars, dirVars, FirstPending
  <2> SUFFICES ASSUME NEW i \in DOMAIN flushFutures', flushFutures'[i].stage = "ready"
               PROVE  /\ flushFutures'[i].id \in DOMAIN inProgress
                      /\ inProgress[flushFutures'[i].id] = flushFutures'[i].table
    BY <2>1 DEF InProgressInv
  <2>2. i \in 1 .. L /\ flushFutures'[i] = flushFutures[i]
    BY <1>3, <1>11
  <2> QED
    BY <2>1, <2>2, <1>a, <1>10 DEF InProgressInv
<1>15. IndexMatchesFile'
  BY <1>a, <1>d DEF IndexMatchesFile, indexVars, dirVars, callVars, InUpdate, CompactionRange
<1>16. TypeOK'
  BY <1>a, <1>b, <1>d, <1>6, <1>11
     DEF RecoveryTypeOK, TypeOK, DirectoryTypeOK, MemTableQueueTypeOK, SSTableIndexQueueTypeOK,
         indexVars, dirVars, callVars
<1>17. IdleInv' /\ IsFiniteSet(DOMAIN sst')
  BY <1>a, <1>d DEF IdleInv, callVars, indexVars, dirVars
<1> QED
  BY <1>a, <1>d, <1>12, <1>13, <1>14, <1>15, <1>16, <1>17 DEF RecoveryInv, RecoveryTypeOK

-----------------------------------------------------------------------------
\* The jobs that init has started run beside it.

LEMMA OpeningJobStep ==
    RecoveryInv /\ status = "opening" /\ (\E i \in DOMAIN flushFutures : FlushJob(i))
        /\ UNCHANGED <<status, stops>> => RecoveryInv'
<1> SUFFICES ASSUME RecoveryInv, status = "opening", NEW i \in DOMAIN flushFutures, FlushJob(i),
                    UNCHANGED <<status, stops>>
             PROVE  RecoveryInv'
  OBVIOUS
<1>a. /\ RecoveryTypeOK /\ IsFiniteSet(DOMAIN sst)
      /\ IdleInv /\ PushInv /\ IdInv /\ InProgressInv /\ IndexMatchesFile
  BY DEF RecoveryInv
<1>b. flushFutures \in Seq(FlushJobs) /\ IsFiles(inProgress, TableSet)
  BY <1>a DEF RecoveryTypeOK, TypeOK, MemTableQueueTypeOK, DirectoryTypeOK
<1>c. UNCHANGED <<memTableQueue, sstCounter, txlCounter, indexVars, callVars, sst, merged, txl>>
  BY DEF FlushJob
<1>d. pc = "idle" /\ pc' = "idle" /\ FirstPending = 1 /\ FirstPending' = 1
  BY <1>a, <1>c DEF IdleInv, callVars, FirstPending
<1>1. \A j \in DOMAIN flushFutures :
          /\ flushFutures[j] \in FlushJobs
          /\ flushFutures[j].id \in Nat /\ flushFutures[j].table \in TableSet
  <2>1. \A j \in DOMAIN flushFutures : flushFutures[j] \in FlushJobs
    BY <1>b
  <2> QED
    BY <2>1 DEF FlushJobs
<1>2. PICK stage \in {"writing", "ready"} :
          /\ flushFutures' = [flushFutures EXCEPT ![i].stage = stage]
          /\ inProgress' = Put(inProgress, flushFutures[i].id,
                               IF stage = "ready" THEN flushFutures[i].table ELSE EmptyTable)
          /\ deprecated' \in {deprecated, {}}
  BY DEF FlushJob, FlushBegin, FlushFinish, RemoveDeprecated
<1>3. [flushFutures[i] EXCEPT !.stage = stage] \in FlushJobs
  BY <1>1 DEF FlushJobs
<1>4. /\ flushFutures' \in Seq(FlushJobs) /\ Len(flushFutures') = Len(flushFutures)
      /\ DOMAIN flushFutures' = DOMAIN flushFutures
      /\ \A j \in DOMAIN flushFutures : j # i => flushFutures'[j] = flushFutures[j]
      /\ flushFutures'[i] = [flushFutures[i] EXCEPT !.stage = stage]
  <2>1. PICK job \in FlushJobs : /\ flushFutures' = [flushFutures EXCEPT ![i] = job]
                                 /\ job = [flushFutures[i] EXCEPT !.stage = stage]
    BY <1>2, <1>3
  <2> QED
    BY <1>b, <2>1
<1>5. /\ flushFutures'[i].id = flushFutures[i].id /\ flushFutures'[i].log = flushFutures[i].log
      /\ flushFutures'[i].table = flushFutures[i].table /\ flushFutures'[i].stage = stage
  BY <1>1, <1>4 DEF FlushJobs
<1>6. \A j \in DOMAIN flushFutures :
          /\ flushFutures'[j].id = flushFutures[j].id
          /\ flushFutures'[j].log = flushFutures[j].log
          /\ flushFutures'[j].table = flushFutures[j].table
  BY <1>4, <1>5
<1>7. PushInv'
  <2>1. UNCHANGED <<memTableQueue, LogsToPush, txl>>
    BY <1>c DEF LogsToPush
  <2> QED
    BY <2>1, <1>a, <1>4, <1>6 DEF PushInv
<1>8. IdInv'
  BY <1>a, <1>c, <1>d, <1>4, <1>6 DEF IdInv, indexVars, callVars
<1>9. InProgressInv'
  <2> SUFFICES ASSUME NEW j \in DOMAIN flushFutures, flushFutures'[j].stage = "ready"
               PROVE  /\ flushFutures'[j].id \in DOMAIN inProgress'
                      /\ inProgress'[flushFutures'[j].id] = flushFutures'[j].table
    BY <1>d, <1>4 DEF InProgressInv
  <2>1. CASE j = i
    <3>1. stage = "ready"
      BY <2>1, <1>5
    <3>2. inProgress' = Put(inProgress, flushFutures[i].id, flushFutures[i].table)
      BY <3>1, <1>2
    <3>3. /\ flushFutures[i].id \in DOMAIN inProgress'
          /\ inProgress'[flushFutures[i].id] = flushFutures[i].table
      BY <3>2 DEF Put
    <3> QED
      BY <2>1, <3>3, <1>5
  <2>2. CASE j # i
    <3>1. flushFutures[j].id \in DOMAIN inProgress
          /\ inProgress[flushFutures[j].id] = flushFutures[j].table
      BY <2>2, <1>a, <1>b, <1>d, <1>4 DEF InProgressInv
    <3>2. flushFutures[j].id # flushFutures[i].id
      <4>1. i < j \/ j < i
        BY <2>2, <1>b
      <4> QED
        BY <4>1, <1>a, <1>1 DEF IdInv
    <3> QED
      BY <3>1, <3>2, <1>2, <1>6 DEF Put
  <2> QED
    BY <2>1, <2>2
<1>10. IndexMatchesFile'
  BY <1>a, <1>c DEF IndexMatchesFile, indexVars, callVars, InUpdate, CompactionRange
<1>11. TypeOK'
  <2>1. IsFiles(inProgress', TableSet)
    BY <1>1, <1>2, <1>b, PutFile, EmptyTableType
  <2>2. DirectoryTypeOK'
    BY <2>1, <1>a, <1>2, <1>c DEF RecoveryTypeOK, TypeOK, DirectoryTypeOK
  <2>3. MemTableQueueTypeOK' /\ SSTableIndexQueueTypeOK'
    BY <1>a, <1>4, <1>c
       DEF RecoveryTypeOK, TypeOK, MemTableQueueTypeOK, SSTableIndexQueueTypeOK, indexVars
  <2> QED
    BY <1>a, <1>c, <2>2, <2>3 DEF RecoveryTypeOK, TypeOK, callVars
<1>12. IdleInv' /\ IsFiniteSet(DOMAIN sst')
  BY <1>a, <1>c DEF IdleInv, callVars, indexVars
<1> QED
  BY <1>a, <1>7, <1>8, <1>9, <1>10, <1>11, <1>12 DEF RecoveryInv, RecoveryTypeOK

-----------------------------------------------------------------------------
\* init has ended: the invariant of ProjectDb holds.

LEMMA OpenedStep == RecoveryInv /\ Opened => RecoveryInv'
<1> SUFFICES ASSUME RecoveryInv, Opened PROVE RecoveryInv'
  OBVIOUS
<1>a. /\ RecoveryTypeOK /\ IsFiniteSet(DOMAIN sst)
      /\ IdleInv /\ PushInv /\ IdInv /\ InProgressInv /\ IndexMatchesFile
      /\ LogsToPush = {} /\ status' = "up"
  BY DEF RecoveryInv, Opened
<1>b. /\ memTableQueue \in Seq(MemTables) /\ flushFutures \in Seq(FlushJobs)
      /\ txlCounter \in Nat
  BY <1>a DEF RecoveryTypeOK, TypeOK, MemTableQueueTypeOK
<1>c. UNCHANGED <<memTableQueue, flushFutures, sstCounter, indexVars, dirVars, callVars, stops>>
  BY DEF Opened
<1>d. txlCounter' = IF memTableQueue = <<>> THEN txlCounter ELSE 1 + memTableQueue[Back].log
  BY DEF Opened
<1>1. \A i \in DOMAIN memTableQueue : memTableQueue[i].log \in Nat
  <2>1. \A i \in DOMAIN memTableQueue : memTableQueue[i] \in MemTables
    BY <1>b
  <2> QED
    BY <2>1 DEF MemTables
<1>2. /\ memTableQueue # <<>> => Len(memTableQueue) = Len(flushFutures) + 1
      /\ memTableQueue = <<>> => Len(flushFutures) = 0
      /\ Len(memTableQueue) \in Nat /\ Len(flushFutures) \in Nat
      /\ memTableQueue = <<>> => Len(memTableQueue) = 0
  BY <1>a, <1>b DEF PushInv
<1>3. txlCounter' \in Nat
      /\ \A i \in DOMAIN memTableQueue : memTableQueue[i].log < txlCounter'
  <2>1. CASE memTableQueue = <<>>
    BY <2>1, <1>b, <1>d
  <2>2. CASE memTableQueue # <<>>
    <3>1. Back \in DOMAIN memTableQueue /\ txlCounter' = 1 + memTableQueue[Back].log
      BY <2>2, <1>b, <1>d DEF Back
    <3>2. ASSUME NEW i \in DOMAIN memTableQueue
          PROVE  memTableQueue[i].log <= memTableQueue[Back].log
      <4>1. i = Back \/ i < Back
        BY <1>b DEF Back
      <4> QED
        BY <4>1, <3>1, <1>1, <1>a DEF PushInv
    <3> QED
      BY <3>1, <3>2, <1>1
  <2> QED
    BY <2>1, <2>2
<1>4. TypeOK'
  BY <1>a, <1>b, <1>c, <1>3
     DEF RecoveryTypeOK, TypeOK, DirectoryTypeOK, MemTableQueueTypeOK, SSTableIndexQueueTypeOK,
         indexVars, dirVars, callVars
<1>5. CallInv'
  BY <1>a, <1>c DEF IdleInv, callVars, CallInv, NoCall
<1>6. FuturesMatchQueue' /\ FlushedTableIsFrozen'
  <2>1. ASSUME NEW i \in DOMAIN flushFutures
        PROVE  /\ i < Len(memTableQueue)
               /\ flushFutures[i].log = memTableQueue[i].log
               /\ flushFutures[i].table = memTableQueue[i].table
    <3>1. i <= Len(flushFutures) /\ i >= 1 /\ i \in Nat
      BY <1>b
    <3> QED
      BY <3>1, <1>2, <1>a DEF PushInv
  <2>2. Len(memTableQueue) <= Len(flushFutures) + 1
    BY <1>2
  <2> QED
    BY <2>1, <2>2, <1>c DEF FuturesMatchQueue, FlushedTableIsFrozen
<1>7. LogInv'
  BY <1>a, <1>c, <1>3 DEF LogInv, PushInv, dirVars
<1>8. IdInv' /\ InProgressInv' /\ IndexMatchesFile'
  BY <1>a, <1>c DEF IdInv, InProgressInv, IndexMatchesFile, FirstPending, InUpdate,
                    CompactionRange, indexVars, dirVars, callVars
<1>9. NoCompactionInFlushes' /\ ProgressInv' /\ ResultInv' /\ UpdateInv'
  <2>1. compaction' = NoCompaction /\ pc' = "idle"
    BY <1>a, <1>c DEF IdleInv, indexVars, callVars
  <2> QED
    BY <2>1 DEF NoCompaction, NoCompactionInFlushes, ProgressInv, ResultInv, UpdateInv, InUpdate
<1> QED
  BY <1>a, <1>c, <1>4, <1>5, <1>6, <1>7, <1>8, <1>9
     DEF RecoveryInv, RecoveryTypeOK, IndInv, dirVars

-----------------------------------------------------------------------------
\* All steps together.

LEMMA UpStep ==
    RecoveryInv /\ status = "up" /\ Next /\ UNCHANGED <<status, stops>> => RecoveryInv'
<1> SUFFICES ASSUME RecoveryInv, status = "up", Next, UNCHANGED <<status, stops>>
             PROVE  RecoveryInv'
  OBVIOUS
<1>1. IndInv /\ IsFiniteSet(DOMAIN sst) /\ stops \in Nat
  BY DEF RecoveryInv, RecoveryTypeOK
<1>2. IndInv' /\ IsFiniteSet(DOMAIN sst')
  BY <1>1, IndInvStep, FiniteStep
<1> QED
  BY <1>1, <1>2 DEF RecoveryInv, RecoveryTypeOK, IndInv

LEMMA StutterStep == RecoveryInv /\ UNCHANGED rvars => RecoveryInv'
<1> SUFFICES ASSUME RecoveryInv, UNCHANGED rvars PROVE RecoveryInv'
  OBVIOUS
<1>1. UNCHANGED <<vars, status, stops>>
  BY DEF rvars
<1>2. IndInv => IndInv'
  BY <1>1, IndInvStep
<1>3. TypeOK'
  BY <1>1 DEF RecoveryInv, RecoveryTypeOK, TypeOK, DirectoryTypeOK, MemTableQueueTypeOK,
              SSTableIndexQueueTypeOK, vars, memVars, indexVars, dirVars, callVars
<1>4. /\ IdleInv => IdleInv'
      /\ PushInv => PushInv'
      /\ IdInv => IdInv'
      /\ InProgressInv => InProgressInv'
      /\ IndexMatchesFile => IndexMatchesFile'
  BY <1>1 DEF vars, memVars, indexVars, dirVars, callVars, IdleInv, PushInv, LogsToPush, IdInv,
              InProgressInv, FirstPending, IndexMatchesFile, InUpdate, CompactionRange
<1> QED
  BY <1>1, <1>2, <1>3, <1>4
     DEF RecoveryInv, RecoveryTypeOK, vars, memVars, indexVars, dirVars, callVars

LEMMA RecoveryInvStep == RecoveryInv /\ [RecoveryNext]_rvars => RecoveryInv'
BY StopStep, OpenDirectoryStep, PushStep, OpenedStep, OpeningJobStep, UpStep, StutterStep
   DEF RecoveryNext, Open

-----------------------------------------------------------------------------
-----------------------------------------------------------------------------
(***************************************************************************)
(* What init builds covers the directory.                                  *)
(***************************************************************************)

\* No file is left out when the names are sorted.
LEMMA SortedNamesAreAll ==
    ASSUME NEW files, IsFiniteSet(DOMAIN files), DOMAIN files \subseteq Nat,
           NEW ids \in SortedNames(files)
    PROVE  \A n \in DOMAIN files : \E i \in DOMAIN ids : ids[i] = n
<1>1. PICK c \in Nat : c = Cardinality(DOMAIN files)
  BY FS_CardinalityType
<1>2. /\ ids \in [1 .. c -> DOMAIN files] /\ DOMAIN ids = 1 .. c
      /\ \A i, j \in 1 .. c : i < j => ids[i] < ids[j]
  BY <1>1 DEF SortedNames, Increasing
<1>3. ASSUME NEW i \in 1 .. c, NEW j \in 1 .. c, ids[i] = ids[j] PROVE i = j
  <2>1. i = j \/ i < j \/ j < i
    OBVIOUS
  <2>2. ids[i] \in Nat /\ ids[j] \in Nat
    BY <1>2
  <2>3. i < j => ids[i] < ids[j]
    BY <1>2
  <2>4. j < i => ids[j] < ids[i]
    BY <1>2
  <2> QED
    BY <2>1, <2>2, <2>3, <2>4, <1>3
<1>4. ids \in Injection(1 .. c, DOMAIN files)
  BY <1>2, <1>3 DEF Injection, IsInjective
<1>5. Cardinality(1 .. c) = c
  BY FS_Interval
<1>6. ids \in Surjection(1 .. c, DOMAIN files)
  BY <1>1, <1>4, <1>5, FS_Injection
<1> QED
  BY <1>2, <1>6 DEF Surjection

\* While nothing is renamed, the files keep their indexes.
LEMMA IdleSSTables ==
    ASSUME SSTableInv, pc = "idle", UNCHANGED <<sst, indexQueue, unindexed, pc>>
    PROVE  SSTableInv'
BY DEF SSTableInv, Deprecated, Activated

LEMMA OpenDirectoryIndexesAll ==
    ASSUME RecoveryInv, OpenDirectory
    PROVE  SSTableInv'
<1>1. /\ IsFiniteSet(DOMAIN sst) /\ IdleInv
  BY DEF RecoveryInv, OpenDirectory
<1>2. DOMAIN sst \subseteq Nat
  BY DEF RecoveryInv, RecoveryTypeOK, TypeOK, DirectoryTypeOK, IsFiles
<1>3. PICK ids \in SortedNames(sst) :
           indexQueue' = [i \in DOMAIN ids |-> [id |-> ids[i], table |-> sst[ids[i]]]]
  BY DEF OpenDirectory
<1>4. sst' = sst /\ pc' = "idle" /\ unindexed' = <<>>
  BY <1>1 DEF OpenDirectory, IdleInv, callVars
<1>5. \A n \in DOMAIN sst : \E i \in DOMAIN ids : ids[i] = n
  BY <1>1, <1>2, SortedNamesAreAll
<1>6. DOMAIN indexQueue' = DOMAIN ids /\ \A i \in DOMAIN ids : indexQueue'[i].id = ids[i]
  BY <1>3
<1> QED
  BY <1>4, <1>5, <1>6 DEF SSTableInv, Deprecated, Activated

LEMMA PushLoads ==
    ASSUME RecoveryInv, LoadedInv, PushFromTransactionLog
    PROVE  LoadedInv'
<1>1. memTableQueue \in Seq(MemTables) /\ txl' = txl
  BY DEF RecoveryInv, RecoveryTypeOK, TypeOK, MemTableQueueTypeOK, PushFromTransactionLog, dirVars
<1>2. PICK n : memTableQueue' =
                   Append(memTableQueue, [table |-> Replay(Readable(txl[n])), log |-> n])
  BY DEF PushFromTransactionLog
<1> DEFINE m == [table |-> Replay(Readable(txl[n])), log |-> n]
<1>3. m.table = Replay(Readable(txl[m.log]))
  OBVIOUS
<1>4. memTableQueue' = Append(memTableQueue, m)
  BY <1>2
<1> HIDE DEF m
<1>5. \A i \in DOMAIN memTableQueue' :
          \/ i \in DOMAIN memTableQueue /\ memTableQueue'[i] = memTableQueue[i]
          \/ memTableQueue'[i] = m
  BY <1>1, <1>4
<1> QED
  BY <1>1, <1>3, <1>5 DEF LoadedInv

-----------------------------------------------------------------------------
(***************************************************************************)
(* What is written after init is in the log, though it may not be read     *)
(* back.                                                                   *)
(***************************************************************************)

LEMMA ReadBackEmpty == ReadBack(EmptyTable, <<>>)
<1>1. Readable(<<>>) = <<>>
  BY DEF Readable
<1> QED
  BY <1>1, ReplayEmpty DEF ReadBack, SameEntry

LEMMA ReadBackWrite ==
    ASSUME NEW t \in TableSet, NEW log \in Seq(Records), NEW r \in Records, ReadBack(t, log)
    PROVE  ReadBack(Put(t, r.key, r.value), Append(log, r))
<1> DEFINE longer == Append(log, r)
           u == Put(t, r.key, r.value)
<1>1. /\ DOMAIN log = 1 .. Len(log) /\ Len(log) \in Nat
      /\ DOMAIN longer = 1 .. Len(log) + 1
      /\ longer[Len(log) + 1] = r
      /\ \A i \in 1 .. Len(log) : longer[i] = log[i]
  OBVIOUS
<1>2. \A k : /\ k \in DOMAIN u <=> k \in DOMAIN t \/ k = r.key
             /\ k \in DOMAIN u => u[k] = IF k = r.key THEN r.value ELSE t[k]
  BY DEF Put
<1>3. CASE r.value = Tombstone /\ Readable(log) = log /\ Readable(longer) = longer
  <2>1. \A k : ~UnreadIn(log, k)
    BY <1>1, <1>3 DEF UnreadIn
  <2>2. Replay(longer) = Put(Replay(log), r.key, r.value)
    BY ReplayAppend
  <2>3. \A k \in Keys : SameEntry(t, Replay(log), k)
    BY <2>1, <1>3 DEF ReadBack
  <2>4. \A k \in Keys : SameEntry(u, Replay(longer), k)
    BY <2>2, <2>3, <1>2 DEF SameEntry, Put
  <2> QED
    BY <2>4, <1>3 DEF ReadBack
<1>4. CASE Readable(longer) = Readable(log)
  <2>1. Len(Readable(log)) \in Nat /\ Len(Readable(log)) <= Len(log)
    BY ReadableLength
  <2>2. UnreadIn(longer, r.key)
    <3>1. Len(log) + 1 \in DOMAIN longer /\ Len(log) + 1 > Len(Readable(longer))
      BY <2>1, <1>1, <1>4
    <3> QED
      BY <3>1, <1>1 DEF UnreadIn
  <2>3. \A k : UnreadIn(log, k) => UnreadIn(longer, k)
    BY <1>1, <1>4 DEF UnreadIn
  <2>4. \A k : k # r.key /\ SameEntry(t, Replay(Readable(log)), k) =>
                   SameEntry(u, Replay(Readable(longer)), k)
    BY <1>2, <1>4 DEF SameEntry
  <2> QED
    BY <2>2, <2>3, <2>4 DEF ReadBack
<1> QED
  BY <1>3, <1>4, ReadableAppend

LEMMA ReadBackInvStep == IndInv /\ ReadBackInv /\ [Next]_vars => ReadBackInv'
<1> SUFFICES ASSUME IndInv, ReadBackInv, [Next]_vars PROVE ReadBackInv'
  OBVIOUS
<1>1. \A i \in DOMAIN memTableQueue :
          /\ txl[memTableQueue[i].log] \in Seq(Records) /\ memTableQueue[i].table \in TableSet
          /\ ReadBack(memTableQueue[i].table, txl[memTableQueue[i].log])
  BY LogTypes DEF IndInv, LogInv, ReadBackInv
<1>2. \A n \in DOMAIN txl : \E i \in DOMAIN memTableQueue : memTableQueue[i].log = n
  BY DEF ReadBackInv
<1>3. ASSUME NEW i \in DOMAIN memTableQueue'
      PROVE  ReadBack(memTableQueue'[i].table, txl'[memTableQueue'[i].log])
  <2>1. CASE memTableQueue'[i].table = EmptyTable /\ txl'[memTableQueue'[i].log] = <<>>
    BY <2>1, ReadBackEmpty
  <2>2. CASE \E j \in DOMAIN memTableQueue :
                 /\ memTableQueue'[i].table = memTableQueue[j].table
                 /\ txl'[memTableQueue'[i].log] = txl[memTableQueue[j].log]
    BY <2>2, <1>1
  <2>3. ASSUME NEW j \in DOMAIN memTableQueue, NEW r \in Records,
               memTableQueue'[i].table = Put(memTableQueue[j].table, r.key, r.value),
               txl'[memTableQueue'[i].log] = Append(txl[memTableQueue[j].log], r)
        PROVE  ReadBack(memTableQueue'[i].table, txl'[memTableQueue'[i].log])
    <3>1. PICK log \in Seq(Records), t \in TableSet :
              log = txl[memTableQueue[j].log] /\ t = memTableQueue[j].table
      BY <1>1
    <3>2. ReadBack(Put(t, r.key, r.value), Append(log, r))
      BY <3>1, <1>1, ReadBackWrite
    <3> QED
      BY <2>3, <3>1, <3>2
  <2> QED
    BY <2>1, <2>2, <2>3, <1>2, LogsChange
<1> QED
  BY <1>2, <1>3, LogsChange DEF ReadBackInv

-----------------------------------------------------------------------------
\* The invariant of what a restart finds.

LEMMA OpenedContents ==
    ASSUME RecoveryInv, RestartInv, Opened
    PROVE  SSTableInv' /\ ReadBackInv' /\ ContentsInv'
<1>1. IdleInv /\ PushInv /\ LogsToPush = {} /\ SSTableInv /\ LoadedInv
  BY DEF RecoveryInv, RestartInv, Opened
<1>2. UNCHANGED <<memTableQueue, flushFutures, sstCounter, indexVars, dirVars, callVars>>
  BY DEF Opened
<1>3. SSTableInv'
  BY <1>1, <1>2, IdleSSTables DEF IdleInv, indexVars, dirVars, callVars
<1>4. ReadBackInv'
  <2>1. \A n \in DOMAIN txl : \E i \in DOMAIN memTableQueue : memTableQueue[i].log = n
    BY <1>1 DEF LogsToPush
  <2>2. \A i \in DOMAIN memTableQueue :
            ReadBack(memTableQueue[i].table, txl[memTableQueue[i].log])
    BY <1>1 DEF LoadedInv, ReadBack, SameEntry
  <2> QED
    BY <1>2, <2>1, <2>2 DEF ReadBackInv, dirVars
<1>5. pc' = "idle" /\ call' = NoCall /\ compaction' = NoCompaction
  BY <1>1, <1>2 DEF IdleInv, indexVars, callVars
<1>6. ContentsInv'
  BY <1>5 DEF ContentsInv, MergeInv, FlushedInv, RequestInv, NoCompaction, NoCall
<1> QED
  BY <1>3, <1>4, <1>6

LEMMA UpContents ==
    ASSUME RecoveryInv, RestartInv, status = "up", [Next]_vars
    PROVE  SSTableInv' /\ ReadBackInv' /\ ContentsInv'
BY SSTableInvStep, ReadBackInvStep, ContentsInvStep DEF RecoveryInv, RestartInv

LEMMA StutterContents ==
    ASSUME RestartInv, UNCHANGED rvars
    PROVE  RestartInv'
<1>1. UNCHANGED <<vars, status>>
  BY DEF rvars
<1>2. /\ SSTableInv => SSTableInv'
      /\ LoadedInv => LoadedInv'
      /\ ReadBackInv => ReadBackInv'
      /\ ContentsInv => ContentsInv'
  BY <1>1 DEF vars, memVars, indexVars, dirVars, callVars, SSTableInv, Deprecated, Activated,
              CompactionRange, LoadedInv, ReadBackInv, ContentsInv, MergeInv, FlushedInv, RequestInv,
              TablesRead, TablesMade
<1> QED
  BY <1>1, <1>2 DEF RestartInv

LEMMA RestartInvStep == RecoveryInv /\ RestartInv /\ [RecoveryNext]_rvars => RestartInv'
<1> SUFFICES ASSUME RecoveryInv, RestartInv, [RecoveryNext]_rvars PROVE RestartInv'
  OBVIOUS
<1>1. CASE Stop
  BY <1>1 DEF Stop, ProcessEnds, RestartInv
<1>2. CASE OpenDirectory
  <2>1. memTableQueue' = <<>>
    BY <1>2 DEF RecoveryInv, OpenDirectory
  <2> QED
    BY <1>2, <2>1, OpenDirectoryIndexesAll DEF OpenDirectory, RestartInv, LoadedInv
<1>3. CASE PushFromTransactionLog
  <2>1. status = "opening" /\ status' = "opening" /\ SSTableInv /\ LoadedInv /\ pc = "idle"
    BY <1>3 DEF PushFromTransactionLog, RestartInv, RecoveryInv, IdleInv
  <2>2. SSTableInv'
    BY <1>3, <2>1, IdleSSTables DEF PushFromTransactionLog, indexVars, dirVars, callVars
  <2> QED
    BY <1>3, <2>1, <2>2, PushLoads DEF RestartInv
<1>4. CASE Opened
  BY <1>4, OpenedContents DEF Opened, RestartInv
<1>5. CASE /\ status = "opening" /\ (\E i \in DOMAIN flushFutures : FlushJob(i))
           /\ UNCHANGED <<status, stops>>
  <2>1. status = "opening" /\ status' = "opening" /\ SSTableInv /\ LoadedInv /\ pc = "idle"
    BY <1>5 DEF RestartInv, RecoveryInv, IdleInv
  <2>2. UNCHANGED <<memTableQueue, indexVars, callVars, sst, txl>>
    BY <1>5 DEF FlushJob
  <2>3. SSTableInv'
    BY <2>1, <2>2, IdleSSTables DEF indexVars, callVars
  <2> QED
    BY <2>1, <2>2, <2>3 DEF RestartInv, LoadedInv
<1>6. CASE status = "up" /\ Next /\ UNCHANGED <<status, stops>>
  BY <1>6, UpContents DEF RestartInv
<1> QED
  BY <1>1, <1>2, <1>3, <1>4, <1>5, <1>6, StutterContents DEF RecoveryNext, Open

-----------------------------------------------------------------------------
(***************************************************************************)
(* What the directory gives back is what the queues hold.                  *)
(***************************************************************************)

LEMMA LogsReadBack ==
    ASSUME NEW c \in Seq(MemTables), NEW logs, NEW k,
           \A n \in DOMAIN logs : logs[n] \in Seq(Records),
           \A i, j \in DOMAIN c : i < j => c[i].log < c[j].log,
           \A i \in DOMAIN c : /\ c[i].log \in DOMAIN logs
                               /\ SameEntry(c[i].table, Replay(Readable(logs[c[i].log])), k),
           \A n \in DOMAIN logs : \E i \in DOMAIN c : c[i].log = n
    PROVE  NewestFile([n \in DOMAIN logs |-> Replay(Readable(logs[n]))], k) =
               Newest(TablesOf(c), k)
<1> DEFINE read == [n \in DOMAIN logs |-> Readable(logs[n])]
           d == [i \in DOMAIN c |-> [table |-> Replay(read[c[i].log]), log |-> c[i].log]]
<1>1. DOMAIN read = DOMAIN logs /\ \A n \in DOMAIN logs : read[n] = Readable(logs[n])
  OBVIOUS
<1>2. \A i \in DOMAIN c : c[i].log \in Nat /\ c[i].table \in TableSet
  <2>1. \A i \in DOMAIN c : c[i] \in MemTables
    OBVIOUS
  <2> QED
    BY <2>1 DEF MemTables
<1>3. /\ DOMAIN d = DOMAIN c
      /\ \A i \in DOMAIN c : d[i] = [table |-> Replay(read[c[i].log]), log |-> c[i].log]
      /\ \A i \in DOMAIN c : d[i].table = Replay(read[c[i].log]) /\ d[i].log = c[i].log
  OBVIOUS
<1> HIDE DEF read
<1>4. \A i \in DOMAIN c : Replay(read[c[i].log]) \in TableSet
  BY <1>1, ReadableType, ReplayType
<1>5. d \in Seq(MemTables) /\ Len(d) = Len(c)
  <2>1. \A i \in DOMAIN c : d[i] \in MemTables
    BY <1>2, <1>3, <1>4 DEF MemTables
  <2>2. DOMAIN c = 1 .. Len(c) /\ Len(c) \in Nat
    OBVIOUS
  <2>3. d = [i \in 1 .. Len(c) |-> d[i]]
    BY <2>2
  <2> HIDE DEF d
  <2> QED
    BY <2>1, <2>2, <2>3
<1> HIDE DEF d
<1>6. NewestFile([n \in DOMAIN read |-> Replay(read[n])], k) = Newest(TablesOf(d), k)
  <2>1. \A i, j \in DOMAIN d : i < j => d[i].log < d[j].log
    BY <1>3
  <2>2. \A i \in DOMAIN d : d[i].log \in DOMAIN read /\ d[i].table = Replay(read[d[i].log])
    BY <1>1, <1>3
  <2>3. \A n \in DOMAIN read : \E i \in DOMAIN d : d[i].log = n
    BY <1>1, <1>3
  <2> QED
    BY <1>5, <2>1, <2>2, <2>3, LoggedQueue
<1>7. [n \in DOMAIN read |-> Replay(read[n])] = [n \in DOMAIN logs |-> Replay(Readable(logs[n]))]
  BY <1>1
<1>8. /\ TablesOf(c) \in Seq(TableSet) /\ TablesOf(d) \in Seq(TableSet)
      /\ Len(TablesOf(c)) = Len(TablesOf(d)) /\ DOMAIN TablesOf(c) = DOMAIN c
      /\ \A i \in DOMAIN c : TablesOf(c)[i] = c[i].table /\ TablesOf(d)[i] = d[i].table
  BY <1>3, <1>5, RecordTables, TablesOfQueue
<1>9. \A i \in DOMAIN TablesOf(c) :
          /\ k \in DOMAIN TablesOf(c)[i] <=> k \in DOMAIN TablesOf(d)[i]
          /\ k \in DOMAIN TablesOf(c)[i] => TablesOf(c)[i][k] = TablesOf(d)[i][k]
  <2> SUFFICES ASSUME NEW i \in DOMAIN c
               PROVE  /\ k \in DOMAIN TablesOf(c)[i] <=> k \in DOMAIN TablesOf(d)[i]
                      /\ k \in DOMAIN TablesOf(c)[i] => TablesOf(c)[i][k] = TablesOf(d)[i][k]
    BY <1>8
  <2>1. TablesOf(c)[i] = c[i].table /\ TablesOf(d)[i] = d[i].table
    BY <1>8
  <2>2. d[i].table = Replay(Readable(logs[c[i].log]))
    BY <1>1, <1>3
  <2> QED
    BY <2>1, <2>2 DEF SameEntry
<1>10. Newest(TablesOf(c), k) = Newest(TablesOf(d), k)
  BY <1>8, <1>9, NewestSame
<1> QED
  BY <1>6, <1>7, <1>10

\* A key reads from the directory as it reads from the queues when they cover
\* the directory and no record of the key is missing.
LEMMA RecoveredIsView ==
    ASSUME TypeOK, IdInv, IndexMatchesFile, SSTableInv, ~InUpdate, NEW k,
           \A i, j \in DOMAIN memTableQueue :
               i < j => memTableQueue[i].log < memTableQueue[j].log,
           \A i \in DOMAIN memTableQueue :
               /\ memTableQueue[i].log \in DOMAIN txl
               /\ SameEntry(memTableQueue[i].table,
                            Replay(Readable(txl[memTableQueue[i].log])), k),
           \A n \in DOMAIN txl : \E i \in DOMAIN memTableQueue : memTableQueue[i].log = n
    PROVE  Recovered(k) = View(k)
<1>1. /\ indexQueue \in Seq(Indexes) /\ unindexed \in Seq(Indexes)
      /\ \A n \in DOMAIN txl : txl[n] \in Seq(Records)
  BY DEF TypeOK, SSTableIndexQueueTypeOK, DirectoryTypeOK, IsFiles
<1>2. PICK c \in Seq(MemTables), logs \in {txl} : c = memTableQueue /\ logs = txl
  BY DEF TypeOK, MemTableQueueTypeOK
<1>3. PICK q \in Seq(Indexes) : /\ q = indexQueue \o unindexed
                                /\ NewestFile(sst, k) = Newest(TablesOf(q), k)
  BY <1>1, FilesRead
<1>4. NewestFile([n \in DOMAIN logs |-> Replay(Readable(logs[n]))], k) = Newest(TablesOf(c), k)
  BY <1>1, <1>2, LogsReadBack
<1>5. NewestFile([n \in DOMAIN txl |-> Replay(Readable(txl[n]))], k) = Newest(TablesOf(c), k)
  BY <1>2, <1>4
<1>6. Newest(TablesOf(q \o c), k) =
           IF Newest(TablesOf(c), k) # Absent THEN Newest(TablesOf(c), k)
           ELSE Newest(TablesOf(q), k)
  BY QueuesRead
<1>7. View(k) = UnderlyingValue(Newest(TablesOf(q \o c), k))
  BY <1>2, <1>3 DEF View
<1>8. Recovered(k) =
           UnderlyingValue(IF Newest(TablesOf(c), k) # Absent THEN Newest(TablesOf(c), k)
                           ELSE Newest(TablesOf(q), k))
  BY <1>3, <1>5 DEF Recovered
<1> QED
  BY <1>6, <1>7, <1>8

LEMMA RecoveredFrame ==
    ASSUME UNCHANGED <<sst, txl>>, NEW k
    PROVE  Recovered(k)' = Recovered(k)
BY DEF Recovered, NewestFile

LEMMA StopReadsBack ==
    ASSUME RecoveryInv, RestartInv, status = "up", ~InUpdate, NEW k \in Keys, ~Unread(k)
    PROVE  Recovered(k) = View(k)
<1>1. IndInv /\ SSTableInv /\ ReadBackInv
  BY DEF RecoveryInv, RestartInv
<1>2. TypeOK /\ IdInv /\ IndexMatchesFile /\ LogInv
  BY <1>1 DEF IndInv
<1>3. ASSUME NEW i \in DOMAIN memTableQueue
      PROVE  /\ memTableQueue[i].log \in DOMAIN txl
             /\ SameEntry(memTableQueue[i].table, Replay(Readable(txl[memTableQueue[i].log])), k)
  <2>1. memTableQueue[i].log \in DOMAIN txl
    BY <1>2 DEF LogInv
  <2>2. ~UnreadIn(txl[memTableQueue[i].log], k)
    BY <2>1 DEF Unread
  <2>3. ReadBack(memTableQueue[i].table, txl[memTableQueue[i].log])
    BY <1>1 DEF ReadBackInv
  <2> QED
    BY <2>1, <2>2, <2>3 DEF ReadBack
<1> QED
  BY <1>1, <1>2, <1>3, RecoveredIsView DEF LogInv, ReadBackInv

LEMMA OpenedReadsBack ==
    ASSUME RecoveryInv, RestartInv, Opened, NEW k \in Keys
    PROVE  View(k)' = Recovered(k)
<1>1. /\ TypeOK /\ IdleInv /\ PushInv /\ LogsToPush = {} /\ IdInv /\ IndexMatchesFile
      /\ SSTableInv /\ LoadedInv
  BY DEF RecoveryInv, RecoveryTypeOK, RestartInv, Opened
<1>2. \A n \in DOMAIN txl : \E i \in DOMAIN memTableQueue : memTableQueue[i].log = n
  BY <1>1 DEF LogsToPush
<1>3. \A i \in DOMAIN memTableQueue :
          /\ memTableQueue[i].log \in DOMAIN txl
          /\ SameEntry(memTableQueue[i].table, Replay(Readable(txl[memTableQueue[i].log])), k)
  BY <1>1 DEF PushInv, LoadedInv, SameEntry
<1>4. ~InUpdate
  BY <1>1 DEF IdleInv, InUpdate
<1>5. Recovered(k) = View(k)
  BY <1>1, <1>2, <1>3, <1>4, RecoveredIsView DEF PushInv
<1>6. UNCHANGED <<memTableQueue, indexQueue, unindexed>>
  BY DEF Opened, indexVars, callVars
<1> QED
  BY <1>5, <1>6 DEF View

-----------------------------------------------------------------------------
(***************************************************************************)
(* Theorems.                                                               *)
(***************************************************************************)

\* However often and wherever a process stops, init builds queues and counters
\* from the files it finds in which all that ProjectDb relies on holds.
THEOREM RecoveryInvariance == RecoverySpec => []RecoveryInv
BY InitStep, RecoveryInvStep, PTL DEF RecoverySpec

\* In a database opened on what any stopped process has left, each index
\* describes its file, each future belongs to its MemTable, a table being
\* flushed is not written to, and a compaction stays in its range.
THEOREM RestartedDatabaseIsSafe ==
    RecoverySpec => [](status = "up" => /\ IndexMatchesFile
                                        /\ FuturesMatchQueue
                                        /\ FlushedTableIsFrozen
                                        /\ FileOrderIsQueueOrder
                                        /\ CompactionRangeValid)
<1>1. RecoveryInv /\ status = "up" => IndInv
  BY DEF RecoveryInv
<1>2. IndInv => IndexMatchesFile /\ FuturesMatchQueue /\ FlushedTableIsFrozen
  BY DEF IndInv
<1> QED
  BY <1>1, <1>2, CompactionRangeFromInvariant, FileOrderFromInvariant, RecoveryInvariance, PTL

\* The queues always cover the directory, and the MemTables hold what their
\* logs give back: the ground on which nothing is lost between two processes.
THEOREM RestartInvariance == RecoverySpec => []RestartInv
<1>1. RecoveryInit => RestartInv
  BY DEF RecoveryInit, RestartInv
<1> QED
  BY <1>1, InitStep, RecoveryInvStep, RestartInvStep, PTL DEF RecoverySpec

\* Every SSTable of an open database has its index, or is one the destructor
\* has just made, and every log has its MemTable, whatever process left them.
THEOREM NoFileIsForgotten == RecoverySpec => []EveryFileIsKnown
<1>1. RecoveryInv /\ RestartInv => EveryFileIsKnown
  <2> SUFFICES ASSUME RecoveryInv, RestartInv, status = "up", ~InUpdate
               PROVE  /\ DOMAIN sst = {indexQueue[i].id : i \in DOMAIN indexQueue}
                                          \cup {unindexed[i].id : i \in DOMAIN unindexed}
                      /\ DOMAIN txl = {memTableQueue[i].log : i \in DOMAIN memTableQueue}
    BY DEF EveryFileIsKnown
  <2>1. IndexMatchesFile /\ LogInv /\ SSTableInv /\ ReadBackInv
    BY DEF RecoveryInv, RestartInv, IndInv
  <2>2. Deprecated = {} /\ Activated = {}
    BY DEF InUpdate, Deprecated, Activated
  <2>3. /\ \A i \in DOMAIN indexQueue : indexQueue[i].id \in DOMAIN sst
        /\ \A i \in DOMAIN unindexed : unindexed[i].id \in DOMAIN sst
        /\ \A n \in DOMAIN sst : \/ \E i \in DOMAIN indexQueue : indexQueue[i].id = n
                                 \/ \E i \in DOMAIN unindexed : unindexed[i].id = n
    BY <2>1, <2>2 DEF IndexMatchesFile, SSTableInv
  <2>4. /\ \A i \in DOMAIN memTableQueue : memTableQueue[i].log \in DOMAIN txl
        /\ \A n \in DOMAIN txl : \E i \in DOMAIN memTableQueue : memTableQueue[i].log = n
    BY <2>1 DEF LogInv, ReadBackInv
  <2> QED
    BY <2>3, <2>4
<1> QED
  BY <1>1, RecoveryInvariance, RestartInvariance, PTL

\* Wherever a process stops outside update, the directory gives back all it
\* held but the keys whose records are not read back.
THEOREM ReadableKeysSurvive == RecoverySpec => StopKeepsReadableKeys
<1>1. RecoveryInv /\ RestartInv /\ [RecoveryNext]_rvars =>
          (status = "up" /\ status' = "down" /\ ~InUpdate =>
               \A k \in Keys : Unread(k) \/ Recovered(k)' = View(k))
  <2> SUFFICES ASSUME RecoveryInv, RestartInv, [RecoveryNext]_rvars,
                      status = "up", status' = "down", ~InUpdate, NEW k \in Keys, ~Unread(k)
               PROVE  Recovered(k)' = View(k)
    OBVIOUS
  <2>1. Stop
    BY DEF RecoveryNext, rvars, Open, OpenDirectory, PushFromTransactionLog, Opened
  <2>2. UNCHANGED <<sst, txl>>
    BY <2>1 DEF Stop, ProcessEnds, dirVars
  <2> QED
    BY <2>2, RecoveredFrame, StopReadsBack
<1> QED
  BY <1>1, RecoveryInvariance, RestartInvariance, PTL DEF RecoverySpec, StopKeepsReadableKeys

\* init changes nothing of what the directory holds, however often it is
\* stopped and started again.
THEOREM OpeningIsLossless == RecoverySpec => OpeningKeepsContents
<1>1. ASSUME RecoveryInv, RestartInv, [RecoveryNext]_rvars, status # "up", NEW k \in Keys
      PROVE  Holds(k)' = Holds(k)
  <2>1. Holds(k) = Recovered(k)
    BY <1>1 DEF Holds
  <2>2. CASE Opened
    BY <1>1, <2>1, <2>2, OpenedReadsBack DEF Opened, Holds
  <2>3. CASE ~Opened
    <3>1. status' # "up" /\ UNCHANGED <<sst, txl>>
      BY <1>1, <2>3 DEF RecoveryNext, rvars, vars, Stop, ProcessEnds, Open, OpenDirectory,
                        PushFromTransactionLog, FlushJob, dirVars
    <3> QED
      BY <2>1, <3>1, RecoveredFrame DEF Holds
  <2> QED
    BY <2>2, <2>3
<1>2. RecoveryInv /\ RestartInv /\ [RecoveryNext]_rvars =>
          (status # "up" => \A k \in Keys : Holds(k)' = Holds(k))
  BY <1>1
<1> QED
  BY <1>2, RecoveryInvariance, RestartInvariance, PTL DEF RecoverySpec, OpeningKeepsContents

-----------------------------------------------------------------------------
(***************************************************************************)
(* A restarted database as a store.                                        *)
(***************************************************************************)

LEMMA UpNext ==
    ASSUME RecoveryInv, [RecoveryNext]_rvars, status = "up", status' = "up"
    PROVE  [Next]_vars /\ IndInv
BY DEF RecoveryInv, RecoveryNext, rvars, Stop, ProcessEnds, Open, OpenDirectory,
       PushFromTransactionLog, Opened

\* In a database opened on whatever was left behind, values keep being read, get
\* answers with what is held and writes take effect once; only removed keys
\* may come back.
THEOREM RestartedStoreLosesNoValue ==
    RecoverySpec =>
        [][status = "up" /\ status' = "up" =>
               [KV!Next \/ KV!Reappear]_<<Contents, Unanswered, reply>>]_rvars
<1>1. ASSUME RecoveryInv, RestartInv, [RecoveryNext]_rvars, status = "up", status' = "up"
      PROVE  [KV!Next \/ KV!Reappear]_<<Contents, Unanswered, reply>>
  <2>1. [Next]_vars /\ IndInv /\ ContentsInv
    BY <1>1, UpNext DEF RestartInv
  <2> QED
    BY <2>1, StoreStep, CompactedStep
<1> QED
  BY <1>1, RecoveryInvariance, RestartInvariance, PTL DEF RecoverySpec

LEMMA RestartStartsAtOldest ==
    RecoveryInv /\ StartsAtOldest /\ SingleResult /\ [RecoveryNext]_rvars => StartsAtOldest'
<1> SUFFICES ASSUME RecoveryInv, StartsAtOldest, SingleResult, [RecoveryNext]_rvars
             PROVE  StartsAtOldest'
  OBVIOUS
<1>1. CASE status = "up" /\ status' = "up"
  BY <1>1, UpNext, StartsAtOldestStep
<1>2. CASE Stop
  BY <1>2 DEF Stop, ProcessEnds, StartsAtOldest
<1>3. CASE status # "up" /\ ~Stop
  BY <1>3 DEF RecoveryNext, rvars, vars, Open, OpenDirectory, PushFromTransactionLog, Opened,
              FlushJob, indexVars, StartsAtOldest
<1>4. status = "up" => status' = "up" \/ Stop
  BY DEF RecoveryNext, rvars, Open, OpenDirectory, PushFromTransactionLog, Opened
<1> QED
  BY <1>1, <1>2, <1>3, <1>4

\* As long as each compaction makes one table, a database opened on whatever
\* was left behind is the store that projectdb.h describes.
THEOREM RestartedStore == RecoverySpec /\ []SingleResult => RestartedStoreWorks
<1>1. ASSUME RecoveryInv, RestartInv, StartsAtOldest, SingleResult, [RecoveryNext]_rvars,
             status = "up", status' = "up"
      PROVE  [KV!Next]_<<Contents, Unanswered, reply>>
  BY <1>1, UpNext, SingleResultStep DEF RestartInv
<1>2. RecoveryInit => StartsAtOldest
  BY DEF RecoveryInit, Init, SSTableIndexQueueInit, StartsAtOldest
<1> QED
  BY <1>1, <1>2, RestartStartsAtOldest, RecoveryInvariance, RestartInvariance, PTL
     DEF RecoverySpec, RestartedStoreWorks

LEMMA RestartOneGroup ==
    ASSUME NEW largest \in Nat, RangesFit(largest), RecoveryInv, OneGroup(largest),
           [RecoveryNext]_rvars
    PROVE  OneGroup(largest)'
<1>1. CASE status = "up" /\ status' = "up"
  BY <1>1, UpNext, OneGroupStep
<1>2. CASE Stop
  BY <1>2 DEF Stop, ProcessEnds, NoCompaction, OneGroup
<1>3. CASE status # "up" /\ ~Stop
  <2>1. UNCHANGED <<compaction, compactionStartIndex>>
    BY <1>3 DEF RecoveryNext, rvars, vars, Open, OpenDirectory, PushFromTransactionLog, Opened,
                FlushJob, indexVars
  <2> QED
    BY <2>1 DEF OneGroup
<1>4. status = "up" => status' = "up" \/ Stop
  BY DEF RecoveryNext, rvars, Open, OpenDirectory, PushFromTransactionLog, Opened
<1> QED
  BY <1>1, <1>2, <1>3, <1>4

\* Where no range of tables can outgrow the largest SSTable, that is so without
\* a further condition, through any number of stops.
THEOREM RestartedStoreOfFittingRanges ==
    ASSUME NEW largest \in Nat, RangesFit(largest)
    PROVE  RecoverySpec => RestartedStoreWorks
<1>1. RecoveryInit => OneGroup(largest)
  BY DEF RecoveryInit, Init, SSTableIndexQueueInit, NoCompaction, OneGroup
<1>2. RecoveryInv /\ OneGroup(largest) /\ [RecoveryNext]_rvars => OneGroup(largest)'
  BY RestartOneGroup
<1>3. OneGroup(largest) => SingleResult
  BY OneGroupIsSingle
<1> QED
  BY <1>1, <1>2, <1>3, RecoveryInvariance, RestartedStore, PTL DEF RecoverySpec
-----------------------------------------------------------------------------
\* The errors.

\* A call that throws where checkFutures or write does: only the call ends.
LEMMA ThrowStep ==
    RecoveryInv /\ Throw /\ pc \in {"compaction", "flushes", "apply"} => RecoveryInv'
<1> SUFFICES ASSUME RecoveryInv, Throw, pc \in {"compaction", "flushes", "apply"}
             PROVE  RecoveryInv'
  OBVIOUS
<1>a. RecoveryTypeOK /\ IsFiniteSet(DOMAIN sst) /\ status = "up" /\ IndInv
  BY DEF RecoveryInv, Throw
<1>b. /\ memTableQueue' = memTableQueue /\ flushFutures' = flushFutures
      /\ sstCounter' = sstCounter /\ txlCounter' = txlCounter
      /\ indexQueue' = indexQueue /\ compactionStartIndex' = compactionStartIndex
      /\ compaction' = compaction
      /\ sst' = sst /\ inProgress' = inProgress /\ merged' = merged /\ txl' = txl
      /\ deprecated' = deprecated /\ cursor' = cursor /\ reply' = reply /\ writes' = writes
      /\ unindexed' = unindexed /\ status' = status /\ stops' = stops
      /\ pc' = "idle" /\ call' = NoCall
  BY DEF Throw, Return, memVars, indexVars, dirVars
<1>1. TypeOK'
  <2>1. DirectoryTypeOK'
    BY <1>a, <1>b DEF RecoveryTypeOK, TypeOK, DirectoryTypeOK
  <2>2. MemTableQueueTypeOK'
    BY <1>a, <1>b DEF RecoveryTypeOK, TypeOK, MemTableQueueTypeOK
  <2>3. SSTableIndexQueueTypeOK'
    BY <1>a, <1>b DEF RecoveryTypeOK, TypeOK, SSTableIndexQueueTypeOK
  <2>4. call' \in Calls
    BY <1>b DEF NoCall, Calls
  <2> QED
    BY <1>a, <1>b, <2>1, <2>2, <2>3, <2>4 DEF RecoveryTypeOK, TypeOK
<1>2. CallInv'
  <2>1. call'.op = "none"
    BY <1>b DEF NoCall
  <2>2. unindexed = <<>>
    BY <1>a DEF IndInv, CallInv
  <2> QED
    BY <1>b, <2>1, <2>2 DEF CallInv
<1>3. FuturesMatchQueue' /\ FlushedTableIsFrozen' /\ LogInv'
  BY <1>a, <1>b DEF IndInv, FuturesMatchQueue, FlushedTableIsFrozen, LogInv
<1>4. FirstPending' = FirstPending /\ ~InUpdate /\ Activated' = Activated
  BY <1>b DEF FirstPending, InUpdate, Activated
<1>5. IdInv' /\ InProgressInv'
  BY <1>a, <1>b, <1>4 DEF IndInv, IdInv, InProgressInv
<1>6. IndexMatchesFile'
  BY <1>a, <1>b, <1>4 DEF IndInv, IndexMatchesFile
<1>7. NoCompactionInFlushes'
  BY <1>b DEF NoCompactionInFlushes
<1>8. ProgressInv' /\ ResultInv'
  BY <1>a, <1>b DEF IndInv, ProgressInv, ResultInv, ReadSoFar
<1>9. UpdateInv'
  BY <1>a, <1>b, <1>4 DEF IndInv, UpdateInv, InUpdate
<1> QED
  BY <1>a, <1>b, <1>1, <1>2, <1>3, <1>5, <1>6, <1>7, <1>8, <1>9
     DEF RecoveryInv, RecoveryTypeOK, IndInv

\* A call that throws is in checkFutures or in its own work.
ThrowsOut == Throw /\ pc \in {"compaction", "flushes", "apply"}

\* With errors, a step is a step of Recovery, or a call throws, or the destructor
\* does.
LEMMA FailureCases ==
    ASSUME RecoveryInv, [FailureNext]_fvars
    PROVE  [RecoveryNext]_rvars \/ ThrowsOut \/ Terminate
<1>1. CASE UNCHANGED fvars
  BY <1>1 DEF fvars
<1>2. CASE FlushFails \/ RenameFails \/ CompactionFails \/ LogFails
  BY <1>2 DEF FlushFails, RenameFails, CompactionFails, LogFails
<1>3. CASE Throws \/ ReadThrows \/ LaunchThrows
  BY <1>3 DEF Throws, FlushThrows, CompactionThrows, WriteThrows, Writing, ReadThrows,
              LaunchThrows, ThrowsOut
<1>4. CASE SoundFlushJob
  <2>1. status \in {"opening", "up"}
    BY <1>4 DEF SoundFlushJob, RecoveryInv, RecoveryTypeOK
  <2>2. (\E i \in DOMAIN flushFutures : FlushJob(i)) /\ UNCHANGED <<status, stops>>
    BY <1>4 DEF SoundFlushJob
  <2> QED
    BY <2>1, <2>2 DEF RecoveryNext, Next
<1>5. CASE status = "up" /\ (Client \/ Closed) /\ UNCHANGED <<status, stops>>
  BY <1>5 DEF RecoveryNext, Next
<1>6. CASE SoundCallStep
  BY <1>6 DEF SoundCallStep, RecoveryNext, Next
<1>7. CASE SoundCompaction
  BY <1>7 DEF SoundCompaction, RecoveryNext, Next
<1>8. CASE Stop \/ Open
  BY <1>8 DEF RecoveryNext
<1> QED
  BY <1>1, <1>2, <1>3, <1>4, <1>5, <1>6, <1>7, <1>8 DEF FailureNext

LEMMA TerminateStep == RecoveryInv /\ Terminate => RecoveryInv'
<1>1. RecoveryInv => stops \in Nat
  BY DEF RecoveryInv, RecoveryTypeOK
<1> QED
  BY <1>1, EndStep DEF Terminate

LEMMA FailureStep == RecoveryInv /\ [FailureNext]_fvars => RecoveryInv'
BY FailureCases, RecoveryInvStep, ThrowStep, TerminateStep DEF ThrowsOut

-----------------------------------------------------------------------------
\* Nor does an error take anything from what a restart finds.

LEMMA ThrowsOutContents ==
    ASSUME RecoveryInv, RestartInv, ThrowsOut
    PROVE  /\ SSTableInv' /\ ReadBackInv' /\ ContentsInv'
           /\ status = "up" /\ status' = "up"
           /\ UNCHANGED <<Contents, reply>>
           /\ Unanswered # NoCall /\ Unanswered' = NoCall
<1>1. IndInv /\ SSTableInv /\ ReadBackInv /\ ContentsInv /\ status = "up" /\ status' = "up"
  BY DEF ThrowsOut, Throw, RecoveryInv, RestartInv
<1>2. /\ UNCHANGED <<memVars, indexVars, dirVars, reply, unindexed>>
      /\ pc \in {"compaction", "flushes", "apply"} /\ pc' = "idle" /\ call' = NoCall
  BY DEF ThrowsOut, Throw, Return
<1>3. SSTableInv'
  BY <1>1, <1>2 DEF indexVars, dirVars, memVars, SSTableInv, Deprecated, Activated
<1>4. ReadBackInv'
  BY <1>1, <1>2 DEF memVars, dirVars, ReadBackInv
<1>5. ContentsInv'
  BY <1>1, <1>2 DEF ContentsInv, MergeInv, FlushedInv, RequestInv, TablesRead, TablesMade,
                    indexVars, NoCall
<1>6. UNCHANGED Contents
  BY <1>2 DEF Contents, View, memVars, indexVars
<1>7. Unanswered = UnansweredOf(pc, call)
  BY <1>1, UnansweredIs DEF ContentsInv
<1>8. Unanswered' = NoCall
  BY <1>2, DataAssumption DEF Unanswered, UnderlyingValue, NoCall
<1>9. call.op \in {"get", "set", "remove"}
  BY <1>1, <1>2 DEF IndInv, CallInv, TypeOK, Calls
<1> QED
  BY <1>1, <1>2, <1>3, <1>4, <1>5, <1>6, <1>7, <1>8, <1>9 DEF UnansweredOf, NoCall

LEMMA FailureRestartInvStep == RecoveryInv /\ RestartInv /\ [FailureNext]_fvars => RestartInv'
<1> SUFFICES ASSUME RecoveryInv, RestartInv, [FailureNext]_fvars PROVE RestartInv'
  OBVIOUS
<1>1. CASE ThrowsOut
  BY <1>1, ThrowsOutContents DEF RestartInv
<1>2. CASE Terminate
  BY <1>2 DEF Terminate, ProcessEnds, RestartInv
<1> QED
  BY <1>1, <1>2, FailureCases, RestartInvStep

-----------------------------------------------------------------------------
\* A failed job stands in the way.

\* The error of a job is thrown.
JobThrows == FlushThrows \/ CompactionThrows

\* Where the calling thread can be after that.
StandingFlush ==
    /\ OldestFlushFailed /\ compaction.stage = "none"
    /\ pc \in {"idle", "compaction", "flushes", "close"}

StandingCompaction ==
    /\ compactionFailed
    /\ pc \in {"idle", "compaction", "close"} \/ (pc = "pop" /\ call.op = "close")

LEMMA ReportedIs ==
    ReportedInv <=>
        /\ compactionFailed => compaction.stage \notin {"none", "ready"}
        /\ reported => status = "up" /\ (StandingFlush \/ StandingCompaction)
BY DEF ReportedInv, StandingFlush, StandingCompaction

LEMMA JobThrowsStands ==
    ASSUME RecoveryInv, ReportedInv, JobThrows
    PROVE  ReportedInv'
<1>1. /\ UNCHANGED <<flushFutures, compaction, failedJobs, compactionFailed, status>>
      /\ pc' = "idle" /\ status = "up"
  BY DEF JobThrows, FlushThrows, CompactionThrows, Throw, Return, memVars, indexVars
<1>2. IndInv
  BY <1>1 DEF RecoveryInv
<1>3. CASE FlushThrows
  <2>1. compaction.stage = "none" /\ OldestFlushFailed
    BY <1>2, <1>3 DEF FlushThrows, IndInv, CallInv, NoCompactionInFlushes
  <2> QED
    BY <1>1, <2>1 DEF ReportedInv, OldestFlushFailed
<1>4. CASE CompactionThrows
  BY <1>1, <1>4 DEF CompactionThrows, ReportedInv
<1> QED
  BY <1>3, <1>4 DEF JobThrows

\* A flush job keeps the counter of its file.
LEMMA FlushJobKeepsIds ==
    ASSUME flushFutures \in Seq(FlushJobs), NEW i \in DOMAIN flushFutures, FlushJob(i)
    PROVE  OldestFlushFailed /\ failedJobs' = failedJobs => OldestFlushFailed'
<1>1. PICK stage \in {"writing", "ready"} :
          flushFutures' = [flushFutures EXCEPT ![i].stage = stage]
  BY DEF FlushJob, FlushBegin, FlushFinish
<1>2. flushFutures[i] \in FlushJobs
  OBVIOUS
<1>3. [flushFutures[i] EXCEPT !.stage = stage].id = flushFutures[i].id
  BY <1>2 DEF FlushJobs
<1>4. Len(flushFutures') = Len(flushFutures) /\ DOMAIN flushFutures' = DOMAIN flushFutures
  BY <1>1
<1>5. \A j \in DOMAIN flushFutures : flushFutures'[j].id = flushFutures[j].id
  BY <1>1, <1>3
<1>6. flushFutures # <<>> => /\ 1 \in DOMAIN flushFutures /\ flushFutures' # <<>>
                             /\ Head(flushFutures) = flushFutures[1]
                             /\ Head(flushFutures') = flushFutures'[1]
  BY <1>1
<1> QED
  BY <1>5, <1>6 DEF OldestFlushFailed

\* While the error of a flush job stands, a call gets to that job and no further.
LEMMA StandingFlushStep ==
    ASSUME IndInv, status = "up", StandingFlush,
           \/ (Client \/ Closed)
           \/ SoundCallStep \/ SoundFlushJob \/ SoundCompaction,
           failedJobs' = failedJobs
    PROVE  StandingFlush'
<1>1. flushFutures \in Seq(FlushJobs)
  BY IdTypes
<1>2. CASE Client \/ Closed
  <2>1. UNCHANGED <<flushFutures, compaction>> /\ pc' \in {pc, "compaction", "close"}
    BY <1>2 DEF Client, CallGet, CallSet, CallRemove, CallClose, Enter, Closed, vars, memVars,
                indexVars, callVars
  <2> QED
    BY <2>1 DEF StandingFlush, OldestFlushFailed
<1>3. CASE SoundCallStep
  <2>1. NoCompactionToCheck
    BY <1>3 DEF SoundCallStep, StandingFlush, CallStep, CheckFutures, CompactionRunning,
                CompactionReady, DeprecateNext, ActivateNext, ActivateLast, FlushReady, PopMemTable,
                FlushesChecked, Get, FirstMemTable, Write, Roll, CloseFlush, CloseDone,
                OldestFlushFailed
  <2> QED
    BY <2>1 DEF NoCompactionToCheck, memVars, indexVars, StandingFlush, OldestFlushFailed
<1>4. CASE SoundFlushJob
  <2>1. PICK i \in DOMAIN flushFutures : FlushJob(i)
    BY <1>4 DEF SoundFlushJob
  <2>2. UNCHANGED <<compaction, pc>>
    BY <2>1 DEF FlushJob, indexVars, callVars
  <2> QED
    BY <1>1, <2>1, <2>2, FlushJobKeepsIds DEF StandingFlush
<1>5. ~SoundCompaction
  BY DEF StandingFlush, SoundCompaction, CompactionStep, CompactionJob, CompactionBegin,
         CompactionMerge, CompactionFlushBegin, CompactionFlushFinish
<1> QED
  BY <1>2, <1>3, <1>4, <1>5

\* While the error of the compaction stands, only the destructor gets by.
LEMMA StandingCompactionStep ==
    ASSUME IndInv, status = "up", StandingCompaction,
           compaction.stage \notin {"none", "ready"},
           \/ (Client \/ Closed)
           \/ SoundCallStep \/ SoundFlushJob \/ SoundCompaction,
           compactionFailed' = compactionFailed
    PROVE  StandingCompaction' /\ compaction' = compaction
<1>2. CASE Client \/ Closed
  BY <1>2 DEF StandingCompaction, Client, CallGet, CallSet, CallRemove, CallClose, Enter, Closed,
              vars, indexVars, callVars
<1>3. CASE SoundCallStep
  <2>1. CloseFlush \/ PopMemTable
    BY <1>3 DEF SoundCallStep, StandingCompaction, CallStep, CheckFutures, NoCompactionToCheck,
                CompactionRunning, CompactionReady, DeprecateNext, ActivateNext, ActivateLast,
                FlushReady, FlushesChecked, Get, FirstMemTable, Write, Roll, CloseDone
  <2>2. pc = "close" => call.op = "close"
    BY DEF IndInv, CallInv
  <2> QED
    BY <2>1, <2>2 DEF StandingCompaction, CloseFlush, PopMemTable, indexVars
<1>4. CASE SoundFlushJob
  <2>1. PICK i \in DOMAIN flushFutures : FlushJob(i)
    BY <1>4 DEF SoundFlushJob
  <2> QED
    BY <2>1 DEF FlushJob, indexVars, callVars, StandingCompaction
<1>5. ~SoundCompaction
  BY DEF StandingCompaction, SoundCompaction
<1> QED
  BY <1>2, <1>3, <1>4, <1>5

\* A failed compaction job goes no further, and update does not take it.
LEMMA FailedCompactionStays ==
    ASSUME IndInv, compaction.stage \notin {"none", "ready"}, compactionFailed,
           \/ (Client \/ Closed)
           \/ SoundCallStep \/ SoundFlushJob \/ SoundCompaction
    PROVE  compaction' = compaction
<1>1. CASE Client \/ Closed
  BY <1>1 DEF Client, CallGet, CallSet, CallRemove, CallClose, Enter, Closed, vars, indexVars
<1>2. CASE SoundCallStep
  <2>1. ~ActivateLast
    BY DEF ActivateLast, IndInv, UpdateInv, InUpdate
  <2>2. ~FlushesChecked
    BY DEF FlushesChecked, IndInv, NoCompactionInFlushes, CallInv
  <2> QED
    BY <1>2, <2>1, <2>2
       DEF SoundCallStep, CallStep, CheckFutures, NoCompactionToCheck, CompactionRunning,
           CompactionReady, DeprecateNext, ActivateNext, FlushReady, PopMemTable, Get,
           FirstMemTable, Write, Roll, CloseFlush, CloseDone, indexVars
<1>3. CASE SoundFlushJob
  BY <1>3 DEF SoundFlushJob, FlushJob, indexVars
<1>4. ~SoundCompaction
  BY DEF SoundCompaction
<1> QED
  BY <1>1, <1>2, <1>3, <1>4

LEMMA ReportedInvStep == RecoveryInv /\ ReportedInv /\ [FailureNext]_fvars => ReportedInv'
<1> SUFFICES ASSUME RecoveryInv, ReportedInv, [FailureNext]_fvars PROVE ReportedInv'
  OBVIOUS
<1>1. CASE UNCHANGED fvars
  BY <1>1 DEF fvars, rvars, vars, memVars, indexVars, callVars, failureVars, ReportedInv,
              OldestFlushFailed
<1>2. CASE (Stop /\ NoFailures) \/ Terminate
  BY <1>2 DEF Terminate, NoFailures, ReportedInv
<1>3. CASE Open /\ UNCHANGED failureVars
  <2>1. compaction' = compaction /\ status # "up"
    BY <1>3 DEF Open, OpenDirectory, PushFromTransactionLog, Opened, indexVars
  <2> QED
    BY <1>3, <2>1 DEF failureVars, ReportedInv
<1>4. CASE \/ status = "up" /\ (Client \/ Closed) /\ UNCHANGED <<status, stops, failureVars>>
           \/ SoundCallStep \/ SoundFlushJob \/ SoundCompaction
  <2>1. UNCHANGED <<status, failedJobs, compactionFailed, reported>>
    BY <1>4 DEF SoundCallStep, SoundFlushJob, SoundCompaction, failureVars
  <2>2. CASE ~reported /\ ~compactionFailed
    BY <2>1, <2>2 DEF ReportedInv
  <2>3. CASE status # "up" /\ compactionFailed
    <3>1. SoundFlushJob
      BY <1>4, <2>3 DEF SoundCallStep, SoundCompaction
    <3>2. compaction' = compaction
      BY <3>1 DEF SoundFlushJob, FlushJob, indexVars
    <3> QED
      BY <2>1, <2>3, <3>2 DEF ReportedInv
  <2>4. CASE status = "up"
    <3>1. IndInv /\ ((Client \/ Closed) \/ SoundCallStep \/ SoundFlushJob \/ SoundCompaction)
      BY <1>4, <2>4 DEF RecoveryInv
    <3>2. compactionFailed => compaction.stage \notin {"none", "ready"} /\ compaction' = compaction
      BY <3>1, FailedCompactionStays DEF ReportedInv
    <3>3. reported /\ StandingFlush => StandingFlush'
      BY <2>1, <2>4, <3>1, StandingFlushStep
    <3>4. reported /\ StandingCompaction => StandingCompaction'
      BY <2>1, <2>4, <3>1, <3>2, StandingCompactionStep DEF StandingCompaction
    <3>5. reported => StandingFlush' \/ StandingCompaction'
      BY <3>3, <3>4, ReportedIs
    <3> QED
      BY <2>1, <2>4, <3>2, <3>5 DEF ReportedInv, StandingFlush, StandingCompaction
  <2> QED
    BY <2>2, <2>3, <2>4 DEF ReportedInv
<1>5. CASE FlushFails \/ RenameFails \/ CompactionFails \/ LogFails
  <2>1. /\ UNCHANGED <<flushFutures, compaction, pc, call, status, reported>>
        /\ failedJobs \subseteq failedJobs'
        /\ compactionFailed => compactionFailed'
        /\ compactionFailed' => compactionFailed \/ compaction.stage \notin {"none", "ready"}
    BY <1>5 DEF FlushFails, RenameFails, CompactionFails, LogFails, rvars, vars, memVars, indexVars,
                callVars
  <2> QED
    BY <2>1 DEF ReportedInv, OldestFlushFailed
<1>6. CASE JobThrows
  BY <1>6, JobThrowsStands
<1>7. CASE WriteThrows \/ ReadThrows \/ LaunchThrows
  <2>1. ~reported
    BY <1>7 DEF WriteThrows, Writing, ReadThrows, LaunchThrows, ReportedInv
  <2>2. UNCHANGED <<compaction, compactionFailed, reported>>
    BY <1>7 DEF WriteThrows, ReadThrows, LaunchThrows, Throw, indexVars
  <2> QED
    BY <2>1, <2>2 DEF ReportedInv
<1> QED
  BY <1>1, <1>2, <1>3, <1>4, <1>5, <1>6, <1>7 DEF FailureNext, Throws, JobThrows

-----------------------------------------------------------------------------
(***************************************************************************)
(* Theorems about the errors of FailureSpec, in any number and any order:  *)
(* a flush or compaction job that fails, a flushed file that cannot be     *)
(* renamed, a log that cannot be written, a read that finds no file, and a *)
(* compaction that gets no thread.  None of them speaks of a flush job     *)
(* that gets no thread, which breaks the invariant (LaunchFailureSpec), or *)
(* of a renaming that throws inside update.                                *)
(***************************************************************************)

\* With these errors, and whenever the process ends over one: the futures stay
\* those of the MemTables, the indexes those of the files, every MemTable keeps
\* its log, and init starts from a directory it can read.
THEOREM ErrorsKeepTheInvariant == FailureSpec => []RecoveryInv
<1>1. FailureInit => RecoveryInv
  BY InitStep DEF FailureInit
<1> QED
  BY <1>1, FailureStep, PTL DEF FailureSpec

\* Nor do these errors take anything from what the files hold: the queues cover
\* the directory, and a MemTable has what its log gives back, but for keys with
\* records that are not read back.
THEOREM ErrorsKeepTheFiles == FailureSpec => []RestartInv
<1>1. FailureInit => RestartInv
  BY DEF FailureInit, RecoveryInit, RestartInv
<1> QED
  BY <1>1, FailureRestartInvStep, ErrorsKeepTheInvariant, PTL DEF FailureSpec

\* After such errors a process that stops outside update, or terminates, gives
\* back what one without errors does: each key without an unread record.
THEOREM ReadableKeysSurviveErrors == FailureSpec => StopKeepsReadableKeys
<1>1. ASSUME RecoveryInv, RestartInv, [FailureNext]_fvars,
             status = "up", status' = "down", ~InUpdate, NEW k \in Keys, ~Unread(k)
      PROVE  Recovered(k)' = View(k)
  <2>1. CASE Terminate
    <3>1. UNCHANGED <<sst, txl>>
      BY <2>1 DEF Terminate, ProcessEnds, dirVars
    <3> QED
      BY <1>1, <3>1, RecoveredFrame, StopReadsBack
  <2>2. ~ThrowsOut
    BY <1>1 DEF ThrowsOut, Throw
  <2>3. CASE [RecoveryNext]_rvars
    <3>1. Stop
      BY <1>1, <2>3 DEF RecoveryNext, rvars, Open, OpenDirectory, PushFromTransactionLog, Opened
    <3>2. UNCHANGED <<sst, txl>>
      BY <3>1 DEF Stop, ProcessEnds, dirVars
    <3> QED
      BY <1>1, <3>2, RecoveredFrame, StopReadsBack
  <2> QED
    BY <1>1, <2>1, <2>2, <2>3, FailureCases
<1>2. RecoveryInv /\ RestartInv /\ [FailureNext]_fvars =>
          (status = "up" /\ status' = "down" /\ ~InUpdate =>
               \A k \in Keys : Unread(k) \/ Recovered(k)' = View(k))
  BY <1>1
<1> QED
  BY <1>2, ErrorsKeepTheInvariant, ErrorsKeepTheFiles, PTL DEF FailureSpec, StopKeepsReadableKeys

LEMMA FailureStartsAtOldest ==
    RecoveryInv /\ StartsAtOldest /\ SingleResult /\ [FailureNext]_fvars => StartsAtOldest'
<1>1. ThrowsOut => UNCHANGED compactionStartIndex
  BY DEF ThrowsOut, Throw, indexVars
<1>2. Terminate => compactionStartIndex' = 0
  BY DEF Terminate, ProcessEnds
<1> QED
  BY <1>1, <1>2, FailureCases, RestartStartsAtOldest DEF StartsAtOldest

LEMMA FailureStoreStep ==
    ASSUME RecoveryInv, RestartInv, [FailureNext]_fvars, status = "up", status' = "up"
    PROVE  /\ [KV!Next \/ KV!Fail \/ KV!Reappear]_<<Contents, Unanswered, reply>>
           /\ StartsAtOldest /\ SingleResult =>
                  [KV!Next \/ KV!Fail]_<<Contents, Unanswered, reply>>
<1>1. CASE ThrowsOut
  <2>1. /\ Unanswered # NoCall /\ Unanswered' = NoCall
        /\ UNCHANGED <<Contents, reply>>
    BY <1>1, ThrowsOutContents
  <2> QED
    BY <2>1 DEF KV!Fail, KV!NoRequest, NoCall
<1>2. CASE [RecoveryNext]_rvars
  <2>1. [Next]_vars /\ IndInv /\ ContentsInv
    BY <1>2, UpNext DEF RestartInv
  <2>2. [KV!Next \/ KV!Reappear]_<<Contents, Unanswered, reply>>
    BY <2>1, StoreStep, CompactedStep
  <2>3. StartsAtOldest /\ SingleResult => [KV!Next]_<<Contents, Unanswered, reply>>
    BY <2>1, SingleResultStep
  <2> QED
    BY <2>2, <2>3
<1>3. ~Terminate
  BY DEF Terminate, ProcessEnds
<1> QED
  BY <1>1, <1>2, <1>3, FailureCases

\* With these errors, and however the tables are merged: a call reads what is
\* held, or writes once, or throws without having written, and no value is
\* lost.
THEOREM ErrorsLoseNoValue ==
    FailureSpec =>
        [][status = "up" /\ status' = "up" =>
               [KV!Next \/ KV!Fail \/ KV!Reappear]_<<Contents, Unanswered, reply>>]_fvars
<1>1. RecoveryInv /\ RestartInv /\ [FailureNext]_fvars =>
          (status = "up" /\ status' = "up" =>
               [KV!Next \/ KV!Fail \/ KV!Reappear]_<<Contents, Unanswered, reply>>)
  BY FailureStoreStep
<1> QED
  BY <1>1, ErrorsKeepTheInvariant, ErrorsKeepTheFiles, PTL DEF FailureSpec

\* With these errors a call does all of what the store promises, or throws and
\* does nothing of it, as long as each compaction makes one table.
THEOREM CallsWorkOrThrow == FailureSpec /\ []SingleResult => FailedCallsHaveNoEffect
<1>1. FailureInit => StartsAtOldest
  BY DEF FailureInit, RecoveryInit, Init, SSTableIndexQueueInit, StartsAtOldest
<1>2. RecoveryInv /\ RestartInv /\ StartsAtOldest /\ SingleResult /\ [FailureNext]_fvars =>
          (status = "up" /\ status' = "up" =>
               [KV!Next \/ KV!Fail]_<<Contents, Unanswered, reply>>)
  BY FailureStoreStep
<1> QED
  BY <1>1, <1>2, FailureStartsAtOldest, ErrorsKeepTheInvariant, ErrorsKeepTheFiles, PTL
     DEF FailureSpec, FailedCallsHaveNoEffect

\* Once a call has thrown the error of a job, the job stands in the way of all
\* others.
THEOREM ReportedErrorsStand == FailureSpec => []ReportedInv
<1>1. FailureInit => ReportedInv
  BY DEF FailureInit, ReportedInv
<1> QED
  BY <1>1, ReportedInvStep, ErrorsKeepTheInvariant, PTL DEF FailureSpec

\* No caller works on with a database that cannot flush or compact: until the
\* process ends nothing is read or written any more.
THEOREM FailedJobsStopTheDatabase == FailureSpec => FailedJobStopsTheDatabase
<1>1. ASSUME RecoveryInv, RestartInv, ReportedInv, [FailureNext]_fvars, reported, status' = "up"
      PROVE  UNCHANGED <<Contents, reply>>
  <2>1. /\ status = "up" /\ pc \in {"idle", "compaction", "flushes", "close", "pop"}
    BY <1>1 DEF ReportedInv
  <2>2. CASE ThrowsOut
    BY <1>1, <2>2, ThrowsOutContents
  <2>3. CASE [RecoveryNext]_rvars
    <3>1. [Next]_vars /\ IndInv /\ ContentsInv
      BY <1>1, <2>1, <2>3, UpNext DEF RestartInv
    <3>2. ~Get /\ ~Write /\ ~Roll /\ ~ActivateLast
      BY <2>1 DEF Get, Write, Roll, ActivateLast
    <3>3. Contents' = Contents
      BY <3>1, <3>2, QuietView DEF ContentsInv
    <3>4. Client => reply' = reply
      BY DEF Client, CallGet, CallSet, CallRemove, CallClose, Enter
    <3> QED
      BY <3>1, <3>2, <3>3, <3>4, InnerFrame
  <2>4. ~Terminate
    BY <1>1 DEF Terminate, ProcessEnds
  <2> QED
    BY <1>1, <2>2, <2>3, <2>4, FailureCases
<1>2. RecoveryInv /\ RestartInv /\ ReportedInv /\ [FailureNext]_fvars =>
          (reported /\ status' = "up" => UNCHANGED <<Contents, reply>>)
  BY <1>1
<1> QED
  BY <1>2, ErrorsKeepTheInvariant, ErrorsKeepTheFiles, ReportedErrorsStand, PTL
     DEF FailureSpec, FailedJobStopsTheDatabase
=============================================================================

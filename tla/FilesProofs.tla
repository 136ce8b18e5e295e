---------------------------- MODULE FilesProofs -----------------------------
(***************************************************************************)
(* Proofs about what the files of the database hold: the logs hold the     *)
(* MemTables, the .sst files the indexed tables, and there are no others.  *)
(***************************************************************************)
EXTENDS ProjectDbProofs

-----------------------------------------------------------------------------
(***************************************************************************)
(* The logs hold the MemTables.                                            *)
(***************************************************************************)

LEMMA LogFrame ==
    [Next]_vars =>
        \/ PopMemTable \/ FirstMemTable \/ Write \/ Roll
        \/ UNCHANGED <<memTableQueue, txl>>
BY DEF Next, Client, CallStep, CheckFutures, Closed, vars, Enter, CallGet, CallSet, CallRemove,
       CallClose, NoCompactionToCheck, CompactionRunning, CompactionReady, DeprecateNext,
       ActivateNext, ActivateLast, FlushReady, FlushesChecked, Get, CloseFlush, CloseDone,
       FlushJob, FlushBegin, FlushFinish, CompactionStep, CompactionJob, CompactionBegin,
       CompactionMerge, CompactionFlushBegin, CompactionFlushFinish, memVars, dirVars

LEMMA LogTypes ==
    ASSUME IndInv
    PROVE  /\ memTableQueue \in Seq(MemTables) /\ txlCounter \in Nat
           /\ IsFiles(txl, Seq(Records))
           /\ \A i \in DOMAIN memTableQueue :
                  memTableQueue[i].log \in Nat /\ memTableQueue[i].table \in TableSet
           /\ \A n \in DOMAIN txl : txl[n] \in Seq(Records)
<1>1. /\ memTableQueue \in Seq(MemTables) /\ txlCounter \in Nat
      /\ IsFiles(txl, Seq(Records))
  BY DEF IndInv, TypeOK, MemTableQueueTypeOK, DirectoryTypeOK
<1>2. ASSUME NEW i \in DOMAIN memTableQueue
      PROVE  memTableQueue[i].log \in Nat /\ memTableQueue[i].table \in TableSet
  <2>1. memTableQueue[i] \in MemTables
    BY <1>1
  <2> QED
    BY <2>1 DEF MemTables
<1>3. \A n \in DOMAIN txl : txl[n] \in Seq(Records)
  BY <1>1 DEF IsFiles
<1> QED
  BY <1>1, <1>2, <1>3

\* What becomes of the MemTables and their logs: they are taken over, get one
\* more record, or are new.
LEMMA LogsChange ==
    ASSUME IndInv, [Next]_vars,
           \A n \in DOMAIN txl : \E i \in DOMAIN memTableQueue : memTableQueue[i].log = n
    PROVE  /\ \A n \in DOMAIN txl' : \E i \in DOMAIN memTableQueue' : memTableQueue'[i].log = n
           /\ \A i \in DOMAIN memTableQueue' :
                  \/ memTableQueue'[i].table = EmptyTable /\ txl'[memTableQueue'[i].log] = <<>>
                  \/ \E j \in DOMAIN memTableQueue :
                         /\ memTableQueue'[i].table = memTableQueue[j].table
                         /\ txl'[memTableQueue'[i].log] = txl[memTableQueue[j].log]
                  \/ \E j \in DOMAIN memTableQueue, r \in Records :
                         /\ memTableQueue'[i].table = Put(memTableQueue[j].table, r.key, r.value)
                         /\ txl'[memTableQueue'[i].log] = Append(txl[memTableQueue[j].log], r)
<1> DEFINE Known == \A n \in DOMAIN txl : \E i \in DOMAIN memTableQueue : memTableQueue[i].log = n
           New(i) == memTableQueue'[i].table = EmptyTable /\ txl'[memTableQueue'[i].log] = <<>>
           Same(i) == \E j \in DOMAIN memTableQueue :
                          /\ memTableQueue'[i].table = memTableQueue[j].table
                          /\ txl'[memTableQueue'[i].log] = txl[memTableQueue[j].log]
           Written(i) == \E j \in DOMAIN memTableQueue, r \in Records :
                          /\ memTableQueue'[i].table = Put(memTableQueue[j].table, r.key, r.value)
                          /\ txl'[memTableQueue'[i].log] = Append(txl[memTableQueue[j].log], r)
           Change == Known' /\ \A i \in DOMAIN memTableQueue' : New(i) \/ Same(i) \/ Written(i)
<1> SUFFICES Change
  OBVIOUS
<1>a. /\ memTableQueue \in Seq(MemTables) /\ txlCounter \in Nat
      /\ \A i \in DOMAIN memTableQueue : memTableQueue[i].log \in Nat
      /\ \A n \in DOMAIN txl : txl[n] \in Seq(Records)
  BY LogTypes
<1>b. \A i \in DOMAIN memTableQueue :
          memTableQueue[i].log \in DOMAIN txl /\ memTableQueue[i].log < txlCounter
  BY DEF IndInv, LogInv
<1>c. ASSUME NEW i \in DOMAIN memTableQueue, NEW j \in DOMAIN memTableQueue, i # j
      PROVE  memTableQueue[i].log # memTableQueue[j].log
  <2>1. i < j \/ j < i
    BY <1>a, <1>c
  <2>2. \A k, l \in DOMAIN memTableQueue :
            k < l => memTableQueue[k].log < memTableQueue[l].log
    BY DEF IndInv, LogInv
  <2> QED
    BY <2>1, <2>2, <1>a
<1>d. ASSUME EmplaceBack PROVE Change
  <2> DEFINE m == [table |-> EmptyTable, log |-> txlCounter]
  <2>1. memTableQueue' = Append(memTableQueue, m)
    BY <1>d DEF EmplaceBack
  <2>2. m.log = txlCounter /\ m.table = EmptyTable
    OBVIOUS
  <2> HIDE DEF m
  <2>3. /\ DOMAIN memTableQueue' = 1 .. Len(memTableQueue) + 1
        /\ DOMAIN memTableQueue = 1 .. Len(memTableQueue)
        /\ \A i \in 1 .. Len(memTableQueue) : memTableQueue'[i] = memTableQueue[i]
        /\ memTableQueue'[Len(memTableQueue) + 1] = m
    BY <2>1, <1>a
  <2>4. \A n \in DOMAIN txl : n < txlCounter /\ n # txlCounter
    <3> SUFFICES ASSUME NEW n \in DOMAIN txl PROVE n < txlCounter /\ n # txlCounter
      OBVIOUS
    <3>1. PICK i \in DOMAIN memTableQueue : memTableQueue[i].log = n
      OBVIOUS
    <3>2. memTableQueue[i].log \in Nat /\ memTableQueue[i].log < txlCounter
      BY <1>a, <1>b
    <3>3. n \in Nat /\ n < txlCounter /\ txlCounter \in Nat
      BY <3>1, <3>2, <1>a
    <3> QED
      BY <3>3
  <2>5. txl' = Put(txl, txlCounter, <<>>)
    BY <1>d, <2>4 DEF EmplaceBack, OpenLog
  <2>6. /\ DOMAIN txl' = DOMAIN txl \cup {txlCounter} /\ txl'[txlCounter] = <<>>
        /\ \A n \in DOMAIN txl : txl'[n] = txl[n]
    BY <2>4, <2>5 DEF Put
  <2>7. ASSUME NEW n \in DOMAIN txl'
        PROVE  \E i \in DOMAIN memTableQueue' : memTableQueue'[i].log = n
    <3>1. CASE n = txlCounter
      <4>1. Len(memTableQueue) + 1 \in DOMAIN memTableQueue'
        BY <2>3, <1>a
      <4> QED
        BY <4>1, <3>1, <2>2, <2>3
    <3>2. CASE n \in DOMAIN txl
      <4>1. PICK i \in DOMAIN memTableQueue : memTableQueue[i].log = n
        BY <3>2
      <4>2. i \in DOMAIN memTableQueue' /\ memTableQueue'[i] = memTableQueue[i]
        BY <2>3, <1>a
      <4> QED
        BY <4>1, <4>2
    <3> QED
      BY <3>1, <3>2, <2>6
  <2>8. ASSUME NEW i \in DOMAIN memTableQueue'
        PROVE  New(i) \/ Same(i)
    <3>1. CASE i = Len(memTableQueue) + 1
      BY <3>1, <2>2, <2>3, <2>6
    <3>2. CASE i \in 1 .. Len(memTableQueue)
      BY <3>2, <2>3, <2>6, <1>b
    <3> QED
      BY <3>1, <3>2, <2>3, <1>a
  <2> QED
    BY <2>7, <2>8
<1>1. CASE PopMemTable
  <2>1. /\ memTableQueue' = Tail(memTableQueue) /\ memTableQueue # <<>>
        /\ txl' = Without(txl, Head(memTableQueue).log)
    <3>1. pc = "pop" => flushFutures # <<>>
      BY DEF IndInv, CallInv
    <3>2. \A i \in DOMAIN flushFutures : i < Len(memTableQueue)
      BY DEF IndInv, FuturesMatchQueue
    <3>3. flushFutures \in Seq(FlushJobs)
      BY IdTypes
    <3>4. pc = "pop" => memTableQueue # <<>>
      BY <3>1, <3>2, <3>3, <1>a
    <3> QED
      BY <3>4, <1>1 DEF PopMemTable, Pop, DeprecateLog
  <2>2. /\ DOMAIN memTableQueue' = 1 .. Len(memTableQueue) - 1
        /\ DOMAIN memTableQueue = 1 .. Len(memTableQueue) /\ Len(memTableQueue) \in Nat \ {0}
        /\ \A i \in 1 .. Len(memTableQueue) - 1 : memTableQueue'[i] = memTableQueue[i + 1]
        /\ Head(memTableQueue) = memTableQueue[1]
    BY <2>1, <1>a
  <2>3. txl' = [n \in DOMAIN txl \ {memTableQueue[1].log} |-> txl[n]]
    BY <2>1, <2>2 DEF Without
  <2>4. ASSUME NEW n \in DOMAIN txl'
        PROVE  \E i \in DOMAIN memTableQueue' : memTableQueue'[i].log = n
    <3>1. PICK i \in DOMAIN memTableQueue : memTableQueue[i].log = n
      BY <2>3
    <3>2. i # 1
      BY <3>1, <2>3
    <3>3. i - 1 \in 1 .. Len(memTableQueue) - 1 /\ (i - 1) + 1 = i
      BY <3>2, <2>2
    <3> QED
      BY <3>1, <3>3, <2>2
  <2>5. ASSUME NEW i \in DOMAIN memTableQueue'
        PROVE  Same(i)
    <3>1. /\ i + 1 \in DOMAIN memTableQueue /\ 1 \in DOMAIN memTableQueue /\ i + 1 # 1
          /\ memTableQueue'[i] = memTableQueue[i + 1]
      BY <2>2
    <3>2. memTableQueue[i + 1].log \in DOMAIN txl'
      BY <3>1, <2>3, <1>b, <1>c
    <3> QED
      BY <3>1, <3>2, <2>3
  <2> QED
    BY <2>4, <2>5
<1>2. CASE FirstMemTable \/ Roll
  BY <1>2, <1>d DEF FirstMemTable, Roll, RollMemTable
<1>3. CASE Write
  <2> DEFINE log == memTableQueue[Back].log
             r == [key |-> call.key, value |-> call.value]
  <2>1. /\ Back \in DOMAIN memTableQueue
        /\ memTableQueue' = [memTableQueue EXCEPT ![Back].table = Put(@, call.key, call.value)]
        /\ txl' = Put(txl, log, Append(txl[log], r))
    BY <1>3, <1>a DEF Write, WriteBack, Back
  <2>2. call.key \in Keys /\ call.value \in Entries
    BY <1>3 DEF Write, IndInv, CallInv
  <2>3. r \in Records /\ r.key = call.key /\ r.value = call.value
    BY <2>2 DEF Records
  <2>4. log \in DOMAIN txl /\ txl[log] \in Seq(Records)
    BY <2>1, <1>a, <1>b
  <2>5. /\ DOMAIN memTableQueue' = DOMAIN memTableQueue
        /\ \A i \in DOMAIN memTableQueue : memTableQueue'[i].log = memTableQueue[i].log
        /\ \A i \in DOMAIN memTableQueue :
               i # Back => memTableQueue'[i].table = memTableQueue[i].table
    BY <2>1, <1>a
  <2>6. memTableQueue'[Back].table = Put(memTableQueue[Back].table, call.key, call.value)
    <3>1. memTableQueue[Back] \in MemTables
      BY <2>1, <1>a
    <3> QED
      BY <3>1, <2>1, <1>a DEF MemTables
  <2>8. log = memTableQueue[Back].log
    OBVIOUS
  <2> HIDE DEF log, r
  <2>9. /\ DOMAIN txl' = DOMAIN txl /\ txl'[log] = Append(txl[log], r)
        /\ \A n \in DOMAIN txl : n # log => txl'[n] = txl[n]
    BY <2>1, <2>4 DEF Put
  <2>10. ASSUME NEW i \in DOMAIN memTableQueue'
         PROVE  Same(i) \/ Written(i)
    <3>1. CASE i = Back
      <4>1. memTableQueue'[Back].table = Put(memTableQueue[Back].table, r.key, r.value)
        BY <2>3, <2>6
      <4>2. memTableQueue'[Back].log = log
        BY <2>1, <2>5, <2>8
      <4>3. txl'[memTableQueue'[Back].log] = Append(txl[memTableQueue[Back].log], r)
        BY <4>2, <2>8, <2>9
      <4> QED
        BY <3>1, <4>1, <4>3, <2>1, <2>3
    <3>2. CASE i # Back
      <4>1. memTableQueue[i].log # log /\ memTableQueue[i].log \in DOMAIN txl
        BY <3>2, <2>1, <2>5, <2>8, <1>b, <1>c
      <4> QED
        BY <4>1, <3>2, <2>5, <2>9
    <3> QED
      BY <3>1, <3>2
  <2>11. Known'
    BY <2>5, <2>9
  <2> QED
    BY <2>10, <2>11
<1>4. CASE UNCHANGED <<memTableQueue, txl>>
  BY <1>4
<1> QED
  BY <1>1, <1>2, <1>3, <1>4, LogFrame

LEMMA ReplayInvStep == IndInv /\ ReplayInv /\ [Next]_vars => ReplayInv'
<1> SUFFICES ASSUME IndInv, ReplayInv, [Next]_vars PROVE ReplayInv'
  OBVIOUS
<1>1. /\ \A n \in DOMAIN txl : \E i \in DOMAIN memTableQueue : memTableQueue[i].log = n
      /\ \A i \in DOMAIN memTableQueue : memTableQueue[i].table = Replay(txl[memTableQueue[i].log])
  BY DEF ReplayInv
<1>2. \A i \in DOMAIN memTableQueue : txl[memTableQueue[i].log] \in Seq(Records)
  BY LogTypes DEF IndInv, LogInv
<1>3. ASSUME NEW i \in DOMAIN memTableQueue'
      PROVE  memTableQueue'[i].table = Replay(txl'[memTableQueue'[i].log])
  <2>1. CASE memTableQueue'[i].table = EmptyTable /\ txl'[memTableQueue'[i].log] = <<>>
    BY <2>1, ReplayEmpty
  <2>2. CASE \E j \in DOMAIN memTableQueue :
                 /\ memTableQueue'[i].table = memTableQueue[j].table
                 /\ txl'[memTableQueue'[i].log] = txl[memTableQueue[j].log]
    BY <2>2, <1>1
  <2>3. ASSUME NEW j \in DOMAIN memTableQueue, NEW r \in Records,
               memTableQueue'[i].table = Put(memTableQueue[j].table, r.key, r.value),
               txl'[memTableQueue'[i].log] = Append(txl[memTableQueue[j].log], r)
        PROVE  memTableQueue'[i].table = Replay(txl'[memTableQueue'[i].log])
    <3>1. PICK log \in Seq(Records) : log = txl[memTableQueue[j].log]
      BY <1>2
    <3>2. Replay(Append(log, r)) = Put(Replay(log), r.key, r.value)
      BY ReplayAppend
    <3> QED
      BY <2>3, <3>1, <3>2, <1>1
  <2> QED
    BY <2>1, <2>2, <2>3, <1>1, LogsChange
<1> QED
  BY <1>1, <1>3, LogsChange DEF ReplayInv

-----------------------------------------------------------------------------
(***************************************************************************)
(* The .sst files hold the tables of the queue.                            *)
(***************************************************************************)

LEMMA SSTableFrame ==
    [Next]_vars =>
        \/ FlushReady \/ CloseFlush \/ PopMemTable
        \/ CompactionReady \/ DeprecateNext \/ ActivateNext \/ ActivateLast
        \/ \E i \in DOMAIN flushFutures : FlushJob(i)
        \/ CompactionStep
        \/ UNCHANGED <<sst, indexQueue, unindexed>> /\ ~InUpdate /\ ~InUpdate' /\ pc' # "pop"
        \/ UNCHANGED vars
BY DEF Next, Client, CallStep, CheckFutures, Closed, Enter, CallGet, CallSet, CallRemove,
       CallClose, NoCompactionToCheck, CompactionRunning, FlushesChecked, TryLaunchCompaction,
       Get, FirstMemTable, Write, Roll, Return, CloseDone, indexVars, dirVars, callVars, InUpdate

\* ReplaceCompacted keeps what is outside of the range and takes all of the
\* result.
LEMMA ReplacedElements ==
    ASSUME IndInv, ActivateLast
    PROVE  /\ \A i \in DOMAIN indexQueue : i \notin CompactionRange =>
                  \E j \in DOMAIN indexQueue' : indexQueue'[j] = indexQueue[i]
           /\ \A i \in DOMAIN compaction.result :
                  \E j \in DOMAIN indexQueue' : indexQueue'[j] = compaction.result[i]
<1> DEFINE s == compactionStartIndex
           e == compactionStartIndex + NumSSTableToCompact + 1
           r == Len(compaction.result)
           n == Len(indexQueue)
           front == SubSeq(indexQueue, 1, compactionStartIndex)
           back == SubSeq(indexQueue, compactionStartIndex + NumSSTableToCompact + 2,
                          Len(indexQueue))
<1>1. /\ indexQueue \in Seq(Indexes) /\ compaction.result \in Seq(Indexes)
      /\ s \in Nat /\ e \in Nat /\ r \in Nat /\ n \in Nat
      /\ e = s + NumSSTableToCompact + 1 /\ e <= n /\ s <= n
  <2>1. compactionStartIndex + 1 + NumSSTableToCompact <= Len(indexQueue)
    BY UpdateIds DEF ActivateLast, InUpdate
  <2> QED
    BY <2>1, IdTypes, CompactAssumption
<1>2. front \in Seq(Indexes) /\ Len(front) = s
  BY <1>1
<1>3. back \in Seq(Indexes) /\ Len(back) = n - e
  BY <1>1, CompactAssumption
<1>4. indexQueue' = front \o compaction.result \o back
  BY DEF ActivateLast, ReplaceCompacted
<1>5. DOMAIN compaction.result = 1 .. r /\ DOMAIN indexQueue = 1 .. n
  BY <1>1
<1>6. CompactionRange = s + 1 .. e
  BY <1>1, CompactAssumption DEF CompactionRange
<1>7. \A i \in DOMAIN indexQueue' :
          \/ i \in 1 .. s /\ indexQueue'[i] = indexQueue[i]
          \/ i \in s + 1 .. s + r /\ indexQueue'[i] = compaction.result[i - s]
          \/ i > s + r /\ indexQueue'[i] = indexQueue[i - r + NumSSTableToCompact + 1]
  BY ReplacedQueue
<1> HIDE DEF front, back, s, e, r, n
<1>8. DOMAIN indexQueue' = 1 .. s + r + (n - e)
  <2> DEFINE q == front \o compaction.result
  <2>1. q \in Seq(Indexes) /\ Len(q) = s + r
    BY <1>1, <1>2, Concatenation DEF r
  <2>2. indexQueue' = q \o back
    BY <1>4
  <2> HIDE DEF q
  <2>3. q \o back \in Seq(Indexes) /\ Len(q \o back) = Len(q) + Len(back)
    BY <2>1, <1>3, Concatenation
  <2> QED
    BY <2>1, <2>2, <2>3, <1>3
<1>9. ASSUME NEW i \in DOMAIN indexQueue, i \notin CompactionRange
      PROVE  \E j \in DOMAIN indexQueue' : indexQueue'[j] = indexQueue[i]
  <2>1. i \in 1 .. s \/ i \in e + 1 .. n
    BY <1>1, <1>5, <1>6, <1>9
  <2>2. CASE i \in 1 .. s
    <3>1. i \in DOMAIN indexQueue' /\ i \notin s + 1 .. s + r /\ ~(i > s + r)
      BY <2>2, <1>1, <1>8
    <3> QED
      BY <3>1, <1>7
  <2>3. CASE i \in e + 1 .. n
    <3> DEFINE j == i + r - NumSSTableToCompact - 1
    <3>1. /\ j \in 1 .. s + r + (n - e) /\ j > s + r
          /\ j \notin 1 .. s /\ j \notin s + 1 .. s + r
          /\ j - r + NumSSTableToCompact + 1 = i
      BY <2>3, <1>1, CompactAssumption
    <3> HIDE DEF j
    <3>2. indexQueue'[j] = indexQueue[j - r + NumSSTableToCompact + 1]
      BY <3>1, <1>7, <1>8
    <3> QED
      BY <3>1, <3>2, <1>8
  <2> QED
    BY <2>1, <2>2, <2>3
<1>10. ASSUME NEW i \in DOMAIN compaction.result
       PROVE  \E j \in DOMAIN indexQueue' : indexQueue'[j] = compaction.result[i]
  <2> DEFINE j == s + i
  <2>1. /\ j \in 1 .. s + r + (n - e) /\ ~(j > s + r)
        /\ j \notin 1 .. s /\ j - s = i
    BY <1>1, <1>5
  <2> HIDE DEF j
  <2>2. indexQueue'[j] = compaction.result[j - s]
    BY <2>1, <1>7, <1>8
  <2> QED
    BY <2>1, <2>2, <1>8
<1> QED
  BY <1>9, <1>10

LEMMA SSTableInvStep == IndInv /\ SSTableInv /\ [Next]_vars => SSTableInv'
<1> SUFFICES ASSUME IndInv, SSTableInv, [Next]_vars PROVE SSTableInv'
  OBVIOUS
<1>a. /\ indexQueue \in Seq(Indexes) /\ unindexed \in Seq(Indexes)
      /\ flushFutures \in Seq(FlushJobs) /\ compaction.result \in Seq(Indexes)
      /\ compactionStartIndex \in Nat
      /\ \A i \in DOMAIN indexQueue : indexQueue[i].id \in Nat
      /\ \A i \in DOMAIN unindexed : unindexed[i].id \in Nat
      /\ \A i \in DOMAIN flushFutures : flushFutures[i].id \in Nat
  BY IdTypes
<1>b. IdInv /\ UpdateInv /\ CallInv
  BY DEF IndInv
<1>c. ~InUpdate => Deprecated = {} /\ Activated = {}
  BY DEF InUpdate, Deprecated, Activated
<1>d. /\ \A n \in DOMAIN sst :
             \/ \E i \in DOMAIN indexQueue \ Deprecated : indexQueue[i].id = n
             \/ \E i \in DOMAIN unindexed : unindexed[i].id = n
             \/ \E i \in Activated : compaction.result[i].id = n
      /\ \A i \in DOMAIN unindexed :
             unindexed[i].id \in DOMAIN sst /\ sst[unindexed[i].id] = unindexed[i].table
      /\ pc = "pop" => \E n \in DOMAIN sst : sst[n] = flushFutures[1].table
  BY DEF SSTableInv
\* Outside update, all files have an index or will get one from init.
<1>e. ASSUME ~InUpdate', 
             \A n \in DOMAIN sst' : \/ \E i \in DOMAIN indexQueue' : indexQueue'[i].id = n
                                    \/ \E i \in DOMAIN unindexed' : unindexed'[i].id = n
      PROVE  \A n \in DOMAIN sst' :
                 \/ \E i \in DOMAIN indexQueue' \ Deprecated' : indexQueue'[i].id = n
                 \/ \E i \in DOMAIN unindexed' : unindexed'[i].id = n
                 \/ \E i \in Activated' : compaction'.result[i].id = n
  <2>1. Deprecated' = {} /\ Activated' = {}
    BY <1>e DEF InUpdate, Deprecated, Activated
  <2> QED
    BY <2>1, <1>e
\* A .ip file becomes an SSTable.
<1>f. ASSUME flushFutures # <<>>, Head(flushFutures).stage = "ready", pc \in {"flushes", "close"},
             ActivateInProgress(Head(flushFutures).id)
      PROVE  /\ DOMAIN sst' = DOMAIN sst \cup {flushFutures[1].id}
             /\ sst'[flushFutures[1].id] = flushFutures[1].table
             /\ \A i \in DOMAIN unindexed :
                    unindexed[i].id \in DOMAIN sst' /\ sst'[unindexed[i].id] = unindexed[i].table
             /\ \A n \in DOMAIN sst : \/ \E i \in DOMAIN indexQueue : indexQueue[i].id = n
                                      \/ \E i \in DOMAIN unindexed : unindexed[i].id = n
  <2>1. /\ FirstPending = 1 /\ 1 \in DOMAIN flushFutures /\ ~InUpdate
        /\ flushFutures[1].stage = "ready" /\ Head(flushFutures) = flushFutures[1]
    BY <1>a, <1>f DEF FirstPending, InUpdate
  <2>2. inProgress[flushFutures[1].id] = flushFutures[1].table
    BY <2>1 DEF IndInv, InProgressInv
  <2>3. sst' = Put(sst, flushFutures[1].id, inProgress[flushFutures[1].id])
    BY <2>1, <1>f DEF ActivateInProgress
  <2>4. ASSUME NEW i \in DOMAIN unindexed
        PROVE  unindexed[i].id \in DOMAIN sst' /\ sst'[unindexed[i].id] = unindexed[i].table
    <3>1. unindexed[i].id < flushFutures[1].id
      BY <2>1, <1>b DEF IdInv
    <3>2. unindexed[i].id # flushFutures[1].id
      BY <3>1, <2>1, <1>a
    <3> QED
      BY <3>2, <2>3, <1>d DEF Put
  <2>5. /\ DOMAIN sst' = DOMAIN sst \cup {flushFutures[1].id}
        /\ sst'[flushFutures[1].id] = flushFutures[1].table
    BY <2>2, <2>3 DEF Put
  <2> QED
    BY <2>1, <2>4, <2>5, <1>c, <1>d
<1>1. CASE FlushReady
  <2> DEFINE index == [id |-> Head(flushFutures).id, table |-> Head(flushFutures).table]
  <2>1. /\ flushFutures # <<>> /\ Head(flushFutures).stage = "ready" /\ pc = "flushes"
        /\ ActivateInProgress(Head(flushFutures).id)
        /\ indexQueue' = Append(indexQueue, index)
        /\ pc' = "pop" /\ UNCHANGED <<flushFutures, unindexed>>
    BY <1>1 DEF FlushReady, OldestFlushReady, Insert, memVars
  <2>2. index.id = flushFutures[1].id /\ ~InUpdate'
    BY <2>1, <1>a DEF InUpdate
  <2> HIDE DEF index
  <2>3. /\ DOMAIN indexQueue \subseteq DOMAIN indexQueue'
        /\ \A i \in DOMAIN indexQueue : indexQueue'[i] = indexQueue[i]
        /\ Len(indexQueue) + 1 \in DOMAIN indexQueue'
        /\ indexQueue'[Len(indexQueue) + 1] = index
    BY <2>1, <1>a
  <2>4. /\ DOMAIN sst' = DOMAIN sst \cup {flushFutures[1].id}
        /\ sst'[flushFutures[1].id] = flushFutures[1].table
        /\ \A i \in DOMAIN unindexed :
               unindexed[i].id \in DOMAIN sst' /\ sst'[unindexed[i].id] = unindexed[i].table
        /\ \A n \in DOMAIN sst : \/ \E i \in DOMAIN indexQueue : indexQueue[i].id = n
                                 \/ \E i \in DOMAIN unindexed : unindexed[i].id = n
    BY <2>1, <1>f
  <2>5. \A n \in DOMAIN sst' : \/ \E i \in DOMAIN indexQueue' : indexQueue'[i].id = n
                               \/ \E i \in DOMAIN unindexed' : unindexed'[i].id = n
    BY <2>1, <2>2, <2>3, <2>4
  <2> QED
    BY <2>1, <2>2, <2>4, <2>5, <1>e DEF SSTableInv
<1>2. CASE CloseFlush
  <2> DEFINE index == [id |-> Head(flushFutures).id, table |-> Head(flushFutures).table]
  <2>1. /\ flushFutures # <<>> /\ Head(flushFutures).stage = "ready" /\ pc = "close"
        /\ ActivateInProgress(Head(flushFutures).id)
        /\ unindexed' = Append(unindexed, index)
        /\ pc' = "pop" /\ UNCHANGED <<flushFutures, indexQueue>>
    BY <1>2 DEF CloseFlush, OldestFlushReady, memVars, indexVars
  <2>2. index.id = flushFutures[1].id /\ index.table = flushFutures[1].table /\ ~InUpdate'
    BY <2>1, <1>a DEF InUpdate
  <2> HIDE DEF index
  <2>3. /\ DOMAIN unindexed' = 1 .. Len(unindexed) + 1 /\ DOMAIN unindexed = 1 .. Len(unindexed)
        /\ \A i \in DOMAIN unindexed : unindexed'[i] = unindexed[i]
        /\ unindexed'[Len(unindexed) + 1] = index
        /\ Len(unindexed) \in Nat
    BY <2>1, <1>a
  <2>4. /\ DOMAIN sst' = DOMAIN sst \cup {flushFutures[1].id}
        /\ sst'[flushFutures[1].id] = flushFutures[1].table
        /\ \A i \in DOMAIN unindexed :
               unindexed[i].id \in DOMAIN sst' /\ sst'[unindexed[i].id] = unindexed[i].table
        /\ \A n \in DOMAIN sst : \/ \E i \in DOMAIN indexQueue : indexQueue[i].id = n
                                 \/ \E i \in DOMAIN unindexed : unindexed[i].id = n
    BY <2>1, <1>f
  <2>5. \A i \in DOMAIN unindexed' : i \in DOMAIN unindexed \/ i = Len(unindexed) + 1
    BY <2>3
  <2>6. DOMAIN unindexed \subseteq DOMAIN unindexed' /\ Len(unindexed) + 1 \in DOMAIN unindexed'
    BY <2>3
  <2>7. \A n \in DOMAIN sst' : \/ \E i \in DOMAIN indexQueue' : indexQueue'[i].id = n
                               \/ \E i \in DOMAIN unindexed' : unindexed'[i].id = n
    BY <2>1, <2>2, <2>3, <2>4, <2>6
  <2>8. \A i \in DOMAIN unindexed' :
            unindexed'[i].id \in DOMAIN sst' /\ sst'[unindexed'[i].id] = unindexed'[i].table
    BY <2>2, <2>3, <2>4, <2>5
  <2> QED
    BY <2>1, <2>2, <2>4, <2>7, <2>8, <1>e DEF SSTableInv
<1>3. CASE PopMemTable
  <2>1. UNCHANGED <<sst, indexQueue, unindexed>> /\ ~InUpdate /\ ~InUpdate' /\ pc' # "pop"
    BY <1>3 DEF PopMemTable, indexVars, InUpdate
  <2> QED
    BY <2>1, <1>c, <1>d, <1>e DEF SSTableInv
<1>4. CASE CompactionReady
  <2>1. /\ UNCHANGED <<sst, indexQueue, unindexed, compactionStartIndex, compaction>>
        /\ ~InUpdate /\ pc' = "deprecate" /\ cursor' = 1
    BY <1>4 DEF CompactionReady, indexVars, dirVars, InUpdate
  <2>2. Deprecated' = {} /\ Activated' = {}
    BY <2>1, <1>a DEF Deprecated, Activated
  <2> QED
    BY <2>1, <2>2, <1>c, <1>d DEF SSTableInv
<1>5. CASE DeprecateNext
  <2> DEFINE p == compactionStartIndex + cursor
  <2>1. /\ pc = "deprecate" /\ InUpdate
        /\ UNCHANGED <<indexQueue, unindexed, compactionStartIndex, compaction>>
        /\ sst' = Without(sst, indexQueue[p].id)
        /\ \/ cursor = NumSSTableToCompact + 1 /\ pc' = "activate" /\ cursor' = 1
           \/ pc' = "deprecate" /\ cursor' = cursor + 1
    BY <1>5 DEF DeprecateNext, DeprecateCompacted, DeprecateSSTable, indexVars, InUpdate
  <2>2. /\ cursor \in 1 .. NumSSTableToCompact + 1
        /\ p \in CompactionRange /\ p \in DOMAIN indexQueue
    <3>1. cursor \in 1 .. NumSSTableToCompact + 1
      BY <2>1, <1>b DEF UpdateInv
    <3>2. p \in CompactionRange
      BY <3>1, <1>a, CompactAssumption DEF CompactionRange
    <3> QED
      BY <3>1, <3>2, <2>1, UpdateIds
  <2>3. Deprecated' = Deprecated \cup {p}
    <3>1. Deprecated = compactionStartIndex + 1 .. p - 1
      BY <2>1, <2>2, <1>a DEF Deprecated
    <3>2. CASE cursor = NumSSTableToCompact + 1 /\ pc' = "activate" /\ cursor' = 1
      <4>1. Deprecated' = compactionStartIndex + 1 .. compactionStartIndex + 1 + NumSSTableToCompact
        BY <2>1, <3>2 DEF Deprecated, CompactionRange
      <4> QED
        BY <4>1, <3>1, <3>2, <2>2, <1>a, CompactAssumption
    <3>3. CASE pc' = "deprecate" /\ cursor' = cursor + 1
      <4>1. Deprecated' = compactionStartIndex + 1 .. compactionStartIndex + (cursor + 1) - 1
        BY <2>1, <3>3 DEF Deprecated
      <4> QED
        BY <4>1, <3>1, <2>2, <1>a, CompactAssumption
    <3> QED
      BY <2>1, <3>2, <3>3
  <2>4. Activated = {} /\ Activated' = {}
    BY <2>1, <1>a DEF Activated
  <2> HIDE DEF p
  <2>5. DOMAIN sst' = DOMAIN sst \ {indexQueue[p].id} /\ \A n \in DOMAIN sst' : sst'[n] = sst[n]
    BY <2>1 DEF Without
  <2>6. ASSUME NEW n \in DOMAIN sst'
        PROVE  \/ \E i \in DOMAIN indexQueue \ Deprecated' : indexQueue[i].id = n
               \/ \E i \in DOMAIN unindexed : unindexed[i].id = n
    BY <2>3, <2>4, <2>5, <1>d
  <2>7. ASSUME NEW i \in DOMAIN unindexed
        PROVE  unindexed[i].id \in DOMAIN sst' /\ sst'[unindexed[i].id] = unindexed[i].table
    <3>1. indexQueue[p].id < unindexed[i].id
      BY <2>2, <1>b DEF IdInv
    <3>2. unindexed[i].id # indexQueue[p].id
      BY <3>1, <2>2, <1>a
    <3> QED
      BY <3>2, <2>5, <1>d
  <2> QED
    BY <2>1, <2>6, <2>7 DEF SSTableInv
\* A .merged file becomes an SSTable.
<1>g. ASSUME pc = "activate", ActivateCompacted(cursor)
      PROVE  /\ cursor \in DOMAIN compaction.result /\ InUpdate
             /\ Activated \cup {cursor} = 1 .. cursor
             /\ DOMAIN sst' = DOMAIN sst \cup {compaction.result[cursor].id}
             /\ \A i \in DOMAIN unindexed :
                    unindexed[i].id \in DOMAIN sst' /\ sst'[unindexed[i].id] = unindexed[i].table
  <2>1. cursor \in 1 .. Len(compaction.result) /\ InUpdate
    BY <1>b, <1>g DEF UpdateInv, InUpdate
  <2>2. cursor \in DOMAIN compaction.result /\ cursor \in Nat /\ cursor >= 1
    BY <2>1, <1>a
  <2>3. Activated \cup {cursor} = 1 .. cursor
    BY <2>2, <1>g DEF Activated
  <2> DEFINE id == compaction.result[cursor].id
  <2>4. sst' = Put(sst, id, merged[id])
    BY <1>g DEF ActivateCompacted, ActivateMerged
  <2>5. PICK p \in CompactionRange : id = indexQueue[p].id
    BY <2>1, <2>2, UpdateIds
  <2>6. p \in DOMAIN indexQueue
    BY <2>1, UpdateIds
  <2> HIDE DEF id
  <2>7. ASSUME NEW i \in DOMAIN unindexed
        PROVE  unindexed[i].id \in DOMAIN sst' /\ sst'[unindexed[i].id] = unindexed[i].table
    <3>1. indexQueue[p].id < unindexed[i].id
      BY <2>6, <1>b DEF IdInv
    <3>2. unindexed[i].id # id
      BY <3>1, <2>5, <2>6, <1>a
    <3> QED
      BY <3>2, <2>4, <1>d DEF Put
  <2>8. DOMAIN sst' = DOMAIN sst \cup {id}
    BY <2>4 DEF Put
  <2> QED
    BY <2>1, <2>2, <2>3, <2>7, <2>8 DEF id
<1>6. CASE ActivateNext
  <2>1. /\ pc = "activate" /\ pc' = "activate" /\ ActivateCompacted(cursor)
        /\ UNCHANGED <<indexQueue, unindexed, compactionStartIndex, compaction>>
        /\ cursor' = cursor + 1
    BY <1>6 DEF ActivateNext, indexVars
  <2>2. /\ cursor \in DOMAIN compaction.result
        /\ Activated \cup {cursor} = 1 .. cursor
        /\ DOMAIN sst' = DOMAIN sst \cup {compaction.result[cursor].id}
        /\ \A i \in DOMAIN unindexed :
               unindexed[i].id \in DOMAIN sst' /\ sst'[unindexed[i].id] = unindexed[i].table
    BY <2>1, <1>g
  <2>3. Deprecated' = Deprecated
    BY <2>1 DEF Deprecated, CompactionRange
  <2>4. Activated' = 1 .. cursor
    <3>1. cursor \in Nat
      BY <2>2, <1>a
    <3> QED
      BY <3>1, <2>1 DEF Activated
  <2>5. \A n \in DOMAIN sst' :
            \/ \E i \in DOMAIN indexQueue \ Deprecated : indexQueue[i].id = n
            \/ \E i \in DOMAIN unindexed : unindexed[i].id = n
            \/ \E i \in Activated \cup {cursor} : compaction.result[i].id = n
    BY <2>2, <1>d
  <2> QED
    BY <2>1, <2>2, <2>3, <2>4, <2>5 DEF SSTableInv
<1>7. CASE ActivateLast
  <2>1. /\ pc = "activate" /\ ActivateCompacted(cursor) /\ UNCHANGED unindexed
        /\ cursor = Len(compaction.result) /\ ~InUpdate' /\ pc' # "pop"
    BY <1>7 DEF ActivateLast, InUpdate
  <2>2. /\ Activated \cup {cursor} = 1 .. cursor
        /\ DOMAIN sst' = DOMAIN sst \cup {compaction.result[cursor].id}
        /\ \A i \in DOMAIN unindexed :
               unindexed[i].id \in DOMAIN sst' /\ sst'[unindexed[i].id] = unindexed[i].table
    BY <2>1, <1>g
  <2>3. Deprecated = CompactionRange /\ Activated \cup {cursor} = DOMAIN compaction.result
    BY <2>1, <2>2, <1>a DEF Deprecated
  <2>4. \A n \in DOMAIN sst' :
            \/ \E i \in DOMAIN indexQueue \ CompactionRange : indexQueue[i].id = n
            \/ \E i \in DOMAIN unindexed : unindexed[i].id = n
            \/ \E i \in DOMAIN compaction.result : compaction.result[i].id = n
    BY <2>2, <2>3, <1>d
  <2>5. \A n \in DOMAIN sst' : \/ \E i \in DOMAIN indexQueue' : indexQueue'[i].id = n
                               \/ \E i \in DOMAIN unindexed' : unindexed'[i].id = n
    BY <2>1, <2>4, <1>7, ReplacedElements
  <2> QED
    BY <2>1, <2>2, <2>5, <1>e DEF SSTableInv
<1>8. ASSUME NEW i \in DOMAIN flushFutures, FlushJob(i) PROVE SSTableInv'
  <2>1. UNCHANGED <<sst, indexQueue, unindexed, compactionStartIndex, compaction, pc, cursor>>
    BY <1>8 DEF FlushJob, FlushFinish, FlushBegin, indexVars, callVars
  <2>2. Deprecated' = Deprecated /\ Activated' = Activated
    BY <2>1 DEF Deprecated, Activated, CompactionRange
  <2>3. ASSUME 1 \in DOMAIN flushFutures
        PROVE  flushFutures'[1].table = flushFutures[1].table
    <3>1. flushFutures[1] \in FlushJobs
      BY <2>3, <1>a
    <3>2. \/ flushFutures'[1] = flushFutures[1]
          \/ flushFutures'[1] = [flushFutures[1] EXCEPT !.stage = "writing"]
          \/ flushFutures'[1] = [flushFutures[1] EXCEPT !.stage = "ready"]
      BY <1>8, <2>3, <1>a DEF FlushJob, FlushBegin, FlushFinish
    <3> QED
      BY <3>1, <3>2 DEF FlushJobs
  <2>4. pc = "pop" => 1 \in DOMAIN flushFutures
    BY <1>a, <1>b DEF CallInv
  <2> QED
    BY <2>1, <2>2, <2>3, <2>4, <1>d DEF SSTableInv
<1>9. CASE CompactionStep
  <2>1. UNCHANGED <<sst, indexQueue, unindexed, compactionStartIndex, flushFutures, pc, cursor>>
    BY <1>9 DEF CompactionStep, CompactionJob, CompactionBegin, CompactionMerge,
                CompactionFlushBegin, CompactionFlushFinish, memVars, callVars
  <2>2. ~InUpdate
    BY <1>9, <1>b DEF CompactionStep, CompactionJob, CompactionBegin, CompactionMerge,
                      CompactionFlushBegin, CompactionFlushFinish, UpdateInv
  <2>3. ~InUpdate'
    BY <2>1, <2>2 DEF InUpdate
  <2> QED
    BY <2>1, <2>2, <2>3, <1>c, <1>d, <1>e DEF SSTableInv
<1>10. CASE UNCHANGED <<sst, indexQueue, unindexed>> /\ ~InUpdate /\ ~InUpdate' /\ pc' # "pop"
  BY <1>10, <1>c, <1>d, <1>e DEF SSTableInv
<1>11. CASE UNCHANGED vars
  <2>1. Deprecated' = Deprecated /\ Activated' = Activated
    BY <1>11 DEF Deprecated, Activated, CompactionRange, vars, indexVars, callVars
  <2> QED
    BY <2>1, <1>11, <1>d DEF SSTableInv, vars, memVars, indexVars, dirVars, callVars
<1> QED
  BY <1>1, <1>2, <1>3, <1>4, <1>5, <1>6, <1>7, <1>8, <1>9, <1>10, <1>11, SSTableFrame

-----------------------------------------------------------------------------
(***************************************************************************)
(* Every temporary file belongs to a job that knows it.                    *)
(***************************************************************************)

LEMMA InProgressFilesInvStep ==
    IndInv /\ InProgressFilesInv /\ [Next]_vars => InProgressFilesInv'
<1> SUFFICES ASSUME IndInv, InProgressFilesInv, [Next]_vars PROVE InProgressFilesInv'
  OBVIOUS
<1>a. flushFutures \in Seq(FlushJobs)
  BY IdTypes
<1>b. CallInv
  BY DEF IndInv
<1>c. \A n \in DOMAIN inProgress :
          \E i \in DOMAIN flushFutures : i >= FirstPending /\ flushFutures[i].id = n
  BY DEF InProgressFilesInv
<1>d. ASSUME flushFutures # <<>>, pc # "pop", pc' = "pop", UNCHANGED flushFutures,
             inProgress' = Without(inProgress, Head(flushFutures).id)
      PROVE  InProgressFilesInv'
  <2>1. FirstPending = 1 /\ FirstPending' = 2 /\ Head(flushFutures) = flushFutures[1]
    BY <1>a, <1>d DEF FirstPending
  <2>2. DOMAIN inProgress' = DOMAIN inProgress \ {flushFutures[1].id}
    BY <2>1, <1>d DEF Without
  <2>3. ASSUME NEW n \in DOMAIN inProgress'
        PROVE  \E i \in DOMAIN flushFutures' : i >= 2 /\ flushFutures'[i].id = n
    <3>1. PICK i \in DOMAIN flushFutures : flushFutures[i].id = n
      BY <2>2, <2>3, <1>c
    <3>2. i # 1
      BY <3>1, <2>2, <2>3
    <3>3. i >= 2
      BY <3>2, <1>a
    <3> QED
      BY <3>1, <3>3, <1>d
  <2> QED
    BY <2>1, <2>3 DEF InProgressFilesInv
<1>1. CASE FlushReady
  BY <1>1, <1>d DEF FlushReady, OldestFlushReady, ActivateInProgress, memVars
<1>2. CASE CloseFlush
  BY <1>2, <1>d DEF CloseFlush, OldestFlushReady, ActivateInProgress, memVars
<1>3. CASE PopMemTable
  <2>1. /\ flushFutures # <<>> /\ pc = "pop" /\ pc' # "pop"
        /\ flushFutures' = Tail(flushFutures) /\ UNCHANGED inProgress
    BY <1>3, <1>b DEF PopMemTable, CallInv
  <2>2. FirstPending = 2 /\ FirstPending' = 1
    BY <2>1 DEF FirstPending
  <2>3. ASSUME NEW i \in DOMAIN flushFutures, i >= 2
        PROVE  /\ i - 1 \in DOMAIN flushFutures' /\ i - 1 >= 1
               /\ flushFutures'[i - 1] = flushFutures[i]
    BY <2>1, <2>3, <1>a
  <2> QED
    BY <2>1, <2>2, <2>3, <1>c DEF InProgressFilesInv
<1>4. CASE Roll
  <2> DEFINE job == [id |-> sstCounter + 1, log |-> memTableQueue[Back].log,
                     table |-> memTableQueue[Back].table, stage |-> "launched"]
  <2>1. /\ flushFutures' = Append(flushFutures, job) /\ UNCHANGED inProgress
        /\ pc # "pop" /\ pc' # "pop"
    BY <1>4 DEF Roll, RollMemTable, LaunchFlushToDisk, Return
  <2> HIDE DEF job
  <2>2. /\ DOMAIN flushFutures \subseteq DOMAIN flushFutures'
        /\ \A i \in DOMAIN flushFutures : flushFutures'[i] = flushFutures[i]
    BY <2>1, <1>a
  <2> QED
    BY <2>1, <2>2, <1>c DEF InProgressFilesInv, FirstPending
<1>5. ASSUME NEW i \in DOMAIN flushFutures, FlushJob(i) PROVE InProgressFilesInv'
  <2>1. /\ UNCHANGED pc /\ DOMAIN flushFutures' = DOMAIN flushFutures
        /\ flushFutures[i].stage # "ready"
        /\ DOMAIN inProgress' = DOMAIN inProgress \cup {flushFutures[i].id}
    BY <1>5, <1>a DEF FlushJob, FlushBegin, FlushFinish, callVars, Put
  <2>2. ASSUME NEW j \in DOMAIN flushFutures
        PROVE  flushFutures'[j].id = flushFutures[j].id
    <3>1. flushFutures[j] \in FlushJobs
      BY <1>a
    <3>2. \/ flushFutures'[j] = flushFutures[j]
          \/ flushFutures'[j] = [flushFutures[j] EXCEPT !.stage = "writing"]
          \/ flushFutures'[j] = [flushFutures[j] EXCEPT !.stage = "ready"]
      BY <1>5, <1>a DEF FlushJob, FlushBegin, FlushFinish
    <3> QED
      BY <3>1, <3>2 DEF FlushJobs
  <2>3. i >= FirstPending
    <3>1. pc = "pop" => i # 1
      BY <2>1, <1>b DEF CallInv
    <3> QED
      BY <3>1, <1>a DEF FirstPending
  <2>4. FirstPending' = FirstPending
    BY <2>1 DEF FirstPending
  <2> QED
    BY <2>1, <2>2, <2>3, <2>4, <1>c DEF InProgressFilesInv
<1>6. CASE ActivateLast
  BY <1>6, <1>c DEF ActivateLast, memVars, InProgressFilesInv, FirstPending
<1>7. CASE UNCHANGED <<indexQueue, unindexed, flushFutures, sstCounter, inProgress, FirstPending>>
  BY <1>7, <1>c DEF InProgressFilesInv
<1> QED
  BY <1>1, <1>2, <1>3, <1>4, <1>5, <1>6, <1>7, NameFrame

LEMMA MergedFilesInvStep == IndInv /\ MergedFilesInv /\ [Next]_vars => MergedFilesInv'
<1> SUFFICES ASSUME IndInv, MergedFilesInv, [Next]_vars PROVE MergedFilesInv'
  OBVIOUS
<1>a. /\ compaction.result \in Seq(Indexes) /\ compaction.currId \in Nat
      /\ compaction.stage \in {"none", "launched", "merging", "flushing", "writing", "ready"}
  BY CompactionTypes
<1>b. UpdateInv /\ ProgressInv /\ NoCompactionInFlushes /\ CallInv /\ IsCompaction(compaction)
  BY DEF IndInv, TypeOK, SSTableIndexQueueTypeOK
<1>c. /\ \A n \in DOMAIN merged :
             \/ compaction.stage = "writing" /\ compaction.currId = n
             \/ \E i \in DOMAIN compaction.result \ Activated : compaction.result[i].id = n
      /\ compaction.stage = "none" => compaction.result = <<>>
  BY DEF MergedFilesInv
<1>d. compaction.result = <<>> /\ compaction.stage # "writing" => DOMAIN merged = {}
  <2>1. compaction.result = <<>> => DOMAIN compaction.result = {}
    OBVIOUS
  <2> QED
    BY <2>1, <1>c
<1>e. /\ ~InUpdate => Activated = {}
      /\ ~InUpdate' => Activated' = {}
  BY DEF InUpdate, Activated
<1>1. CASE CompactionStep
  <2>0. /\ CompactionJob /\ UNCHANGED pc
        /\ compaction.stage \in {"launched", "merging", "flushing", "writing"}
    BY <1>1 DEF CompactionStep, CompactionJob, CompactionBegin, CompactionMerge,
                CompactionFlushBegin, CompactionFlushFinish, callVars
  <2>a. Activated = {} /\ Activated' = {}
    BY <2>0, <1>b, <1>e DEF UpdateInv, InUpdate
  <2>1. CASE CompactionBegin
    <3>1. compaction.result = <<>> /\ compaction.stage # "writing"
      BY <2>1, <1>b DEF CompactionBegin, ProgressInv
    <3>2. UNCHANGED merged /\ compaction'.stage # "none"
      BY <2>1 DEF CompactionBegin, StartGroup
    <3> QED
      BY <3>1, <3>2, <1>d DEF MergedFilesInv
  <2>2. CASE CompactionMerge
    <3>1. /\ UNCHANGED merged /\ compaction'.result = compaction.result
          /\ compaction.stage = "merging" /\ compaction'.stage # "none"
      BY <2>2 DEF CompactionMerge
    <3> QED
      BY <3>1, <2>a, <1>c DEF MergedFilesInv
  <2>3. CASE CompactionFlushBegin
    <3>1. /\ DOMAIN merged' = DOMAIN merged \cup {compaction.currId}
          /\ compaction'.result = compaction.result /\ compaction'.currId = compaction.currId
          /\ compaction.stage = "flushing" /\ compaction'.stage = "writing"
      BY <2>3, <1>b DEF CompactionFlushBegin, IsCompaction, Put
    <3> QED
      BY <3>1, <2>a, <1>c DEF MergedFilesInv
  <2>4. CASE CompactionFlushFinish
    <3> DEFINE index == [id |-> compaction.currId, table |-> compaction.currTable]
               result == Append(compaction.result, index)
    <3>1. /\ DOMAIN merged' = DOMAIN merged \cup {compaction.currId}
          /\ compaction'.result = result /\ compaction'.stage # "none"
      BY <2>4 DEF CompactionFlushFinish, StartGroup, Put
    <3>2. index.id = compaction.currId
      OBVIOUS
    <3> HIDE DEF index
    <3>3. /\ DOMAIN compaction.result \subseteq DOMAIN result
          /\ \A i \in DOMAIN compaction.result : result[i] = compaction.result[i]
          /\ Len(compaction.result) + 1 \in DOMAIN result
          /\ result[Len(compaction.result) + 1].id = compaction.currId
      BY <3>2, <1>a
    <3> HIDE DEF result
    <3>4. ASSUME NEW n \in DOMAIN merged'
          PROVE  \E i \in DOMAIN result : result[i].id = n
      BY <3>1, <3>3, <2>a, <1>c
    <3> QED
      BY <3>1, <3>4, <2>a DEF MergedFilesInv
  <2> QED
    BY <2>0, <2>1, <2>2, <2>3, <2>4 DEF CompactionJob
<1>2. CASE FlushesChecked
  <2>1. UNCHANGED merged /\ ~InUpdate /\ ~InUpdate' /\ compaction.stage = "none"
    BY <1>2, <1>b DEF FlushesChecked, dirVars, InUpdate, NoCompactionInFlushes, CallInv
  <2>2. DOMAIN merged = {}
    BY <2>1, <1>c, <1>d
  <2>3. compaction'.stage = "none" => compaction'.result = <<>>
    BY <1>2, <2>1, <1>c DEF FlushesChecked, TryLaunchCompaction
  <2> QED
    BY <2>1, <2>2, <2>3 DEF MergedFilesInv
<1>3. CASE CompactionReady \/ DeprecateNext
  <2>1. /\ UNCHANGED <<merged, compaction>> /\ pc # "activate"
        /\ pc' = "activate" => cursor' = 1
    BY <1>3 DEF CompactionReady, DeprecateNext, indexVars, dirVars
  <2>2. Activated = {} /\ Activated' = {}
    BY <2>1 DEF Activated
  <2> QED
    BY <2>1, <2>2, <1>c DEF MergedFilesInv
\* A .merged file becomes an SSTable.
<1>f. ASSUME pc = "activate", ActivateCompacted(cursor)
      PROVE  /\ compaction.stage = "ready"
             /\ cursor \in DOMAIN compaction.result
             /\ Activated = 1 .. cursor - 1 /\ Activated \cup {cursor} = 1 .. cursor
             /\ DOMAIN merged' = DOMAIN merged \ {compaction.result[cursor].id}
  <2>1. cursor \in 1 .. Len(compaction.result) /\ compaction.stage = "ready"
    BY <1>b, <1>f DEF UpdateInv, InUpdate
  <2>2. cursor \in DOMAIN compaction.result /\ cursor \in Nat /\ cursor >= 1
    BY <2>1, <1>a
  <2>3. Activated = 1 .. cursor - 1 /\ Activated \cup {cursor} = 1 .. cursor
    BY <2>2, <1>f DEF Activated
  <2>4. DOMAIN merged' = DOMAIN merged \ {compaction.result[cursor].id}
    BY <1>f DEF ActivateCompacted, ActivateMerged, Without
  <2> QED
    BY <2>1, <2>2, <2>3, <2>4
<1>4. CASE ActivateNext
  <2>1. /\ pc = "activate" /\ pc' = "activate" /\ ActivateCompacted(cursor)
        /\ UNCHANGED compaction /\ cursor' = cursor + 1
    BY <1>4 DEF ActivateNext, indexVars
  <2>2. /\ compaction.stage = "ready" /\ cursor \in DOMAIN compaction.result
        /\ Activated \cup {cursor} = 1 .. cursor
        /\ DOMAIN merged' = DOMAIN merged \ {compaction.result[cursor].id}
    BY <2>1, <1>f
  <2>3. Activated' = Activated \cup {cursor}
    <3>1. cursor \in Nat
      BY <2>2, <1>a
    <3> QED
      BY <3>1, <2>1, <2>2 DEF Activated
  <2>4. ASSUME NEW n \in DOMAIN merged'
        PROVE  \E i \in DOMAIN compaction.result \ Activated' : compaction.result[i].id = n
    BY <2>2, <2>3, <1>c
  <2> QED
    BY <2>1, <2>2, <2>4 DEF MergedFilesInv
<1>5. CASE ActivateLast
  <2>1. /\ pc = "activate" /\ ActivateCompacted(cursor)
        /\ cursor = Len(compaction.result) /\ compaction'.result = <<>>
    BY <1>5 DEF ActivateLast, ReplaceCompacted, NoCompaction
  <2>2. /\ compaction.stage = "ready" /\ cursor \in DOMAIN compaction.result
        /\ Activated \cup {cursor} = 1 .. cursor
        /\ DOMAIN merged' = DOMAIN merged \ {compaction.result[cursor].id}
    BY <2>1, <1>f
  <2>3. DOMAIN compaction.result = Activated \cup {cursor}
    BY <2>1, <2>2, <1>a
  <2>4. DOMAIN merged' = {}
    BY <2>2, <2>3, <1>c
  <2> QED
    BY <2>1, <2>4 DEF MergedFilesInv
<1>6. CASE UNCHANGED <<compaction, merged>> /\ ~InUpdate /\ ~InUpdate'
  BY <1>6, <1>c, <1>e DEF MergedFilesInv
<1>7. CASE UNCHANGED <<compaction, merged, sst, pc, cursor>>
  BY <1>7, <1>c DEF MergedFilesInv, Activated
<1> QED
  BY <1>1, <1>2, <1>3, <1>4, <1>5, <1>6, <1>7, UpdateFrame

LEMMA ClosedFrame ==
    [Next]_vars /\ pc' = "closed" =>
        \/ CloseDone
        \/ \E i \in DOMAIN flushFutures : FlushJob(i)
        \/ CompactionStep
        \/ UNCHANGED vars
BY DEF Next, Client, CallStep, CheckFutures, Closed, Enter, CallGet, CallSet, CallRemove,
       CallClose, NoCompactionToCheck, CompactionRunning, CompactionReady, DeprecateNext,
       ActivateNext, ActivateLast, FlushReady, PopMemTable, FlushesChecked, Get, FirstMemTable,
       Write, Roll, Return, CloseFlush, callVars

LEMMA ClosedInvStep == IndInv /\ ClosedInv /\ [Next]_vars => ClosedInv'
<1> SUFFICES ASSUME IndInv, ClosedInv, [Next]_vars, pc' = "closed"
             PROVE  flushFutures' = <<>> /\ compaction'.stage = "none" /\ deprecated' = {}
  BY DEF ClosedInv
<1>1. CASE CloseDone
  BY <1>1 DEF CloseDone, RemoveDeprecated, memVars, indexVars
<1>2. ASSUME NEW i \in DOMAIN flushFutures, FlushJob(i) PROVE FALSE
  <2>1. pc = "closed"
    BY <1>2 DEF FlushJob, callVars
  <2> QED
    BY <2>1, <1>2 DEF ClosedInv
<1>3. CASE CompactionStep
  <2>1. pc = "closed" /\ compaction.stage # "none"
    BY <1>3 DEF CompactionStep, callVars, CompactionJob, CompactionBegin, CompactionMerge,
                CompactionFlushBegin, CompactionFlushFinish
  <2> QED
    BY <2>1 DEF ClosedInv
<1>4. CASE UNCHANGED vars
  BY <1>4 DEF vars, memVars, indexVars, dirVars, callVars, ClosedInv
<1> QED
  BY <1>1, <1>2, <1>3, <1>4, ClosedFrame

-----------------------------------------------------------------------------
(***************************************************************************)
(* What a key reads as from the files.                                     *)
(***************************************************************************)

\* Files that hold the tables of a sequence, under names in its order.
LEMMA NewestFileIsNewest ==
    ASSUME NEW ts \in Seq(TableSet), NEW ids \in [DOMAIN ts -> Nat], NEW files, NEW k,
           \A i, j \in DOMAIN ts : i < j => ids[i] < ids[j],
           \A i \in DOMAIN ts : ids[i] \in DOMAIN files /\ files[ids[i]] = ts[i],
           \A n \in DOMAIN files : \E i \in DOMAIN ts : ids[i] = n
    PROVE  NewestFile(files, k) = Newest(ts, k)
<1> DEFINE F == {n \in DOMAIN files : k \in DOMAIN files[n]}
<1>1. NewestFile(files, k) = IF F = {} THEN Absent ELSE files[Max(F)][k]
  BY DEF NewestFile
<1>2. CASE Newest(ts, k) = Absent /\ \A i \in DOMAIN ts : k \notin DOMAIN ts[i]
  <2>1. F = {}
    BY <1>2
  <2> QED
    BY <2>1, <1>1, <1>2
<1>3. CASE \E m \in DOMAIN ts : /\ k \in DOMAIN ts[m]
                                /\ \A i \in DOMAIN ts : k \in DOMAIN ts[i] => i <= m
  <2>1. PICK m \in DOMAIN ts : /\ k \in DOMAIN ts[m]
                               /\ \A i \in DOMAIN ts : k \in DOMAIN ts[i] => i <= m
    BY <1>3
  <2>2. F \subseteq Nat /\ ids[m] \in F
    BY <2>1
  <2>3. ASSUME NEW n \in F PROVE ids[m] >= n
    <3>1. PICK i \in DOMAIN ts : ids[i] = n
      OBVIOUS
    <3>2. i <= m /\ i \in Nat /\ m \in Nat
      BY <3>1, <2>1
    <3>3. i = m \/ i < m
      BY <3>2
    <3>4. ids[i] = ids[m] \/ ids[i] < ids[m]
      BY <3>3
    <3> QED
      BY <3>1, <3>4
  <2>4. Max(F) = ids[m]
    BY <2>2, <2>3, MaxIs
  <2>5. Newest(ts, k) = ts[m][k]
    BY <2>1, NewestAt
  <2> QED
    BY <2>2, <2>4, <2>5, <1>1
<1> QED
  BY <1>2, <1>3, NewestIsSomewhere

\* The .sst files hold the tables of a queue of indexes.
LEMMA StoredQueue ==
    ASSUME NEW q \in Seq(Indexes), NEW files, NEW k,
           \A i, j \in DOMAIN q : i < j => q[i].id < q[j].id,
           \A i \in DOMAIN q : q[i].id \in DOMAIN files /\ files[q[i].id] = q[i].table,
           \A n \in DOMAIN files : \E i \in DOMAIN q : q[i].id = n
    PROVE  NewestFile(files, k) = Newest(TablesOf(q), k)
<1>1. \A r \in Indexes : r.id \in Nat /\ r.table \in TableSet
  BY DEF Indexes
<1> DEFINE ids == [i \in DOMAIN q |-> q[i].id]
<1>2. /\ TablesOf(q) \in Seq(TableSet) /\ DOMAIN TablesOf(q) = DOMAIN q
      /\ \A i \in DOMAIN q : TablesOf(q)[i] = q[i].table
  BY <1>1, TablesOfQueue
<1>3. ids \in [DOMAIN TablesOf(q) -> Nat] /\ \A i \in DOMAIN q : ids[i] = q[i].id
  <2>1. \A i \in DOMAIN q : q[i] \in Indexes
    OBVIOUS
  <2> QED
    BY <2>1, <1>1, <1>2
<1> DEFINE ts == TablesOf(q)
<1> HIDE DEF ids, ts
<1>4. /\ ts \in Seq(TableSet) /\ ids \in [DOMAIN ts -> Nat]
      /\ \A i, j \in DOMAIN ts : i < j => ids[i] < ids[j]
      /\ \A i \in DOMAIN ts : ids[i] \in DOMAIN files /\ files[ids[i]] = ts[i]
      /\ \A n \in DOMAIN files : \E i \in DOMAIN ts : ids[i] = n
  <2>1. ts \in Seq(TableSet) /\ DOMAIN ts = DOMAIN q /\ ids \in [DOMAIN ts -> Nat]
    BY <1>2, <1>3 DEF ts
  <2>2. \A i \in DOMAIN q : ts[i] = q[i].table
    BY <1>2 DEF ts
  <2>3. \A i, j \in DOMAIN q : i < j => ids[i] < ids[j]
    BY <1>3
  <2>4. \A i \in DOMAIN q : ids[i] \in DOMAIN files /\ files[ids[i]] = ts[i]
    BY <2>2, <1>3
  <2>5. \A n \in DOMAIN files : \E i \in DOMAIN q : ids[i] = n
    BY <1>3
  <2> QED
    BY <2>1, <2>3, <2>4, <2>5
<1>5. NewestFile(files, k) = Newest(ts, k)
  BY <1>4, NewestFileIsNewest
<1> QED
  BY <1>5 DEF ts

\* The logs hold the tables of a queue of MemTables.
LEMMA LoggedQueue ==
    ASSUME NEW q \in Seq(MemTables), NEW logs, NEW k,
           \A i, j \in DOMAIN q : i < j => q[i].log < q[j].log,
           \A i \in DOMAIN q : q[i].log \in DOMAIN logs /\ q[i].table = Replay(logs[q[i].log]),
           \A n \in DOMAIN logs : \E i \in DOMAIN q : q[i].log = n
    PROVE  NewestFile([n \in DOMAIN logs |-> Replay(logs[n])], k) = Newest(TablesOf(q), k)
<1>1. \A r \in MemTables : r.log \in Nat /\ r.table \in TableSet
  BY DEF MemTables
<1> DEFINE ids == [i \in DOMAIN q |-> q[i].log]
           files == [n \in DOMAIN logs |-> Replay(logs[n])]
<1>2. /\ TablesOf(q) \in Seq(TableSet) /\ DOMAIN TablesOf(q) = DOMAIN q
      /\ \A i \in DOMAIN q : TablesOf(q)[i] = q[i].table
  BY <1>1, TablesOfQueue
<1>3. ids \in [DOMAIN TablesOf(q) -> Nat] /\ \A i \in DOMAIN q : ids[i] = q[i].log
  <2>1. \A i \in DOMAIN q : q[i] \in MemTables
    OBVIOUS
  <2> QED
    BY <2>1, <1>1, <1>2
<1>4. DOMAIN files = DOMAIN logs /\ \A n \in DOMAIN logs : files[n] = Replay(logs[n])
  OBVIOUS
<1> DEFINE ts == TablesOf(q)
<1> HIDE DEF ids, files, ts
<1>5. /\ ts \in Seq(TableSet) /\ ids \in [DOMAIN ts -> Nat]
      /\ \A i, j \in DOMAIN ts : i < j => ids[i] < ids[j]
      /\ \A i \in DOMAIN ts : ids[i] \in DOMAIN files /\ files[ids[i]] = ts[i]
      /\ \A n \in DOMAIN files : \E i \in DOMAIN ts : ids[i] = n
  <2>1. ts \in Seq(TableSet) /\ DOMAIN ts = DOMAIN q /\ ids \in [DOMAIN ts -> Nat]
    BY <1>2, <1>3 DEF ts
  <2>2. \A i \in DOMAIN q : ts[i] = q[i].table
    BY <1>2 DEF ts
  <2>3. \A i, j \in DOMAIN q : i < j => ids[i] < ids[j]
    BY <1>3
  <2>4. \A i \in DOMAIN q : ids[i] \in DOMAIN files /\ files[ids[i]] = ts[i]
    BY <2>2, <1>3, <1>4
  <2>5. \A n \in DOMAIN files : \E i \in DOMAIN q : ids[i] = n
    BY <1>3, <1>4
  <2> QED
    BY <2>1, <2>3, <2>4, <2>5
<1>6. NewestFile(files, k) = Newest(ts, k)
  BY <1>5, NewestFileIsNewest
<1> QED
  BY <1>6 DEF files, ts

\* In memory, too, the MemTables come first.
LEMMA QueuesRead ==
    ASSUME NEW q \in Seq(Indexes), NEW c \in Seq(MemTables), NEW k
    PROVE  Newest(TablesOf(q \o c), k) =
               IF Newest(TablesOf(c), k) # Absent THEN Newest(TablesOf(c), k)
               ELSE Newest(TablesOf(q), k)
<1>1. \A r \in Indexes \cup MemTables : r.table \in TableSet
  BY DEF Indexes, MemTables
<1>2. q \in Seq(Indexes \cup MemTables) /\ c \in Seq(Indexes \cup MemTables)
  OBVIOUS
<1>3. TablesOf(q \o c) = TablesOf(q) \o TablesOf(c)
  BY <1>1, <1>2, TablesOfConcatenation
<1>4. TablesOf(q) \in Seq(TableSet) /\ TablesOf(c) \in Seq(TableSet)
  BY <1>1, <1>2, TablesOfQueue
<1> QED
  BY <1>3, <1>4, NewestOfConcatenation

\* Outside update, the .sst files hold the tables of the indexes and those the
\* destructor has flushed.
LEMMA FilesRead ==
    ASSUME indexQueue \in Seq(Indexes), unindexed \in Seq(Indexes),
           IdInv, IndexMatchesFile, SSTableInv, ~InUpdate, NEW k
    PROVE  /\ indexQueue \o unindexed \in Seq(Indexes)
           /\ NewestFile(sst, k) = Newest(TablesOf(indexQueue \o unindexed), k)
<1>1. PICK a \in Seq(Indexes), b \in Seq(Indexes) : a = indexQueue /\ b = unindexed
  OBVIOUS
<1>2. PICK files : files = sst
  OBVIOUS
<1> DEFINE q == a \o b
<1>3. /\ q \in Seq(Indexes) /\ Len(a) \in Nat /\ Len(b) \in Nat
      /\ DOMAIN q = 1 .. Len(a) + Len(b)
      /\ DOMAIN a = 1 .. Len(a) /\ DOMAIN b = 1 .. Len(b)
      /\ \A i \in 1 .. Len(a) + Len(b) : q[i] = IF i <= Len(a) THEN a[i] ELSE b[i - Len(a)]
  BY Concatenation
<1> HIDE DEF q
<1>4. \A i \in DOMAIN q : \/ i \in DOMAIN a /\ q[i] = a[i]
                          \/ /\ i > Len(a) /\ i - Len(a) \in DOMAIN b
                             /\ q[i] = b[i - Len(a)]
  BY <1>3
<1>5. \A i, j \in DOMAIN q : i < j => q[i].id < q[j].id
  <2> SUFFICES ASSUME NEW i \in DOMAIN q, NEW j \in DOMAIN q, i < j PROVE q[i].id < q[j].id
    OBVIOUS
  <2>1. /\ \A m, n \in DOMAIN a : m < n => a[m].id < a[n].id
        /\ \A m, n \in DOMAIN b : m < n => b[m].id < b[n].id
        /\ \A m \in DOMAIN a, n \in DOMAIN b : a[m].id < b[n].id
    BY <1>1 DEF IdInv
  <2>2. i \in Nat /\ j \in Nat
    BY <1>3
  <2>3. CASE j <= Len(a)
    <3>1. i \in DOMAIN a /\ j \in DOMAIN a /\ q[i] = a[i] /\ q[j] = a[j]
      BY <2>2, <2>3, <1>3
    <3> QED
      BY <3>1, <2>1
  <2>4. CASE i <= Len(a) /\ j > Len(a)
    <3>1. i \in DOMAIN a /\ j - Len(a) \in DOMAIN b /\ q[i] = a[i] /\ q[j] = b[j - Len(a)]
      BY <2>2, <2>4, <1>3
    <3> QED
      BY <3>1, <2>1
  <2>5. CASE i > Len(a)
    <3>1. /\ i - Len(a) \in DOMAIN b /\ j - Len(a) \in DOMAIN b
          /\ i - Len(a) < j - Len(a)
          /\ q[i] = b[i - Len(a)] /\ q[j] = b[j - Len(a)]
      BY <2>2, <2>5, <1>3
    <3> QED
      BY <3>1, <2>1
  <2> QED
    BY <2>2, <2>3, <2>4, <2>5, <1>3
<1>6. \A i \in DOMAIN q : q[i].id \in DOMAIN files /\ files[q[i].id] = q[i].table
  <2>1. \A i \in DOMAIN a : a[i].id \in DOMAIN files /\ files[a[i].id] = a[i].table
    BY <1>1, <1>2 DEF IndexMatchesFile
  <2>2. \A i \in DOMAIN b : b[i].id \in DOMAIN files /\ files[b[i].id] = b[i].table
    BY <1>1, <1>2 DEF SSTableInv
  <2> QED
    BY <2>1, <2>2, <1>4
<1>7. \A n \in DOMAIN files : \E i \in DOMAIN q : q[i].id = n
  <2> SUFFICES ASSUME NEW n \in DOMAIN files PROVE \E i \in DOMAIN q : q[i].id = n
    OBVIOUS
  <2>1. Deprecated = {} /\ Activated = {}
    BY DEF InUpdate, Deprecated, Activated
  <2>2. \/ \E i \in DOMAIN a : a[i].id = n
        \/ \E i \in DOMAIN b : b[i].id = n
    BY <2>1, <1>1, <1>2 DEF SSTableInv
  <2>3. /\ \A i \in DOMAIN a : i \in DOMAIN q /\ q[i] = a[i]
        /\ \A i \in DOMAIN b : Len(a) + i \in DOMAIN q /\ q[Len(a) + i] = b[i]
    BY <1>3
  <2> QED
    BY <2>2, <2>3
<1>8. NewestFile(files, k) = Newest(TablesOf(q), k)
  BY <1>3, <1>5, <1>6, <1>7, StoredQueue
<1> QED
  BY <1>1, <1>2, <1>3, <1>8 DEF q

LEMMA DiskFromInvariant == IndInv /\ FilesInv => DiskHoldsContents
<1> SUFFICES ASSUME IndInv, FilesInv, ~InUpdate, NEW k \in Keys
             PROVE  DiskView(k) = View(k)
  BY DEF DiskHoldsContents
<1>1. PICK q \in Seq(Indexes), c \in Seq(MemTables) :
          /\ q = indexQueue \o unindexed /\ c = memTableQueue
          /\ NewestFile(sst, k) = Newest(TablesOf(q), k)
  <2>1. indexQueue \in Seq(Indexes) /\ unindexed \in Seq(Indexes)
    BY IdTypes
  <2>2. IdInv /\ IndexMatchesFile /\ SSTableInv
    BY DEF IndInv, FilesInv
  <2>3. /\ indexQueue \o unindexed \in Seq(Indexes)
        /\ NewestFile(sst, k) = Newest(TablesOf(indexQueue \o unindexed), k)
    BY <2>1, <2>2, FilesRead
  <2> QED
    BY <2>3, LogTypes
<1>2. PICK logs : logs = txl
  OBVIOUS
<1>3. NewestFile([n \in DOMAIN logs |-> Replay(logs[n])], k) = Newest(TablesOf(c), k)
  <2>1. \A i, j \in DOMAIN c : i < j => c[i].log < c[j].log
    BY <1>1 DEF IndInv, LogInv
  <2>2. \A i \in DOMAIN c : c[i].log \in DOMAIN logs /\ c[i].table = Replay(logs[c[i].log])
    BY <1>1, <1>2 DEF IndInv, LogInv, FilesInv, ReplayInv
  <2>3. \A n \in DOMAIN logs : \E i \in DOMAIN c : c[i].log = n
    BY <1>1, <1>2 DEF FilesInv, ReplayInv
  <2> QED
    BY <2>1, <2>2, <2>3, LoggedQueue
<1>4. Newest(TablesOf(q \o c), k) =
           IF Newest(TablesOf(c), k) # Absent THEN Newest(TablesOf(c), k)
           ELSE Newest(TablesOf(q), k)
  BY QueuesRead
<1>5. View(k) = UnderlyingValue(Newest(TablesOf(q \o c), k))
  BY <1>1 DEF View
<1>6. DiskView(k) =
           UnderlyingValue(IF Newest(TablesOf(c), k) # Absent THEN Newest(TablesOf(c), k)
                           ELSE Newest(TablesOf(q), k))
  <2>1. NewestFile([n \in DOMAIN txl |-> Replay(txl[n])], k) = Newest(TablesOf(c), k)
    BY <1>2, <1>3
  <2> QED
    BY <2>1, <1>1 DEF DiskView
<1> QED
  BY <1>4, <1>5, <1>6

-----------------------------------------------------------------------------
(***************************************************************************)
(* Theorems.                                                               *)
(***************************************************************************)

LEMMA FilesInvInit == Init => FilesInv
BY DEF Init, EmptyDirectory, MemTableQueueInit, SSTableIndexQueueInit, NoCompaction, FilesInv,
       ReplayInv, SSTableInv, InProgressFilesInv, MergedFilesInv, ClosedInv

\* The files are those of the MemTables, of the queue and of the jobs, and
\* hold what these hold, in every state of every instance.
THEOREM FilesInvariance == Spec => []FilesInv
<1>1. IndInv /\ FilesInv /\ [Next]_vars => FilesInv'
  BY ReplayInvStep, SSTableInvStep, InProgressFilesInvStep, MergedFilesInvStep, ClosedInvStep
     DEF FilesInv
<1> QED
  BY <1>1, FilesInvInit, Invariance, PTL DEF Spec

\* pop gives a log up only when the .sst file of its MemTable is there: no
\* write is without a file at any moment.
THEOREM LogsAreKept == Spec => LogOutlivesMemTable
<1>1. IndInv /\ FilesInv /\ [Next]_vars =>
          \A n \in DOMAIN txl :
              n \notin DOMAIN txl' => \E i \in DOMAIN sst : sst[i] = Replay(txl[n])
  <2> SUFFICES ASSUME IndInv, FilesInv, [Next]_vars,
                      NEW n \in DOMAIN txl, n \notin DOMAIN txl'
               PROVE  \E i \in DOMAIN sst : sst[i] = Replay(txl[n])
    OBVIOUS
  <2>1. PopMemTable
    BY LogFrame DEF FirstMemTable, Write, Roll, RollMemTable, EmplaceBack, OpenLog, WriteBack, Put
  <2>2. 1 \in DOMAIN flushFutures /\ 1 \in DOMAIN memTableQueue /\ pc = "pop"
    <3>1. pc = "pop" /\ flushFutures # <<>>
      BY <2>1 DEF PopMemTable, IndInv, CallInv
    <3>2. 1 \in DOMAIN flushFutures
      BY <3>1, IdTypes
    <3>3. 1 < Len(memTableQueue)
      BY <3>2 DEF IndInv, FuturesMatchQueue
    <3> QED
      BY <3>1, <3>2, <3>3, LogTypes
  <2>3. n = memTableQueue[1].log
    <3>1. txl' = Without(txl, memTableQueue[1].log)
      BY <2>1, <2>2, LogTypes DEF PopMemTable, Pop, DeprecateLog
    <3> QED
      BY <3>1 DEF Without
  <2>4. Replay(txl[n]) = flushFutures[1].table
    BY <2>2, <2>3 DEF IndInv, FlushedTableIsFrozen, FilesInv, ReplayInv
  <2> QED
    BY <2>2, <2>4 DEF FilesInv, SSTableInv
<1> QED
  BY <1>1, Invariance, FilesInvariance, PTL DEF Spec, LogOutlivesMemTable

\* The directory alone holds the contents of the database whenever the
\* process may stop, but inside update.
THEOREM DiskIsEnough == Spec => []DiskHoldsContents
BY DiskFromInvariant, Invariance, FilesInvariance, PTL

\* After the destructor only SSTables and the logs of the MemTables are left.
THEOREM CloseIsClean == Spec => []CloseLeavesCleanDirectory
<1>1. IndInv /\ FilesInv => CloseLeavesCleanDirectory
  <2> SUFFICES ASSUME IndInv, FilesInv, pc = "closed" PROVE CloseLeavesCleanDirectory
    BY DEF CloseLeavesCleanDirectory
  <2>1. flushFutures = <<>> /\ compaction.stage = "none" /\ deprecated = {}
    BY DEF FilesInv, ClosedInv
  <2>2. DOMAIN inProgress = {}
    <3>1. DOMAIN flushFutures = {}
      BY <2>1
    <3> QED
      BY <3>1 DEF FilesInv, InProgressFilesInv
  <2>3. DOMAIN merged = {}
    <3>1. DOMAIN compaction.result = {}
      BY <2>1 DEF FilesInv, MergedFilesInv
    <3> QED
      BY <2>1, <3>1 DEF FilesInv, MergedFilesInv
  <2>4. \A n \in DOMAIN txl : \E i \in DOMAIN memTableQueue : memTableQueue[i].log = n
    BY DEF FilesInv, ReplayInv
  <2> QED
    BY <2>1, <2>2, <2>3, <2>4 DEF CloseLeavesCleanDirectory
<1> QED
  BY <1>1, Invariance, FilesInvariance, PTL
=============================================================================

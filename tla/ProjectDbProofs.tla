-------------------------- MODULE ProjectDbProofs ---------------------------
(***************************************************************************)
(* Proofs about ProjectDb, for all values of its constants.                *)
(***************************************************************************)
EXTENDS ProjectDbInvariant, TablesProofs

-----------------------------------------------------------------------------
\* The operators on files.

LEMMA PutFile ==
    ASSUME NEW C, NEW f, IsFiles(f, C), NEW n \in Nat, NEW c \in C
    PROVE  /\ IsFiles(Put(f, n, c), C)
           /\ DOMAIN Put(f, n, c) = DOMAIN f \cup {n}
           /\ Put(f, n, c)[n] = c
           /\ \A m \in DOMAIN f : m # n => Put(f, n, c)[m] = f[m]
BY DEF IsFiles, Put

LEMMA WithoutFile ==
    ASSUME NEW C, NEW f, IsFiles(f, C), NEW n
    PROVE  /\ IsFiles(Without(f, n), C)
           /\ DOMAIN Without(f, n) = DOMAIN f \ {n}
           /\ \A m \in DOMAIN f : m # n => Without(f, n)[m] = f[m]
BY DEF IsFiles, Without

-----------------------------------------------------------------------------
(***************************************************************************)
(* Frames: the actions that change a part of the state.                    *)
(***************************************************************************)

LEMMA DirFrame ==
    [Next]_vars =>
        \/ DeprecateNext \/ ActivateNext \/ ActivateLast
        \/ FlushReady \/ PopMemTable \/ FirstMemTable \/ Write \/ Roll
        \/ CloseFlush \/ CloseDone
        \/ \E i \in DOMAIN flushFutures : FlushJob(i)
        \/ CompactionStep
        \/ UNCHANGED dirVars
BY DEF Next, Client, CallStep, CheckFutures, Closed, vars, Enter, CallGet, CallSet, CallRemove,
       CallClose, NoCompactionToCheck, CompactionRunning, CompactionReady, FlushesChecked, Get

LEMMA MemFrame ==
    [Next]_vars =>
        \/ PopMemTable \/ FirstMemTable \/ Write \/ Roll
        \/ \E i \in DOMAIN flushFutures : FlushJob(i)
        \/ UNCHANGED memVars
BY DEF Next, Client, CallStep, CheckFutures, Closed, vars, Enter, CallGet, CallSet, CallRemove,
       CallClose, NoCompactionToCheck, CompactionRunning, CompactionReady, DeprecateNext,
       ActivateNext, ActivateLast, FlushReady, FlushesChecked, Get, CloseFlush, CloseDone,
       CompactionStep

LEMMA IndexFrame ==
    [Next]_vars =>
        \/ ActivateLast \/ FlushReady \/ FlushesChecked \/ CompactionStep
        \/ UNCHANGED indexVars
BY DEF Next, Client, CallStep, CheckFutures, Closed, vars, Enter, CallGet, CallSet, CallRemove,
       CallClose, NoCompactionToCheck, CompactionRunning, CompactionReady, DeprecateNext,
       ActivateNext, PopMemTable, Get, FirstMemTable, Write, Roll, CloseFlush, CloseDone, FlushJob

LEMMA CallFrame ==
    [Next]_vars =>
        \/ Client \/ CallStep
        \/ UNCHANGED callVars
BY DEF Next, Closed, vars, FlushJob, CompactionStep

-----------------------------------------------------------------------------
(***************************************************************************)
(* Type correctness is preserved.                                          *)
(***************************************************************************)

LEMMA DirectoryType == IndInv /\ [Next]_vars => DirectoryTypeOK'
<1> SUFFICES ASSUME IndInv, [Next]_vars PROVE DirectoryTypeOK'
  OBVIOUS
<1>0. TypeOK /\ LogInv
  BY DEF IndInv
<1>a. /\ IsFiles(sst, TableSet) /\ IsFiles(inProgress, TableSet) /\ IsFiles(merged, TableSet)
      /\ IsFiles(txl, Seq(Records)) /\ deprecated \subseteq {"sst", "txl"} \X Nat
  BY <1>0 DEF TypeOK, DirectoryTypeOK
<1>b. /\ DOMAIN sst \subseteq Nat /\ DOMAIN inProgress \subseteq Nat
      /\ DOMAIN merged \subseteq Nat /\ DOMAIN txl \subseteq Nat
      /\ \A n \in DOMAIN inProgress : inProgress[n] \in TableSet
      /\ \A n \in DOMAIN merged : merged[n] \in TableSet
      /\ \A n \in DOMAIN txl : txl[n] \in Seq(Records)
  BY <1>a DEF IsFiles
<1>c. memTableQueue \in Seq(MemTables) /\ flushFutures \in Seq(FlushJobs) /\ txlCounter \in Nat
  BY <1>0 DEF TypeOK, MemTableQueueTypeOK
<1>d. compaction.currId \in Nat /\ compaction.currTable \in TableSet
  BY <1>0 DEF TypeOK, SSTableIndexQueueTypeOK, IsCompaction
<1>e. \A i \in DOMAIN flushFutures : flushFutures[i].id \in Nat /\ flushFutures[i].table \in TableSet
  <2> SUFFICES ASSUME NEW i \in DOMAIN flushFutures
               PROVE  flushFutures[i].id \in Nat /\ flushFutures[i].table \in TableSet
    OBVIOUS
  <2>1. flushFutures[i] \in FlushJobs
    BY <1>c
  <2> QED
    BY <2>1 DEF FlushJobs
<1>f. ASSUME OpenLog(txlCounter) PROVE IsFiles(txl', Seq(Records))
  <2> DEFINE log == IF txlCounter \in DOMAIN txl THEN txl[txlCounter] ELSE <<>>
  <2>1. log \in Seq(Records)
    BY <1>b
  <2>2. txl' = Put(txl, txlCounter, log)
    BY <1>f DEF OpenLog
  <2> QED
    BY <2>1, <2>2, <1>a, <1>c, PutFile
<1>1. CASE DeprecateNext
  <2> DEFINE n == indexQueue[compactionStartIndex + cursor].id
  <2>1. /\ n \in DOMAIN sst /\ sst' = Without(sst, n)
        /\ deprecated' = deprecated \cup {<<"sst", n>>}
        /\ UNCHANGED <<inProgress, merged, txl>>
    BY <1>1 DEF DeprecateNext, DeprecateCompacted, DeprecateSSTable
  <2>2. n \in Nat
    BY <2>1, <1>b
  <2> HIDE DEF n
  <2>3. IsFiles(sst', TableSet)
    BY <2>1, <1>a, WithoutFile
  <2> QED
    BY <2>1, <2>2, <2>3, <1>a DEF DirectoryTypeOK
<1>2. CASE ActivateNext
  BY <1>2, <1>a, <1>b, WithoutFile, PutFile
     DEF ActivateNext, ActivateCompacted, ActivateMerged, DirectoryTypeOK
<1>3. CASE ActivateLast
  BY <1>3, <1>a, <1>b, WithoutFile, PutFile
     DEF ActivateLast, ActivateCompacted, ActivateMerged, DirectoryTypeOK
<1>4. CASE FlushReady
  BY <1>4, <1>a, <1>b, WithoutFile, PutFile
     DEF FlushReady, ActivateInProgress, DirectoryTypeOK
<1>5. CASE PopMemTable
  <2> DEFINE n == Head(memTableQueue).log
  <2>1. /\ n \in DOMAIN txl /\ txl' = Without(txl, n)
        /\ deprecated' = deprecated \cup {<<"txl", n>>}
        /\ UNCHANGED <<sst, inProgress, merged>>
    BY <1>5 DEF PopMemTable, Pop, DeprecateLog
  <2>2. n \in Nat
    BY <2>1, <1>b
  <2> HIDE DEF n
  <2>3. IsFiles(txl', Seq(Records))
    BY <2>1, <1>a, WithoutFile
  <2> QED
    BY <2>1, <2>2, <2>3, <1>a DEF DirectoryTypeOK
<1>6. CASE FirstMemTable
  BY <1>6, <1>a, <1>f DEF FirstMemTable, EmplaceBack, DirectoryTypeOK
<1>7. CASE Write
  <2>1. Back \in DOMAIN memTableQueue
    BY <1>7, <1>c DEF Write, Back
  <2>2. memTableQueue[Back].log \in DOMAIN txl
    BY <2>1, <1>0 DEF LogInv
  <2>3. call.key \in Keys /\ call.value \in Entries
    BY <1>7 DEF Write, IndInv, CallInv
  <2>4. [key |-> call.key, value |-> call.value] \in Records
    BY <2>3 DEF Records
  <2> DEFINE log == memTableQueue[Back].log
             record == [key |-> call.key, value |-> call.value]
  <2>6. txl' = Put(txl, log, Append(txl[log], record))
    BY <1>7 DEF Write, WriteBack
  <2> HIDE DEF log, record
  <2>7. Append(txl[log], record) \in Seq(Records)
    BY <1>b, <2>2, <2>4 DEF log, record
  <2>8. log \in Nat
    BY <1>b, <2>2 DEF log
  <2>5. IsFiles(txl', Seq(Records))
    BY <1>a, <2>6, <2>7, <2>8, PutFile
  <2> QED
    BY <1>7, <1>a, <2>5 DEF Write, DirectoryTypeOK
<1>8. CASE Roll
  BY <1>8, <1>a, <1>f DEF Roll, RollMemTable, EmplaceBack, DirectoryTypeOK
<1>9. CASE CloseFlush
  BY <1>9, <1>a, <1>b, WithoutFile, PutFile
     DEF CloseFlush, ActivateInProgress, DirectoryTypeOK
<1>10. CASE CloseDone
  BY <1>10, <1>a DEF CloseDone, RemoveDeprecated, DirectoryTypeOK
<1>11. ASSUME NEW i \in DOMAIN flushFutures, FlushJob(i) PROVE DirectoryTypeOK'
  <2>1. flushFutures[i].id \in Nat /\ flushFutures[i].table \in TableSet
    BY <1>e
  <2>2. /\ IsFiles(Put(inProgress, flushFutures[i].id, EmptyTable), TableSet)
        /\ IsFiles(Put(inProgress, flushFutures[i].id, flushFutures[i].table), TableSet)
    BY <2>1, <1>a, PutFile, EmptyTableType
  <2> QED
    BY <1>11, <1>a, <2>2
       DEF FlushJob, FlushBegin, FlushFinish, RemoveDeprecated, DirectoryTypeOK
<1>12. CASE CompactionStep
  <2>1. /\ IsFiles(Put(merged, compaction.currId, EmptyTable), TableSet)
        /\ IsFiles(Put(merged, compaction.currId, compaction.currTable), TableSet)
    BY <1>a, <1>d, PutFile, EmptyTableType
  <2> QED
    BY <1>12, <1>a, <2>1
     DEF CompactionStep, CompactionJob, CompactionBegin, CompactionMerge, CompactionFlushBegin,
         CompactionFlushFinish, RemoveDeprecated, DirectoryTypeOK
<1>13. CASE UNCHANGED dirVars
  BY <1>13, <1>a DEF dirVars, DirectoryTypeOK
<1> QED
  BY <1>1, <1>2, <1>3, <1>4, <1>5, <1>6, <1>7, <1>8, <1>9, <1>10, <1>11, <1>12, <1>13, DirFrame

LEMMA MemTableQueueType == IndInv /\ [Next]_vars => MemTableQueueTypeOK'
<1> SUFFICES ASSUME IndInv, [Next]_vars PROVE MemTableQueueTypeOK'
  OBVIOUS
<1>a. /\ memTableQueue \in Seq(MemTables) /\ flushFutures \in Seq(FlushJobs)
      /\ sstCounter \in Nat /\ txlCounter \in Nat
  BY DEF IndInv, TypeOK, MemTableQueueTypeOK
<1>b. [table |-> EmptyTable, log |-> txlCounter] \in MemTables
  BY <1>a, EmptyTableType DEF MemTables
<1>c. ASSUME EmplaceBack PROVE memTableQueue' \in Seq(MemTables) /\ txlCounter' \in Nat
  BY <1>a, <1>b, <1>c DEF EmplaceBack
<1>1. CASE PopMemTable
  <2>1. memTableQueue' = Tail(memTableQueue) /\ memTableQueue # <<>>
    BY <1>1 DEF PopMemTable, Pop, IndInv, CallInv, FuturesMatchQueue
  <2>2. flushFutures' = Tail(flushFutures) /\ flushFutures # <<>>
    BY <1>1 DEF PopMemTable, IndInv, CallInv
  <2> QED
    BY <1>1, <1>a, <2>1, <2>2 DEF PopMemTable, MemTableQueueTypeOK
<1>2. CASE FirstMemTable
  BY <1>2, <1>a, <1>c DEF FirstMemTable, MemTableQueueTypeOK
<1>3. CASE Write
  <2>1. Back \in DOMAIN memTableQueue
    BY <1>3, <1>a DEF Write, Back
  <2>2. call.key \in Keys /\ call.value \in Entries
    BY <1>3 DEF Write, IndInv, CallInv
  <2>3. memTableQueue[Back] \in MemTables
    BY <2>1, <1>a
  <2> DEFINE m == [memTableQueue[Back] EXCEPT !.table = Put(@, call.key, call.value)]
  <2>4. m \in MemTables
    BY <2>2, <2>3, PutTable DEF MemTables
  <2>5. memTableQueue' = [memTableQueue EXCEPT ![Back] = m]
    BY <1>3 DEF Write, WriteBack
  <2> HIDE DEF m
  <2>6. memTableQueue' \in Seq(MemTables)
    BY <2>1, <2>4, <2>5, <1>a
  <2> QED
    BY <1>3, <1>a, <2>6 DEF Write, MemTableQueueTypeOK
<1>4. CASE Roll
  <2>1. Back \in DOMAIN memTableQueue
    BY <1>4, <1>a DEF Roll, Back, IndInv, CallInv
  <2>2. memTableQueue[Back] \in MemTables
    BY <2>1, <1>a
  <2>3. [id |-> sstCounter + 1, log |-> memTableQueue[Back].log,
         table |-> memTableQueue[Back].table, stage |-> "launched"] \in FlushJobs
    BY <2>2, <1>a DEF MemTables, FlushJobs
  <2>4. flushFutures' \in Seq(FlushJobs) /\ sstCounter' \in Nat
    BY <1>4, <1>a, <2>3 DEF Roll, RollMemTable, LaunchFlushToDisk
  <2> QED
    BY <1>4, <1>c, <2>4 DEF Roll, RollMemTable, MemTableQueueTypeOK
<1>5. ASSUME NEW i \in DOMAIN flushFutures, FlushJob(i) PROVE MemTableQueueTypeOK'
  <2>1. flushFutures[i] \in FlushJobs
    BY <1>a
  <2>2. /\ [flushFutures[i] EXCEPT !.stage = "writing"] \in FlushJobs
        /\ [flushFutures[i] EXCEPT !.stage = "ready"] \in FlushJobs
    BY <2>1 DEF FlushJobs
  <2>4. PICK j \in FlushJobs : flushFutures' = [flushFutures EXCEPT ![i] = j]
    BY <1>5, <2>2 DEF FlushJob, FlushBegin, FlushFinish
  <2>3. flushFutures' \in Seq(FlushJobs)
    BY <1>a, <2>4
  <2> QED
    BY <1>5, <1>a, <2>3 DEF FlushJob, MemTableQueueTypeOK
<1>6. CASE UNCHANGED memVars
  BY <1>6, <1>a DEF memVars, MemTableQueueTypeOK
<1> QED
  BY <1>1, <1>2, <1>3, <1>4, <1>5, <1>6, MemFrame

\* What the job reads next is there, and is not changed before it has read.
LEMMA CompactionReads ==
    ASSUME IndInv, compaction.stage # "none", compaction.stage # "ready",
           compaction.next <= compaction.last
    PROVE  /\ compaction.next \in DOMAIN indexQueue
           /\ indexQueue[compaction.next].id \in DOMAIN sst
           /\ sst[indexQueue[compaction.next].id] = indexQueue[compaction.next].table
<1>1. /\ indexQueue \in Seq(Indexes) /\ compactionStartIndex \in Nat
      /\ compaction.next \in Nat /\ compaction.last \in Nat
      /\ compaction.stage \in {"none", "launched", "merging", "flushing", "writing", "ready"}
  BY DEF IndInv, TypeOK, SSTableIndexQueueTypeOK, IsCompaction
<1>2. /\ compaction.last <= Len(indexQueue)
      /\ compaction.next >= compactionStartIndex + 1
  BY <1>1, CompactAssumption DEF IndInv, ProgressInv
<1>3. compaction.next \in DOMAIN indexQueue
  BY <1>1, <1>2
<1>4. ~InUpdate
  BY DEF IndInv, UpdateInv
<1> QED
  BY <1>3, <1>4 DEF IndInv, IndexMatchesFile

\* The table a group starts with is typed as the others.
LEMMA StartGroupType ==
    ASSUME IndInv, compaction.stage # "none", compaction.stage # "ready",
           compaction.next <= compaction.last, NEW result \in Seq(Indexes)
    PROVE  IsCompaction(StartGroup(result))
<1>1. indexQueue \in Seq(Indexes) /\ IsCompaction(compaction) /\ IsFiles(sst, TableSet)
  BY DEF IndInv, TypeOK, SSTableIndexQueueTypeOK, DirectoryTypeOK
<1> DEFINE first == indexQueue[compaction.next].id
<1>2. indexQueue[compaction.next] \in Indexes /\ first \in DOMAIN sst
  BY <1>1, CompactionReads
<1>3. first \in Nat /\ sst[first] \in TableSet
  BY <1>1, <1>2 DEF Indexes, IsFiles
<1> QED
  BY <1>1, <1>3 DEF StartGroup, IsCompaction

LEMMA SSTableIndexQueueType == IndInv /\ [Next]_vars => SSTableIndexQueueTypeOK'
<1> SUFFICES ASSUME IndInv, [Next]_vars PROVE SSTableIndexQueueTypeOK'
  OBVIOUS
<1>a. indexQueue \in Seq(Indexes) /\ compactionStartIndex \in Nat /\ IsCompaction(compaction)
  BY DEF IndInv, TypeOK, SSTableIndexQueueTypeOK
<1>b. flushFutures \in Seq(FlushJobs) /\ DirectoryTypeOK /\ SSTableIndexQueueTypeOK
  BY DEF IndInv, TypeOK, MemTableQueueTypeOK
<1>c. IsCompaction(NoCompaction)
  BY EmptyTableType DEF IsCompaction, NoCompaction
<1>1. CASE ActivateLast
  <2>1. compaction.result \in Seq(Indexes) /\ cursor \in 1 .. Len(compaction.result)
    BY <1>1, <1>a DEF IsCompaction, ActivateLast, IndInv, UpdateInv
  <2>2. /\ compaction.stage = "ready"
        /\ compactionStartIndex + 1 + NumSSTableToCompact <= Len(indexQueue)
    BY <1>1 DEF ActivateLast, IndInv, UpdateInv, InUpdate, ProgressInv
  <2>3. SubSeq(indexQueue, 1, compactionStartIndex) \in Seq(Indexes)
    BY <1>a, <2>2, CompactAssumption
  <2>4. SubSeq(indexQueue, compactionStartIndex + NumSSTableToCompact + 2, Len(indexQueue))
            \in Seq(Indexes)
    BY <1>a, <2>2, CompactAssumption
  <2>5. indexQueue' \in Seq(Indexes)
    BY <1>1, <2>1, <2>3, <2>4 DEF ActivateLast, ReplaceCompacted
  <2>6. compactionStartIndex' \in Nat
    BY <1>1, <1>a, <2>1 DEF ActivateLast, ReplaceCompacted
  <2> QED
    BY <1>1, <1>c, <2>5, <2>6 DEF ActivateLast, ReplaceCompacted, SSTableIndexQueueTypeOK
<1>2. CASE FlushReady
  <2>1. Head(flushFutures) \in FlushJobs
    BY <1>2, <1>b DEF FlushReady, OldestFlushReady
  <2>2. [id |-> Head(flushFutures).id, table |-> Head(flushFutures).table] \in Indexes
    BY <2>1 DEF FlushJobs, Indexes
  <2>3. indexQueue' \in Seq(Indexes)
    BY <1>2, <1>a, <2>2 DEF FlushReady, Insert
  <2> QED
    BY <1>2, <1>a, <2>3 DEF FlushReady, SSTableIndexQueueTypeOK
<1>3. CASE FlushesChecked
  <2>1. IsCompaction(compaction')
    BY <1>3, <1>a, CompactAssumption, EmptyTableType
       DEF FlushesChecked, TryLaunchCompaction, IsCompaction
  <2> QED
    BY <1>3, <1>a, <2>1 DEF FlushesChecked, TryLaunchCompaction, SSTableIndexQueueTypeOK
<1>4. CASE CompactionStep
  <2>0. CompactionJob
    BY <1>4 DEF CompactionStep
  <2>1. CASE CompactionBegin
    <3>1. compaction.next <= compaction.last
      BY <2>1, <1>a, CompactAssumption DEF CompactionBegin, IndInv, ProgressInv, IsCompaction
    <3>3. <<>> \in Seq(Indexes)
      OBVIOUS
    <3>2. IsCompaction(StartGroup(<<>>))
      BY <2>1, <3>1, <3>3, StartGroupType DEF CompactionBegin
    <3> QED
      BY <2>1, <3>2, <1>a DEF CompactionBegin, SSTableIndexQueueTypeOK
  <2>2. CASE CompactionMerge
    <3>1. compaction.next <= compaction.last
      BY <2>2, <1>a DEF CompactionMerge, IndInv, ProgressInv, IsCompaction
    <3> DEFINE next == sst[indexQueue[compaction.next].id]
               size == compaction.currTableSize + FileSizeInBytes(next)
    <3>2. next \in TableSet
      BY <2>2, <3>1, <1>b, CompactionReads DEF CompactionMerge, DirectoryTypeOK, IsFiles
    <3>3. MergeSSTable(compaction.currTable, next) \in TableSet
      BY <3>2, <1>a, MergeTable DEF IsCompaction
    <3>5. IsCompaction(compaction')
      BY <2>2, <3>3, <1>a DEF CompactionMerge, IsCompaction
    <3> QED
      BY <2>2, <3>5, <1>a DEF CompactionMerge, SSTableIndexQueueTypeOK
  <2>3. CASE CompactionFlushBegin
    BY <2>3, <1>a DEF CompactionFlushBegin, IsCompaction, SSTableIndexQueueTypeOK
  <2>4. CASE CompactionFlushFinish
    <3> DEFINE index == [id |-> compaction.currId, table |-> compaction.currTable]
               result == Append(compaction.result, index)
    <3>1. index \in Indexes
      BY <1>a DEF IsCompaction, Indexes
    <3>2. result \in Seq(Indexes)
      BY <3>1, <1>a DEF IsCompaction
    <3>3. CASE compaction.next > compaction.last
      BY <2>4, <3>2, <3>3, <1>a, EmptyTableType
         DEF CompactionFlushFinish, SSTableIndexQueueTypeOK, IsCompaction
    <3>4. CASE ~(compaction.next > compaction.last)
      <4>1. compaction.next <= compaction.last
        BY <3>4, <1>a DEF IsCompaction
      <4>2. IsCompaction(StartGroup(result))
        BY <2>4, <4>1, <3>2, StartGroupType DEF CompactionFlushFinish
      <4> QED
        BY <2>4, <3>4, <4>2, <1>a DEF CompactionFlushFinish, SSTableIndexQueueTypeOK
    <3> QED
      BY <3>3, <3>4
  <2> QED
    BY <2>0, <2>1, <2>2, <2>3, <2>4 DEF CompactionJob
<1>5. CASE UNCHANGED indexVars
  BY <1>5, <1>a DEF indexVars, SSTableIndexQueueTypeOK, IsCompaction
<1> QED
  BY <1>1, <1>2, <1>3, <1>4, <1>5, IndexFrame

\* What the rest of the state is typed as.
CallTypeOK ==
    /\ pc \in {"idle", "compaction", "deprecate", "activate", "flushes", "pop",
               "apply", "roll", "close", "closed"}
    /\ call \in Calls
    /\ cursor \in Nat
    /\ reply \in Values \cup {Absent}
    /\ writes \in Nat
    /\ unindexed \in Seq(Indexes)

LEMMA GetValueType ==
    ASSUME IndInv, ~InUpdate, NEW k \in Keys
    PROVE  GetValue(k) \in Values \cup {Absent}
<1>a. /\ memTableQueue \in Seq(MemTables) /\ indexQueue \in Seq(Indexes)
      /\ IsFiles(sst, TableSet)
  BY DEF IndInv, TypeOK, MemTableQueueTypeOK, SSTableIndexQueueTypeOK, DirectoryTypeOK
<1>1. TablesOf(memTableQueue) \in Seq(TableSet)
  <2>1. \A i \in 1 .. Len(memTableQueue) : memTableQueue[i].table \in TableSet
    <3> SUFFICES ASSUME NEW i \in 1 .. Len(memTableQueue)
                 PROVE  memTableQueue[i].table \in TableSet
      OBVIOUS
    <3>1. memTableQueue[i] \in MemTables
      BY <1>a
    <3> QED
      BY <3>1 DEF MemTables
  <2> QED
    BY <1>a, <2>1 DEF TablesOf
<1> DEFINE files == [i \in DOMAIN indexQueue |-> sst[indexQueue[i].id]]
<1>2. files \in Seq(TableSet)
  <2>1. \A i \in 1 .. Len(indexQueue) : sst[indexQueue[i].id] \in TableSet
    BY <1>a DEF IndInv, IndexMatchesFile, IsFiles
  <2> QED
    BY <1>a, <2>1
<1>3. /\ Newest(TablesOf(memTableQueue), k) \in Entries \cup {Absent}
      /\ SSTableValue(k) \in Entries \cup {Absent}
  BY <1>1, <1>2, NewestType DEF SSTableValue
<1> QED
  BY <1>3, DataAssumption DEF GetValue, UnderlyingValue, Entries

LEMMA CallType == IndInv /\ [Next]_vars => CallTypeOK'
<1> SUFFICES ASSUME IndInv, [Next]_vars PROVE CallTypeOK'
  OBVIOUS
<1>a. CallTypeOK
  BY DEF IndInv, TypeOK, CallTypeOK
<1>b. flushFutures \in Seq(FlushJobs)
  BY DEF IndInv, TypeOK, MemTableQueueTypeOK
<1>c. NoCall \in Calls
  BY DEF NoCall, Calls
<1>1. CASE Client
  BY <1>1, <1>a
     DEF Client, CallGet, CallSet, CallRemove, CallClose, Enter, CallTypeOK, Calls, Entries
<1>2. CASE CheckFutures
  BY <1>2, <1>a
     DEF CheckFutures, NoCompactionToCheck, CompactionRunning, CompactionReady, DeprecateNext,
         ActivateNext, ActivateLast, FlushReady, PopMemTable, FlushesChecked, CallTypeOK
<1>3. CASE Get
  <2>1. call.key \in Keys /\ ~InUpdate
    BY <1>3 DEF Get, IndInv, CallInv, InUpdate
  <2>2. reply' \in Values \cup {Absent}
    BY <1>3, <2>1, GetValueType DEF Get
  <2> QED
    BY <1>3, <2>2, <1>a, <1>c DEF Get, Return, CallTypeOK
<1>4. CASE FirstMemTable
  BY <1>4, <1>a DEF FirstMemTable, callVars, CallTypeOK
<1>5. CASE Write \/ Roll
  BY <1>5, <1>a, <1>c DEF Write, Roll, Return, CallTypeOK
<1>6. CASE CloseFlush
  <2>1. Head(flushFutures) \in FlushJobs
    BY <1>6, <1>b DEF CloseFlush, OldestFlushReady
  <2>2. [id |-> Head(flushFutures).id, table |-> Head(flushFutures).table] \in Indexes
    BY <2>1 DEF FlushJobs, Indexes
  <2>3. unindexed' \in Seq(Indexes)
    BY <1>6, <1>a, <2>2 DEF CloseFlush, CallTypeOK
  <2> QED
    BY <1>6, <1>a, <2>3 DEF CloseFlush, CallTypeOK
<1>7. CASE CloseDone
  BY <1>7, <1>a DEF CloseDone, CallTypeOK
<1>8. CASE UNCHANGED callVars
  BY <1>8, <1>a DEF callVars, CallTypeOK
<1> QED
  BY <1>1, <1>2, <1>3, <1>4, <1>5, <1>6, <1>7, <1>8, CallFrame DEF CallStep

LEMMA TypeStep == IndInv /\ [Next]_vars => TypeOK'
BY DirectoryType, MemTableQueueType, SSTableIndexQueueType, CallType DEF TypeOK, CallTypeOK

-----------------------------------------------------------------------------
(***************************************************************************)
(* The invariants about calls and MemTables.                               *)
(***************************************************************************)

LEMMA CallInvStep == IndInv /\ [Next]_vars => CallInv'
<1> SUFFICES ASSUME IndInv, [Next]_vars PROVE CallInv'
  OBVIOUS
<1>a. CallInv
  BY DEF IndInv
<1>b. /\ memTableQueue \in Seq(MemTables) /\ flushFutures \in Seq(FlushJobs)
  BY DEF IndInv, TypeOK, MemTableQueueTypeOK
<1>c. call \in Calls
  BY DEF IndInv, TypeOK
<1>d. FuturesMatchQueue
  BY DEF IndInv
<1>1. CASE Client
  BY <1>1, <1>a
     DEF Client, CallGet, CallSet, CallRemove, CallClose, Enter, CallInv, Entries, memVars
<1>2. CASE CheckFutures
  BY <1>2, <1>a, <1>b
     DEF CheckFutures, NoCompactionToCheck, CompactionRunning, CompactionReady, DeprecateNext,
         ActivateNext, ActivateLast, FlushReady, PopMemTable, FlushesChecked, CallInv, memVars,
         OldestFlushReady
<1>3. CASE Get
  BY <1>3, <1>a DEF Get, Return, NoCall, CallInv, memVars
<1>4. CASE FirstMemTable
  BY <1>4, <1>a DEF FirstMemTable, callVars, CallInv
<1>5. CASE Write
  BY <1>5, <1>a, <1>b, <1>d DEF Write, WriteBack, Return, NoCall, CallInv, FuturesMatchQueue
<1>6. CASE Roll
  BY <1>6, <1>a DEF Roll, Return, NoCall, CallInv
<1>7. CASE CloseFlush
  BY <1>7, <1>a, <1>b DEF CloseFlush, CallInv, memVars, OldestFlushReady
<1>8. CASE CloseDone
  BY <1>8, <1>a DEF CloseDone, CallInv, memVars
<1>9. ASSUME NEW i \in DOMAIN flushFutures, FlushJob(i) PROVE CallInv'
  BY <1>9, <1>a, <1>b DEF FlushJob, FlushBegin, FlushFinish, CallInv, callVars
<1>10. CASE CompactionStep
  BY <1>10, <1>a DEF CompactionStep, callVars, memVars, CallInv
<1>11. CASE UNCHANGED vars
  BY <1>11, <1>a DEF vars, callVars, memVars, CallInv
<1> QED
  BY <1>1, <1>2, <1>3, <1>4, <1>5, <1>6, <1>7, <1>8, <1>9, <1>10, <1>11
     DEF Next, CallStep, Closed

LEMMA MemTableStep ==
    IndInv /\ [Next]_vars => FuturesMatchQueue' /\ FlushedTableIsFrozen'
<1> SUFFICES ASSUME IndInv, [Next]_vars PROVE FuturesMatchQueue' /\ FlushedTableIsFrozen'
  OBVIOUS
<1>a. FuturesMatchQueue /\ FlushedTableIsFrozen /\ CallInv
  BY DEF IndInv
<1>b. /\ memTableQueue \in Seq(MemTables) /\ flushFutures \in Seq(FlushJobs)
      /\ txlCounter \in Nat
  BY DEF IndInv, TypeOK, MemTableQueueTypeOK
<1>c. [table |-> EmptyTable, log |-> txlCounter] \in MemTables
  BY <1>b, EmptyTableType DEF MemTables
<1>1. CASE PopMemTable
  <2>1. flushFutures # <<>> /\ memTableQueue # <<>>
    BY <1>1, <1>a, <1>b DEF PopMemTable, CallInv, FuturesMatchQueue
  <2>2. memTableQueue' = Tail(memTableQueue) /\ flushFutures' = Tail(flushFutures)
    BY <1>1 DEF PopMemTable, Pop
  <2>3. /\ Len(memTableQueue') = Len(memTableQueue) - 1
        /\ Len(flushFutures') = Len(flushFutures) - 1
        /\ DOMAIN flushFutures' = 1 .. Len(flushFutures')
        /\ \A i \in 1 .. Len(memTableQueue') : memTableQueue'[i] = memTableQueue[i + 1]
        /\ \A i \in 1 .. Len(flushFutures') : flushFutures'[i] = flushFutures[i + 1]
    BY <1>b, <2>1, <2>2
  <2>4. \A i \in 1 .. Len(flushFutures') : i + 1 \in DOMAIN flushFutures
    BY <1>b, <2>3
  <2>8. ASSUME NEW i \in 1 .. Len(flushFutures')
        PROVE  i < Len(memTableQueue') /\ flushFutures'[i].log = memTableQueue'[i].log
    <3>1. i + 1 < Len(memTableQueue) /\ flushFutures[i + 1].log = memTableQueue[i + 1].log
      BY <1>a, <2>4 DEF FuturesMatchQueue
    <3>2. i \in 1 .. Len(memTableQueue')
      BY <3>1, <2>3, <1>b
    <3> QED
      BY <3>1, <3>2, <2>3, <1>b
  <2>9. Len(memTableQueue') <= Len(flushFutures') + 1
    BY <1>a, <1>b, <2>3 DEF FuturesMatchQueue
  <2>5. FuturesMatchQueue'
    BY <2>3, <2>8, <2>9 DEF FuturesMatchQueue
  <2>6. ASSUME NEW i \in 1 .. Len(flushFutures')
        PROVE  i \in 1 .. Len(memTableQueue')
    <3>1. i < Len(memTableQueue')
      BY <2>8
    <3>2. Len(memTableQueue') \in Nat /\ Len(flushFutures') \in Nat
      BY <1>b, <2>3
    <3> QED
      BY ONLY <3>1, <3>2, i \in 1 .. Len(flushFutures')
  <2>7. FlushedTableIsFrozen'
    BY <1>a, <2>3, <2>4, <2>6 DEF FlushedTableIsFrozen
  <2> QED
    BY <2>5, <2>7
<1>2. CASE FirstMemTable
  <2>1. flushFutures = <<>> /\ memTableQueue = <<>>
    BY <1>2, <1>a, <1>b DEF FirstMemTable, FuturesMatchQueue
  <2> QED
    BY <1>2, <1>b, <1>c, <2>1
       DEF FirstMemTable, EmplaceBack, FuturesMatchQueue, FlushedTableIsFrozen
<1>3. CASE Write
  <2>1. /\ Back \in DOMAIN memTableQueue /\ UNCHANGED flushFutures
        /\ memTableQueue' = [memTableQueue EXCEPT ![Back].table =
                                 Put(@, call.key, call.value)]
    BY <1>3, <1>b DEF Write, WriteBack, Back
  <2>2. Len(memTableQueue') = Len(memTableQueue) /\ DOMAIN memTableQueue' = DOMAIN memTableQueue
    BY <2>1, <1>b
  <2>3. \A i \in DOMAIN flushFutures : i \in DOMAIN memTableQueue /\ i # Back
    BY <1>a, <1>b DEF FuturesMatchQueue, Back
  <2>4. \A i \in DOMAIN flushFutures : memTableQueue'[i] = memTableQueue[i]
    BY <2>1, <2>3, <1>b
  <2> QED
    BY <1>a, <2>1, <2>2, <2>4 DEF FuturesMatchQueue, FlushedTableIsFrozen
<1>4. CASE Roll
  <2> DEFINE job == [id |-> sstCounter + 1, log |-> memTableQueue[Back].log,
                     table |-> memTableQueue[Back].table, stage |-> "launched"]
             memTable == [table |-> EmptyTable, log |-> txlCounter]
  <2>1. /\ flushFutures' = Append(flushFutures, job)
        /\ memTableQueue' = Append(memTableQueue, memTable)
    BY <1>4 DEF Roll, RollMemTable, EmplaceBack, LaunchFlushToDisk
  <2>2. Len(memTableQueue) = Len(flushFutures) + 1 /\ Back = Len(flushFutures) + 1
    BY <1>4, <1>a DEF Roll, CallInv, Back
  <2>3. job.log = memTableQueue[Back].log /\ job.table = memTableQueue[Back].table
    OBVIOUS
  <2> HIDE DEF job, memTable
  <2>4. /\ Len(memTableQueue') = Len(memTableQueue) + 1
        /\ Len(flushFutures') = Len(flushFutures) + 1
        /\ DOMAIN flushFutures' = 1 .. Len(flushFutures) + 1
        /\ \A i \in 1 .. Len(memTableQueue) : memTableQueue'[i] = memTableQueue[i]
        /\ \A i \in 1 .. Len(flushFutures) : flushFutures'[i] = flushFutures[i]
        /\ flushFutures'[Len(flushFutures) + 1] = job
    BY <1>b, <2>1
  <2>5. ASSUME NEW i \in DOMAIN flushFutures'
        PROVE  /\ i < Len(memTableQueue')
               /\ flushFutures'[i].log = memTableQueue'[i].log
               /\ flushFutures'[i].table = memTableQueue'[i].table
    <3>1. CASE i \in 1 .. Len(flushFutures)
      BY <3>1, <1>a, <1>b, <2>2, <2>4 DEF FuturesMatchQueue, FlushedTableIsFrozen
    <3>2. CASE i = Len(flushFutures) + 1
      BY <3>2, <1>b, <2>2, <2>3, <2>4
    <3> QED
      BY <2>4, <3>1, <3>2, <1>b
  <2> QED
    BY <1>b, <2>2, <2>4, <2>5 DEF FuturesMatchQueue, FlushedTableIsFrozen
<1>5. ASSUME NEW i \in DOMAIN flushFutures, FlushJob(i)
      PROVE  FuturesMatchQueue' /\ FlushedTableIsFrozen'
  <2>1. /\ UNCHANGED memTableQueue
        /\ Len(flushFutures') = Len(flushFutures) /\ DOMAIN flushFutures' = DOMAIN flushFutures
    BY <1>5, <1>b DEF FlushJob, FlushBegin, FlushFinish
  <2>2. \A j \in DOMAIN flushFutures :
           /\ flushFutures'[j].log = flushFutures[j].log
           /\ flushFutures'[j].table = flushFutures[j].table
    <3> SUFFICES ASSUME NEW j \in DOMAIN flushFutures
                 PROVE  /\ flushFutures'[j].log = flushFutures[j].log
                        /\ flushFutures'[j].table = flushFutures[j].table
      OBVIOUS
    <3>1. flushFutures[j] \in FlushJobs
      BY <1>b
    <3>2. \/ flushFutures'[j] = flushFutures[j]
          \/ flushFutures'[j] = [flushFutures[j] EXCEPT !.stage = "writing"]
          \/ flushFutures'[j] = [flushFutures[j] EXCEPT !.stage = "ready"]
      BY <1>5, <1>b DEF FlushJob, FlushBegin, FlushFinish
    <3> QED
      BY <3>1, <3>2 DEF FlushJobs
  <2> QED
    BY <1>a, <2>1, <2>2 DEF FuturesMatchQueue, FlushedTableIsFrozen
<1>6. CASE UNCHANGED memVars
  BY <1>6, <1>a DEF memVars, FuturesMatchQueue, FlushedTableIsFrozen
<1> QED
  BY <1>1, <1>2, <1>3, <1>4, <1>5, <1>6, MemFrame

LEMMA LogInvStep == IndInv /\ [Next]_vars => LogInv'
<1> SUFFICES ASSUME IndInv, [Next]_vars PROVE LogInv'
  OBVIOUS
<1>a. LogInv
  BY DEF IndInv
<1>b. /\ memTableQueue \in Seq(MemTables) /\ txlCounter \in Nat
      /\ IsFiles(txl, Seq(Records))
  BY DEF IndInv, TypeOK, MemTableQueueTypeOK, DirectoryTypeOK
<1>c. \A i \in DOMAIN memTableQueue : memTableQueue[i].log \in Nat
  <2> SUFFICES ASSUME NEW i \in DOMAIN memTableQueue PROVE memTableQueue[i].log \in Nat
    OBVIOUS
  <2>1. memTableQueue[i] \in MemTables
    BY <1>b
  <2> QED
    BY <2>1 DEF MemTables
<1>d. ASSUME EmplaceBack PROVE LogInv'
  <2> DEFINE m == [table |-> EmptyTable, log |-> txlCounter]
  <2>1. memTableQueue' = Append(memTableQueue, m) /\ txlCounter' = txlCounter + 1
    BY <1>d DEF EmplaceBack
  <2>2. DOMAIN txl' = DOMAIN txl \cup {txlCounter}
    BY <1>d DEF EmplaceBack, OpenLog, Put
  <2>3. m.log = txlCounter
    OBVIOUS
  <2> HIDE DEF m
  <2>4. /\ DOMAIN memTableQueue' = 1 .. Len(memTableQueue) + 1
        /\ \A i \in 1 .. Len(memTableQueue) : memTableQueue'[i] = memTableQueue[i]
        /\ memTableQueue'[Len(memTableQueue) + 1].log = txlCounter
    BY <2>1, <2>3, <1>b
  <2>5. ASSUME NEW i \in DOMAIN memTableQueue', NEW j \in DOMAIN memTableQueue', i < j
        PROVE  memTableQueue'[i].log < memTableQueue'[j].log
    BY <2>4, <2>5, <1>a, <1>b, <1>c DEF LogInv
  <2>6. ASSUME NEW i \in DOMAIN memTableQueue'
        PROVE  memTableQueue'[i].log \in DOMAIN txl' /\ memTableQueue'[i].log < txlCounter'
    BY <2>1, <2>2, <2>4, <1>a, <1>b, <1>c DEF LogInv
  <2> QED
    BY <2>5, <2>6 DEF LogInv
<1>1. CASE PopMemTable
  <2>1. /\ memTableQueue' = Tail(memTableQueue) /\ memTableQueue # <<>>
        /\ txl' = Without(txl, Head(memTableQueue).log) /\ UNCHANGED txlCounter
    BY <1>1 DEF PopMemTable, Pop, DeprecateLog, IndInv, CallInv, FuturesMatchQueue
  <2>2. /\ DOMAIN memTableQueue' = 1 .. Len(memTableQueue) - 1
        /\ \A i \in 1 .. Len(memTableQueue) - 1 : memTableQueue'[i] = memTableQueue[i + 1]
        /\ Head(memTableQueue) = memTableQueue[1]
    BY <2>1, <1>b
  <2>3. DOMAIN txl' = DOMAIN txl \ {memTableQueue[1].log}
    BY <2>1, <2>2 DEF Without
  <2>4. ASSUME NEW i \in DOMAIN memTableQueue', NEW j \in DOMAIN memTableQueue', i < j
        PROVE  memTableQueue'[i].log < memTableQueue'[j].log
    <3>1. /\ i + 1 \in DOMAIN memTableQueue /\ j + 1 \in DOMAIN memTableQueue
          /\ i + 1 < j + 1
          /\ memTableQueue'[i] = memTableQueue[i + 1]
          /\ memTableQueue'[j] = memTableQueue[j + 1]
      BY <2>2, <2>4, <1>b
    <3> QED
      BY <3>1, <1>a DEF LogInv
  <2>5. ASSUME NEW i \in DOMAIN memTableQueue'
        PROVE  memTableQueue'[i].log \in DOMAIN txl' /\ memTableQueue'[i].log < txlCounter'
    <3>1. /\ i + 1 \in DOMAIN memTableQueue /\ 1 \in DOMAIN memTableQueue /\ 1 < i + 1
          /\ memTableQueue'[i] = memTableQueue[i + 1]
      BY <2>2, <1>b
    <3> QED
      BY <3>1, <2>1, <2>3, <1>a, <1>c DEF LogInv
  <2> QED
    BY <2>4, <2>5 DEF LogInv
<1>2. CASE FirstMemTable \/ Roll
  BY <1>2, <1>d DEF FirstMemTable, Roll, RollMemTable
<1>3. CASE Write
  <2>1. /\ Back \in DOMAIN memTableQueue /\ UNCHANGED txlCounter
        /\ memTableQueue' = [memTableQueue EXCEPT ![Back].table =
                                 Put(@, call.key, call.value)]
        /\ DOMAIN txl \subseteq DOMAIN txl'
    BY <1>3, <1>b DEF Write, WriteBack, Back, Put
  <2>2. /\ DOMAIN memTableQueue' = DOMAIN memTableQueue
        /\ \A i \in DOMAIN memTableQueue : memTableQueue'[i].log = memTableQueue[i].log
    BY <2>1, <1>b
  <2> QED
    BY <1>a, <2>1, <2>2 DEF LogInv
<1>4. CASE UNCHANGED <<memTableQueue, txlCounter, DOMAIN txl>>
  BY <1>4, <1>a DEF LogInv
<1>5. ASSUME NEW i \in DOMAIN flushFutures, FlushJob(i) PROVE LogInv'
  BY <1>5, <1>4 DEF FlushJob, FlushBegin, FlushFinish
<1>6. CASE /\ UNCHANGED memVars
           /\ ~PopMemTable /\ ~FirstMemTable /\ ~Write /\ ~Roll
  <2>1. UNCHANGED txl
    BY <1>6, DirFrame
       DEF DeprecateNext, ActivateNext, ActivateLast, FlushReady, CloseFlush, CloseDone, FlushJob,
           CompactionStep, CompactionJob, CompactionBegin, CompactionMerge, CompactionFlushBegin,
           CompactionFlushFinish, dirVars
  <2> QED
    BY <1>6, <2>1, <1>4 DEF memVars
<1> QED
  BY <1>1, <1>2, <1>3, <1>5, <1>6, MemFrame

-----------------------------------------------------------------------------
(***************************************************************************)
(* The invariants about file names and files.                              *)
(***************************************************************************)

LEMMA NameFrame ==
    [Next]_vars =>
        \/ FlushReady \/ PopMemTable \/ Roll \/ CloseFlush \/ ActivateLast
        \/ \E i \in DOMAIN flushFutures : FlushJob(i)
        \/ UNCHANGED <<indexQueue, unindexed, flushFutures, sstCounter, inProgress, FirstPending>>
BY DEF Next, Client, CallStep, CheckFutures, Closed, vars, Enter, CallGet, CallSet, CallRemove,
       CallClose, NoCompactionToCheck, CompactionRunning, CompactionReady, DeprecateNext,
       ActivateNext, FlushesChecked, TryLaunchCompaction, Get, FirstMemTable, Write, Return,
       CloseDone, CompactionStep, CompactionJob, CompactionBegin, CompactionMerge,
       CompactionFlushBegin, CompactionFlushFinish, memVars, indexVars, dirVars, callVars,
       FirstPending

LEMMA FileFrame ==
    [Next]_vars =>
        \/ FlushReady \/ CloseFlush
        \/ CompactionReady \/ DeprecateNext \/ ActivateNext \/ ActivateLast
        \/ UNCHANGED <<indexQueue, compactionStartIndex, sst, InUpdate>>
BY DEF Next, Client, CallStep, CheckFutures, Closed, vars, Enter, CallGet, CallSet, CallRemove,
       CallClose, NoCompactionToCheck, CompactionRunning, PopMemTable, Roll, Return,
       FlushesChecked, TryLaunchCompaction, Get, FirstMemTable, Write, FlushJob,
       CloseDone, CompactionStep, CompactionJob, CompactionBegin, CompactionMerge,
       CompactionFlushBegin, CompactionFlushFinish, memVars, indexVars, dirVars, callVars,
       InUpdate

LEMMA IdTypes ==
    ASSUME IndInv
    PROVE  /\ sstCounter \in Nat /\ compactionStartIndex \in Nat
           /\ indexQueue \in Seq(Indexes) /\ unindexed \in Seq(Indexes)
           /\ flushFutures \in Seq(FlushJobs) /\ compaction.result \in Seq(Indexes)
           /\ \A i \in DOMAIN indexQueue : indexQueue[i].id \in Nat
           /\ \A i \in DOMAIN unindexed : unindexed[i].id \in Nat
           /\ \A i \in DOMAIN flushFutures : flushFutures[i].id \in Nat
           /\ \A i \in DOMAIN compaction.result : compaction.result[i].id \in Nat
<1>1. /\ sstCounter \in Nat /\ compactionStartIndex \in Nat
      /\ indexQueue \in Seq(Indexes) /\ unindexed \in Seq(Indexes)
      /\ flushFutures \in Seq(FlushJobs) /\ compaction.result \in Seq(Indexes)
  BY DEF IndInv, TypeOK, MemTableQueueTypeOK, SSTableIndexQueueTypeOK, IsCompaction
<1>2. ASSUME NEW q \in Seq(Indexes), NEW i \in DOMAIN q PROVE q[i].id \in Nat
  <2>1. q[i] \in Indexes
    OBVIOUS
  <2> QED
    BY <2>1 DEF Indexes
<1>3. ASSUME NEW i \in DOMAIN flushFutures PROVE flushFutures[i].id \in Nat
  <2>1. flushFutures[i] \in FlushJobs
    BY <1>1
  <2> QED
    BY <2>1 DEF FlushJobs
<1> QED
  BY <1>1, <1>2, <1>3

\* Where the indexes are after ReplaceCompacted: in front of the range, in the
\* result, behind the range.
LEMMA ReplacedQueue ==
    ASSUME IndInv, ActivateLast, NEW i \in DOMAIN indexQueue'
    PROVE  /\ i \in Nat
           /\ \/ i \in 1 .. compactionStartIndex /\ indexQueue'[i] = indexQueue[i]
              \/ /\ i \in compactionStartIndex + 1
                          .. compactionStartIndex + Len(compaction.result)
                 /\ indexQueue'[i] = compaction.result[i - compactionStartIndex]
              \/ /\ i > compactionStartIndex + Len(compaction.result)
                 /\ i - Len(compaction.result) + NumSSTableToCompact + 1 \in
                        compactionStartIndex + NumSSTableToCompact + 2 .. Len(indexQueue)
                 /\ indexQueue'[i] =
                        indexQueue[i - Len(compaction.result) + NumSSTableToCompact + 1]
<1>1. /\ indexQueue \in Seq(Indexes) /\ compactionStartIndex \in Nat
      /\ compaction.result \in Seq(Indexes)
  BY IdTypes
<1>2. compactionStartIndex + 1 + NumSSTableToCompact <= Len(indexQueue)
  BY DEF ActivateLast, IndInv, UpdateInv, InUpdate, ProgressInv
<1> DEFINE front == SubSeq(indexQueue, 1, compactionStartIndex)
           back == SubSeq(indexQueue, compactionStartIndex + NumSSTableToCompact + 2,
                          Len(indexQueue))
<1>3. /\ front \in Seq(Indexes) /\ Len(front) = compactionStartIndex
      /\ \A j \in 1 .. compactionStartIndex : front[j] = indexQueue[j]
  BY <1>1, <1>2, CompactAssumption
<1>4. /\ back \in Seq(Indexes)
      /\ Len(back) = Len(indexQueue) - compactionStartIndex - NumSSTableToCompact - 1
      /\ \A j \in 1 .. Len(back) :
             back[j] = indexQueue[j + compactionStartIndex + NumSSTableToCompact + 1]
  BY <1>1, <1>2, CompactAssumption
<1>5. indexQueue' = front \o compaction.result \o back
  BY DEF ActivateLast, ReplaceCompacted
<1> HIDE DEF front, back
<1>6. /\ front \o compaction.result \in Seq(Indexes)
      /\ Len(front \o compaction.result) = compactionStartIndex + Len(compaction.result)
      /\ \A j \in 1 .. compactionStartIndex + Len(compaction.result) :
             (front \o compaction.result)[j] =
                 IF j <= compactionStartIndex THEN front[j]
                 ELSE compaction.result[j - compactionStartIndex]
  BY <1>1, <1>3, Concatenation
<1>7. /\ i \in 1 .. compactionStartIndex + Len(compaction.result) + Len(back)
      /\ indexQueue'[i] = IF i <= compactionStartIndex + Len(compaction.result)
                          THEN (front \o compaction.result)[i]
                          ELSE back[i - (compactionStartIndex + Len(compaction.result))]
  <2> DEFINE q == front \o compaction.result
  <2>1. q \in Seq(Indexes) /\ indexQueue' = q \o back
    BY <1>5, <1>6
  <2> HIDE DEF q
  <2>2. /\ DOMAIN indexQueue' = 1 .. Len(q) + Len(back)
        /\ indexQueue'[i] = IF i <= Len(q) THEN q[i] ELSE back[i - Len(q)]
    <3>1. /\ q \o back \in Seq(Indexes) /\ Len(q \o back) = Len(q) + Len(back)
          /\ \A j \in 1 .. Len(q) + Len(back) :
                 (q \o back)[j] = IF j <= Len(q) THEN q[j] ELSE back[j - Len(q)]
      BY <2>1, <1>4, Concatenation
    <3> QED
      BY <3>1, <2>1
  <2> QED
    BY <2>2, <1>6 DEF q
<1>8. i \in Nat /\ compactionStartIndex + Len(compaction.result) \in Nat
  BY <1>1, <1>7, <1>4
<1>9. CASE i <= compactionStartIndex
  BY <1>1, <1>3, <1>6, <1>7, <1>9, <1>8
<1>10. CASE i > compactionStartIndex /\ i <= compactionStartIndex + Len(compaction.result)
  BY <1>1, <1>6, <1>7, <1>10, <1>8
<1>11. CASE i > compactionStartIndex + Len(compaction.result)
  <2> DEFINE j == i - (compactionStartIndex + Len(compaction.result))
  <2>1. j \in 1 .. Len(back) /\ indexQueue'[i] = back[j]
    BY <1>1, <1>4, <1>7, <1>11
  <2>2. indexQueue'[i] = indexQueue[j + compactionStartIndex + NumSSTableToCompact + 1]
    BY <2>1, <1>4
  <2>3. j + compactionStartIndex + NumSSTableToCompact + 1 =
            i - Len(compaction.result) + NumSSTableToCompact + 1
    BY <1>1, <1>7, CompactAssumption
  <2>4. i - Len(compaction.result) + NumSSTableToCompact + 1 \in
            compactionStartIndex + NumSSTableToCompact + 2 .. Len(indexQueue)
    <3> HIDE DEF j
    <3>1. j + compactionStartIndex + NumSSTableToCompact + 1 \in
            compactionStartIndex + NumSSTableToCompact + 2 .. Len(indexQueue)
      BY <1>1, <1>2, <1>4, <2>1, CompactAssumption
    <3> QED
      BY <3>1, <2>3
  <2> QED
    BY <1>11, <1>8, <2>2, <2>3, <2>4
<1> QED
  BY <1>1, <1>9, <1>10, <1>11, <1>8

\* The name of an index of the new queue is that of an index of the old one,
\* and the order of the names is kept.
LEMMA ReplacedIds ==
    ASSUME IndInv, ActivateLast
    PROVE  /\ \A i \in DOMAIN indexQueue' :
                  \E p \in DOMAIN indexQueue : indexQueue'[i].id = indexQueue[p].id
           /\ \A i, j \in DOMAIN indexQueue' : i < j => indexQueue'[i].id < indexQueue'[j].id
<1>1. /\ indexQueue \in Seq(Indexes) /\ compactionStartIndex \in Nat
      /\ compaction.result \in Seq(Indexes)
      /\ \A p \in DOMAIN indexQueue : indexQueue[p].id \in Nat
  BY IdTypes
<1>2. /\ compaction.stage = "ready"
      /\ compaction.next = compactionStartIndex + 2 + NumSSTableToCompact
      /\ compactionStartIndex + 1 + NumSSTableToCompact <= Len(indexQueue)
  BY <1>1, CompactAssumption DEF ActivateLast, IndInv, UpdateInv, InUpdate, ProgressInv
<1>3. \A p, r \in DOMAIN indexQueue : p < r => indexQueue[p].id < indexQueue[r].id
  BY DEF IndInv, IdInv
<1>4. ASSUME NEW r \in DOMAIN compaction.result
      PROVE  \E p \in CompactionRange : compaction.result[r].id = indexQueue[p].id
  BY <1>1, <1>2, CompactAssumption DEF IndInv, ResultInv, ReadSoFar, CompactionRange
<1>5. \A i, j \in DOMAIN compaction.result :
          i < j => compaction.result[i].id < compaction.result[j].id
  BY DEF IndInv, ResultInv
<1>6. CompactionRange \subseteq DOMAIN indexQueue
  BY <1>1, <1>2, CompactAssumption DEF CompactionRange
<1> DEFINE Front(i) == /\ i \in 1 .. compactionStartIndex
                       /\ indexQueue'[i] = indexQueue[i]
           Middle(i) == /\ i \in compactionStartIndex + 1
                                 .. compactionStartIndex + Len(compaction.result)
                        /\ indexQueue'[i] = compaction.result[i - compactionStartIndex]
           Old(i) == i - Len(compaction.result) + NumSSTableToCompact + 1
           Behind(i) == /\ i > compactionStartIndex + Len(compaction.result)
                        /\ Old(i) \in compactionStartIndex + NumSSTableToCompact + 2
                                         .. Len(indexQueue)
                        /\ indexQueue'[i] = indexQueue[Old(i)]
<1>7. \A i \in DOMAIN indexQueue' : i \in Nat /\ (Front(i) \/ Middle(i) \/ Behind(i))
  BY ReplacedQueue
<1>8. ASSUME NEW i \in DOMAIN indexQueue', Middle(i)
      PROVE  /\ i - compactionStartIndex \in DOMAIN compaction.result
             /\ \E p \in CompactionRange : indexQueue'[i].id = indexQueue[p].id
  BY <1>1, <1>4, <1>8
<1>9. ASSUME NEW i \in DOMAIN indexQueue', Front(i) PROVE i \in DOMAIN indexQueue
  BY <1>1, <1>2, <1>9, CompactAssumption
<1>10. ASSUME NEW i \in DOMAIN indexQueue', Behind(i) PROVE Old(i) \in DOMAIN indexQueue
  <2>1. Old(i) \in compactionStartIndex + NumSSTableToCompact + 2 .. Len(indexQueue)
    BY <1>10
  <2> HIDE DEF Old
  <2> QED
    BY <2>1, <1>1, CompactAssumption
<1>11. ASSUME NEW i \in DOMAIN indexQueue'
       PROVE  \E p \in DOMAIN indexQueue : indexQueue'[i].id = indexQueue[p].id
  BY <1>6, <1>7, <1>8, <1>9, <1>10
<1>12. ASSUME NEW i \in DOMAIN indexQueue', NEW j \in DOMAIN indexQueue', i < j
       PROVE  indexQueue'[i].id < indexQueue'[j].id
  <2>0. i \in Int /\ j \in Int /\ Len(compaction.result) \in Nat
    BY <1>1, <1>7, CompactAssumption
  <2>1. CASE Front(i) /\ Front(j)
    BY <2>1, <1>3, <1>9, <1>12
  <2>2. CASE Front(i) /\ Middle(j)
    <3>1. PICK p \in CompactionRange : indexQueue'[j].id = indexQueue[p].id
      BY <2>2, <1>8
    <3>2. i < p /\ p \in DOMAIN indexQueue
      BY <2>2, <1>1, <1>6 DEF CompactionRange
    <3> QED
      BY <3>1, <3>2, <2>2, <1>3, <1>9
  <2>3. CASE Front(i) /\ Behind(j)
    <3>1. i < Old(j)
      BY <2>3, <1>1, <2>0, CompactAssumption
    <3> QED
      BY <3>1, <2>3, <1>3, <1>9, <1>10
  <2>4. CASE Middle(i) /\ Middle(j)
    <3>1. i - compactionStartIndex < j - compactionStartIndex
      BY <2>0, <1>1, <1>12
    <3> QED
      BY <3>1, <2>4, <1>5, <1>8
  <2>5. CASE Middle(i) /\ Behind(j)
    <3>1. PICK p \in CompactionRange : indexQueue'[i].id = indexQueue[p].id
      BY <2>5, <1>8
    <3>2. p < Old(j) /\ p \in DOMAIN indexQueue
      <4>1. Old(j) \in compactionStartIndex + NumSSTableToCompact + 2 .. Len(indexQueue)
        BY <2>5
      <4>2. /\ p \in compactionStartIndex + 1 .. compactionStartIndex + 1 + NumSSTableToCompact
            /\ p \in DOMAIN indexQueue
        BY <1>6 DEF CompactionRange
      <4> HIDE DEF Old
      <4> QED
        BY <4>1, <4>2, <1>1, CompactAssumption
    <3> QED
      BY <3>1, <3>2, <2>5, <1>3, <1>10
  <2>6. CASE Behind(i) /\ Behind(j)
    <3>1. Old(i) < Old(j)
      BY <2>0, <1>12, CompactAssumption
    <3> QED
      BY <3>1, <2>6, <1>3, <1>10
  <2>7. ~(Middle(i) /\ Front(j)) /\ ~(Behind(i) /\ Front(j)) /\ ~(Behind(i) /\ Middle(j))
    BY <2>0, <1>1, <1>12
  <2> QED
    BY <2>1, <2>2, <2>3, <2>4, <2>5, <2>6, <2>7, <1>7
<1> QED
  BY <1>11, <1>12

LEMMA IdInvStep == IndInv /\ [Next]_vars => IdInv'
<1> SUFFICES ASSUME IndInv, [Next]_vars PROVE IdInv'
  OBVIOUS
<1>a. IdInv /\ CallInv
  BY DEF IndInv
<1>b. /\ sstCounter \in Nat /\ compactionStartIndex \in Nat
      /\ indexQueue \in Seq(Indexes) /\ unindexed \in Seq(Indexes)
      /\ flushFutures \in Seq(FlushJobs)
      /\ \A i \in DOMAIN indexQueue : indexQueue[i].id \in Nat
      /\ \A i \in DOMAIN unindexed : unindexed[i].id \in Nat
      /\ \A i \in DOMAIN flushFutures : flushFutures[i].id \in Nat
  BY IdTypes
<1>1. CASE FlushReady
  <2> DEFINE index == [id |-> Head(flushFutures).id, table |-> Head(flushFutures).table]
  <2>1. /\ flushFutures # <<>> /\ pc = "flushes" /\ pc' = "pop" /\ unindexed = <<>>
        /\ indexQueue' = Append(indexQueue, index)
        /\ UNCHANGED <<flushFutures, unindexed, sstCounter>>
    BY <1>1, <1>a DEF FlushReady, OldestFlushReady, Insert, memVars, CallInv
  <2>2. index.id = flushFutures[1].id /\ 1 \in DOMAIN flushFutures
    BY <2>1, <1>b
  <2> HIDE DEF index
  <2>3. /\ DOMAIN indexQueue' = 1 .. Len(indexQueue) + 1
        /\ \A i \in 1 .. Len(indexQueue) : indexQueue'[i] = indexQueue[i]
        /\ indexQueue'[Len(indexQueue) + 1].id = flushFutures[1].id
    BY <2>1, <2>2, <1>b
  <2>4. \A i \in 1 .. Len(indexQueue) : indexQueue[i].id < flushFutures[1].id
    BY <2>1, <2>2, <1>a, <1>b DEF IdInv, FirstPending
  <2>5. ASSUME NEW i \in DOMAIN indexQueue', NEW j \in DOMAIN indexQueue', i < j
        PROVE  indexQueue'[i].id < indexQueue'[j].id
    <3>1. i \in 1 .. Len(indexQueue) /\ j \in 1 .. Len(indexQueue) + 1
      BY <2>3, <2>5, <1>b
    <3>2. CASE j = Len(indexQueue) + 1
      BY <3>1, <3>2, <2>3, <2>4
    <3>3. CASE j \in 1 .. Len(indexQueue)
      <4>1. i \in DOMAIN indexQueue /\ j \in DOMAIN indexQueue
        BY <3>1, <3>3, <1>b
      <4>2. indexQueue[i].id < indexQueue[j].id
        BY <4>1, <2>5, <1>a DEF IdInv
      <4> QED
        BY <4>2, <3>1, <3>3, <2>3
    <3> QED
      BY <3>1, <3>2, <3>3, <1>b
  <2>6. ASSUME NEW i \in DOMAIN indexQueue', NEW j \in DOMAIN flushFutures, j >= 2
        PROVE  indexQueue'[i].id < flushFutures[j].id
    <3>1. flushFutures[1].id < flushFutures[j].id
      BY <2>2, <2>6, <1>a, <1>b DEF IdInv
    <3>2. indexQueue'[i].id <= flushFutures[1].id /\ indexQueue'[i].id \in Nat
      <4>1. CASE i = Len(indexQueue) + 1
        BY <4>1, <2>2, <2>3, <1>b
      <4>2. CASE i \in 1 .. Len(indexQueue)
        BY <4>2, <2>2, <2>3, <2>4, <1>b
      <4> QED
        BY <4>1, <4>2, <2>3, <1>b
    <3> QED
      BY <3>1, <3>2, <2>2, <1>b
  <2>7. ASSUME NEW i \in DOMAIN indexQueue' PROVE indexQueue'[i].id <= sstCounter
    BY <2>2, <2>3, <1>a, <1>b DEF IdInv
  <2> QED
    BY <2>1, <2>5, <2>6, <2>7, <1>a, <1>b DEF IdInv, FirstPending
<1>2. CASE CloseFlush
  <2> DEFINE index == [id |-> Head(flushFutures).id, table |-> Head(flushFutures).table]
  <2>1. /\ flushFutures # <<>> /\ pc = "close" /\ pc' = "pop"
        /\ unindexed' = Append(unindexed, index)
        /\ UNCHANGED <<flushFutures, indexQueue, sstCounter>>
    BY <1>2 DEF CloseFlush, OldestFlushReady, memVars, indexVars
  <2>2. index.id = flushFutures[1].id /\ 1 \in DOMAIN flushFutures
    BY <2>1, <1>b
  <2> HIDE DEF index
  <2>3. /\ DOMAIN unindexed' = 1 .. Len(unindexed) + 1
        /\ \A i \in 1 .. Len(unindexed) : unindexed'[i] = unindexed[i]
        /\ unindexed'[Len(unindexed) + 1].id = flushFutures[1].id
    BY <2>1, <2>2, <1>b
  <2>4. /\ \A i \in 1 .. Len(unindexed) : unindexed[i].id < flushFutures[1].id
        /\ \A i \in DOMAIN indexQueue : indexQueue[i].id < flushFutures[1].id
    <3>1. 1 >= FirstPending
      BY <2>1 DEF FirstPending
    <3>2. ASSUME NEW i \in 1 .. Len(unindexed) PROVE unindexed[i].id < flushFutures[1].id
      BY <3>1, <2>2, <1>a, <1>b DEF IdInv
    <3> QED
      BY <3>1, <3>2, <2>2, <1>a DEF IdInv
  <2>5. ASSUME NEW i \in DOMAIN unindexed', NEW j \in DOMAIN unindexed', i < j
        PROVE  unindexed'[i].id < unindexed'[j].id
    BY <2>3, <2>4, <2>5, <1>a, <1>b DEF IdInv
  <2>6. ASSUME NEW i \in DOMAIN unindexed', NEW j \in DOMAIN flushFutures, j >= 2
        PROVE  unindexed'[i].id < flushFutures[j].id
    <3>1. flushFutures[1].id < flushFutures[j].id
      BY <2>2, <2>6, <1>a, <1>b DEF IdInv
    <3>2. unindexed'[i].id <= flushFutures[1].id /\ unindexed'[i].id \in Nat
      <4>1. CASE i = Len(unindexed) + 1
        BY <4>1, <2>2, <2>3, <1>b
      <4>2. CASE i \in 1 .. Len(unindexed)
        BY <4>2, <2>2, <2>3, <2>4, <1>b
      <4> QED
        BY <4>1, <4>2, <2>3, <1>b
    <3> QED
      BY <3>1, <3>2, <2>2, <1>b
  <2>7. ASSUME NEW i \in DOMAIN unindexed' PROVE unindexed'[i].id <= sstCounter
    BY <2>2, <2>3, <1>a, <1>b DEF IdInv
  <2>8. ASSUME NEW i \in DOMAIN indexQueue, NEW j \in DOMAIN unindexed'
        PROVE  indexQueue[i].id < unindexed'[j].id
    BY <2>3, <2>4, <1>a, <1>b DEF IdInv
  <2> QED
    BY <2>1, <2>5, <2>6, <2>7, <2>8, <1>a, <1>b DEF IdInv, FirstPending
<1>3. CASE PopMemTable
  <2>1. /\ flushFutures # <<>> /\ pc = "pop" /\ pc' # "pop"
        /\ flushFutures' = Tail(flushFutures)
        /\ UNCHANGED <<indexQueue, unindexed, sstCounter>>
    BY <1>3, <1>a DEF PopMemTable, CallInv, indexVars
  <2>2. ASSUME NEW i \in DOMAIN flushFutures'
        PROVE  /\ i + 1 \in DOMAIN flushFutures /\ i + 1 >= 2
               /\ flushFutures'[i] = flushFutures[i + 1]
    BY <2>1, <1>b
  <2>3. ASSUME NEW i \in DOMAIN flushFutures', NEW j \in DOMAIN flushFutures', i < j
        PROVE  flushFutures'[i].id < flushFutures'[j].id
    <3>1. i + 1 < j + 1
      BY <2>1, <2>3, <1>b
    <3> QED
      BY <3>1, <2>2, <1>a DEF IdInv
  <2> QED
    BY <2>1, <2>2, <2>3, <1>a DEF IdInv, FirstPending
<1>4. CASE Roll
  <2> DEFINE job == [id |-> sstCounter + 1, log |-> memTableQueue[Back].log,
                     table |-> memTableQueue[Back].table, stage |-> "launched"]
  <2>1. /\ flushFutures' = Append(flushFutures, job) /\ sstCounter' = sstCounter + 1
        /\ pc # "pop" /\ pc' # "pop"
        /\ UNCHANGED <<indexQueue, unindexed>>
    BY <1>4 DEF Roll, RollMemTable, LaunchFlushToDisk, Return, indexVars
  <2>2. job.id = sstCounter + 1
    OBVIOUS
  <2> HIDE DEF job
  <2>3. /\ DOMAIN flushFutures' = 1 .. Len(flushFutures) + 1
        /\ \A i \in 1 .. Len(flushFutures) : flushFutures'[i] = flushFutures[i]
        /\ flushFutures'[Len(flushFutures) + 1].id = sstCounter + 1
    BY <2>1, <2>2, <1>b
  <2>4. \A i \in 1 .. Len(flushFutures) : flushFutures[i].id < sstCounter + 1
    BY <1>a, <1>b DEF IdInv
  <2>5. ASSUME NEW i \in DOMAIN flushFutures', NEW j \in DOMAIN flushFutures', i < j
        PROVE  flushFutures'[i].id < flushFutures'[j].id
    <3>1. i \in 1 .. Len(flushFutures) /\ j \in 1 .. Len(flushFutures) + 1
      BY <2>3, <2>5, <1>b
    <3>2. CASE j = Len(flushFutures) + 1
      BY <3>1, <3>2, <2>3, <2>4
    <3>3. CASE j \in 1 .. Len(flushFutures)
      BY <3>1, <3>3, <2>3, <2>5, <1>a, <1>b DEF IdInv
    <3> QED
      BY <3>1, <3>2, <3>3, <1>b
  <2>6. ASSUME NEW i \in DOMAIN indexQueue, NEW j \in DOMAIN flushFutures'
        PROVE  indexQueue[i].id < flushFutures'[j].id
    BY <2>1, <2>3, <1>a, <1>b DEF IdInv, FirstPending
  <2>7. ASSUME NEW i \in DOMAIN unindexed, NEW j \in DOMAIN flushFutures'
        PROVE  unindexed[i].id < flushFutures'[j].id
    BY <2>1, <2>3, <1>a, <1>b DEF IdInv, FirstPending
  <2>8. ASSUME NEW i \in DOMAIN flushFutures' PROVE flushFutures'[i].id <= sstCounter'
    BY <2>1, <2>3, <2>4, <1>b
  <2> QED
    <3>1. /\ \A i \in DOMAIN indexQueue' : indexQueue'[i].id <= sstCounter'
          /\ \A i \in DOMAIN unindexed' : unindexed'[i].id <= sstCounter'
      BY <2>1, <1>a, <1>b DEF IdInv
    <3>2. /\ \A i, j \in DOMAIN indexQueue' : i < j => indexQueue'[i].id < indexQueue'[j].id
          /\ \A i, j \in DOMAIN unindexed' : i < j => unindexed'[i].id < unindexed'[j].id
          /\ \A i \in DOMAIN indexQueue', j \in DOMAIN unindexed' :
                 indexQueue'[i].id < unindexed'[j].id
      BY <2>1, <1>a DEF IdInv
    <3>3. /\ \A i \in DOMAIN indexQueue', j \in DOMAIN flushFutures' :
                 indexQueue'[i].id < flushFutures'[j].id
          /\ \A i \in DOMAIN unindexed', j \in DOMAIN flushFutures' :
                 unindexed'[i].id < flushFutures'[j].id
      BY <2>1, <2>6, <2>7
    <3> QED
      BY <3>1, <3>2, <3>3, <2>5, <2>8 DEF IdInv
<1>5. ASSUME NEW i \in DOMAIN flushFutures, FlushJob(i) PROVE IdInv'
  <2>1. /\ UNCHANGED <<indexQueue, unindexed, sstCounter, pc>>
        /\ DOMAIN flushFutures' = DOMAIN flushFutures
    BY <1>5, <1>b DEF FlushJob, FlushBegin, FlushFinish, indexVars, callVars
  <2>2. ASSUME NEW j \in DOMAIN flushFutures PROVE flushFutures'[j].id = flushFutures[j].id
    <3>1. flushFutures[j] \in FlushJobs
      BY <1>b
    <3>2. \/ flushFutures'[j] = flushFutures[j]
          \/ flushFutures'[j] = [flushFutures[j] EXCEPT !.stage = "writing"]
          \/ flushFutures'[j] = [flushFutures[j] EXCEPT !.stage = "ready"]
      BY <1>5, <1>b DEF FlushJob, FlushBegin, FlushFinish
    <3> QED
      BY <3>1, <3>2 DEF FlushJobs
  <2> QED
    BY <2>1, <2>2, <1>a DEF IdInv, FirstPending
<1>6. CASE ActivateLast
  <2>1. /\ UNCHANGED <<unindexed, flushFutures, sstCounter>>
        /\ pc # "pop" /\ pc' # "pop"
    BY <1>6 DEF ActivateLast, memVars
  <2>2. /\ \A i \in DOMAIN indexQueue' :
               \E p \in DOMAIN indexQueue : indexQueue'[i].id = indexQueue[p].id
        /\ \A i, j \in DOMAIN indexQueue' : i < j => indexQueue'[i].id < indexQueue'[j].id
    BY <1>6, ReplacedIds
  <2> QED
    BY <2>1, <2>2, <1>a DEF IdInv, FirstPending
<1>7. CASE UNCHANGED <<indexQueue, unindexed, flushFutures, sstCounter, inProgress, FirstPending>>
  BY <1>7, <1>a DEF IdInv
<1> QED
  BY <1>1, <1>2, <1>3, <1>4, <1>5, <1>6, <1>7, NameFrame

LEMMA InProgressInvStep == IndInv /\ [Next]_vars => InProgressInv'
<1> SUFFICES ASSUME IndInv, [Next]_vars PROVE InProgressInv'
  OBVIOUS
<1>a. InProgressInv /\ CallInv
  BY DEF IndInv
<1>b. flushFutures \in Seq(FlushJobs)
  BY IdTypes
<1>c. ASSUME NEW i \in DOMAIN flushFutures, NEW j \in DOMAIN flushFutures, i # j
      PROVE  flushFutures[i].id # flushFutures[j].id
  <2>1. \A k \in DOMAIN flushFutures : flushFutures[k].id \in Nat
    BY IdTypes
  <2>2. i < j \/ j < i
    BY <1>b, <1>c
  <2>3. \A k, l \in DOMAIN flushFutures : k < l => flushFutures[k].id < flushFutures[l].id
    BY DEF IndInv, IdInv
  <2> QED
    BY <2>1, <2>2, <2>3
\* The file of the oldest job is renamed: the others stay.
<1>d. ASSUME flushFutures # <<>>, pc # "pop", pc' = "pop", UNCHANGED flushFutures,
             inProgress' = Without(inProgress, Head(flushFutures).id)
      PROVE  InProgressInv'
  <2>1. FirstPending = 1 /\ FirstPending' = 2 /\ 1 \in DOMAIN flushFutures
    BY <1>b, <1>d DEF FirstPending
  <2>2. inProgress' = Without(inProgress, flushFutures[1].id)
    BY <1>b, <1>d
  <2>3. ASSUME NEW i \in DOMAIN flushFutures, i >= 2, flushFutures[i].stage = "ready"
        PROVE  /\ flushFutures[i].id \in DOMAIN inProgress'
               /\ inProgress'[flushFutures[i].id] = flushFutures[i].table
    <3>1. /\ flushFutures[i].id \in DOMAIN inProgress
          /\ inProgress[flushFutures[i].id] = flushFutures[i].table
      BY <2>1, <2>3, <1>a, <1>b DEF InProgressInv
    <3>2. flushFutures[i].id # flushFutures[1].id
      BY <2>1, <2>3, <1>c
    <3> QED
      BY <3>1, <3>2, <2>2 DEF Without
  <2> QED
    BY <1>d, <2>1, <2>3 DEF InProgressInv
<1>1. CASE FlushReady
  BY <1>1, <1>d DEF FlushReady, OldestFlushReady, ActivateInProgress, memVars
<1>2. CASE CloseFlush
  BY <1>2, <1>d DEF CloseFlush, OldestFlushReady, ActivateInProgress, memVars
<1>3. CASE PopMemTable
  <2>1. /\ flushFutures # <<>> /\ pc = "pop" /\ pc' # "pop"
        /\ flushFutures' = Tail(flushFutures) /\ UNCHANGED inProgress
    BY <1>3, <1>a DEF PopMemTable, CallInv
  <2>2. ASSUME NEW i \in DOMAIN flushFutures'
        PROVE  /\ i + 1 \in DOMAIN flushFutures /\ i + 1 >= 2
               /\ flushFutures'[i] = flushFutures[i + 1]
    BY <2>1, <1>b
  <2> QED
    BY <2>1, <2>2, <1>a DEF InProgressInv, FirstPending
<1>4. CASE Roll
  <2> DEFINE job == [id |-> sstCounter + 1, log |-> memTableQueue[Back].log,
                     table |-> memTableQueue[Back].table, stage |-> "launched"]
  <2>1. /\ flushFutures' = Append(flushFutures, job) /\ UNCHANGED inProgress
        /\ pc # "pop" /\ pc' # "pop"
    BY <1>4 DEF Roll, RollMemTable, LaunchFlushToDisk, Return
  <2>2. job.stage = "launched"
    OBVIOUS
  <2> HIDE DEF job
  <2>3. /\ DOMAIN flushFutures' = 1 .. Len(flushFutures) + 1
        /\ \A i \in 1 .. Len(flushFutures) : flushFutures'[i] = flushFutures[i]
        /\ flushFutures'[Len(flushFutures) + 1].stage = "launched"
    BY <2>1, <2>2, <1>b
  <2> QED
    BY <2>1, <2>3, <1>a, <1>b DEF InProgressInv, FirstPending
<1>5. ASSUME NEW i \in DOMAIN flushFutures, FlushJob(i) PROVE InProgressInv'
  <2>0. UNCHANGED pc /\ DOMAIN flushFutures' = DOMAIN flushFutures
    BY <1>5, <1>b DEF FlushJob, FlushBegin, FlushFinish, callVars
  <2>1. flushFutures[i] \in FlushJobs
    BY <1>b
  <2>2. ASSUME NEW j \in DOMAIN flushFutures, j # i
        PROVE  flushFutures'[j] = flushFutures[j]
    BY <1>5, <2>2, <1>b DEF FlushJob, FlushBegin, FlushFinish
  <2>3. PICK table \in {EmptyTable, flushFutures[i].table} :
            inProgress' = Put(inProgress, flushFutures[i].id, table)
    BY <1>5 DEF FlushJob, FlushBegin, FlushFinish
  <2>4. ASSUME NEW j \in DOMAIN flushFutures, j # i,
               j >= FirstPending, flushFutures[j].stage = "ready"
        PROVE  /\ flushFutures[j].id \in DOMAIN inProgress'
               /\ inProgress'[flushFutures[j].id] = flushFutures[j].table
    BY <2>3, <2>4, <1>a, <1>c DEF InProgressInv, Put
  <2>5. \/ flushFutures'[i].stage = "writing"
        \/ /\ flushFutures'[i].id \in DOMAIN inProgress'
           /\ inProgress'[flushFutures'[i].id] = flushFutures'[i].table
    <3>1. CASE FlushBegin(i)
      <4>1. flushFutures'[i] = [flushFutures[i] EXCEPT !.stage = "writing"]
        BY <3>1, <1>b DEF FlushBegin
      <4> QED
        BY <4>1, <2>1 DEF FlushJobs
    <3>2. CASE FlushFinish(i)
      <4>1. flushFutures'[i] = [flushFutures[i] EXCEPT !.stage = "ready"]
        BY <3>2, <1>b DEF FlushFinish
      <4>2. flushFutures'[i].id = flushFutures[i].id /\ flushFutures'[i].table = flushFutures[i].table
        BY <4>1, <2>1 DEF FlushJobs
      <4> QED
        BY <3>2, <4>2 DEF FlushFinish, Put
    <3> QED
      BY <1>5, <3>1, <3>2 DEF FlushJob
  <2> QED
    BY <2>0, <2>2, <2>4, <2>5 DEF InProgressInv, FirstPending
<1>6. CASE ActivateLast
  BY <1>6, <1>a DEF ActivateLast, memVars, InProgressInv, FirstPending
<1>7. CASE UNCHANGED <<indexQueue, unindexed, flushFutures, sstCounter, inProgress, FirstPending>>
  BY <1>7, <1>a DEF InProgressInv
<1> QED
  BY <1>1, <1>2, <1>3, <1>4, <1>5, <1>6, <1>7, NameFrame

\* The names of the result and of its files in update.
LEMMA UpdateIds ==
    ASSUME IndInv, InUpdate
    PROVE  /\ compactionStartIndex + 1 + NumSSTableToCompact <= Len(indexQueue)
           /\ CompactionRange \subseteq DOMAIN indexQueue
           /\ \A p, r \in DOMAIN indexQueue : p # r => indexQueue[p].id # indexQueue[r].id
           /\ \A i, j \in DOMAIN compaction.result :
                  i # j => compaction.result[i].id # compaction.result[j].id
           /\ \A i \in DOMAIN compaction.result :
                  \E p \in CompactionRange : compaction.result[i].id = indexQueue[p].id
<1>1. /\ indexQueue \in Seq(Indexes) /\ compactionStartIndex \in Nat
      /\ compaction.result \in Seq(Indexes)
      /\ \A p \in DOMAIN indexQueue : indexQueue[p].id \in Nat
      /\ \A i \in DOMAIN compaction.result : compaction.result[i].id \in Nat
  BY IdTypes
<1>2. /\ compaction.stage = "ready"
      /\ compaction.next = compactionStartIndex + 2 + NumSSTableToCompact
      /\ compactionStartIndex + 1 + NumSSTableToCompact <= Len(indexQueue)
  BY <1>1, CompactAssumption DEF IndInv, UpdateInv, ProgressInv
<1>3. CompactionRange \subseteq DOMAIN indexQueue
  BY <1>1, <1>2, CompactAssumption DEF CompactionRange
<1>4. ASSUME NEW p \in DOMAIN indexQueue, NEW r \in DOMAIN indexQueue, p # r
      PROVE  indexQueue[p].id # indexQueue[r].id
  <2>1. p < r \/ r < p
    BY <1>1, <1>4
  <2>2. \A k, l \in DOMAIN indexQueue : k < l => indexQueue[k].id < indexQueue[l].id
    BY DEF IndInv, IdInv
  <2> QED
    BY <2>1, <2>2, <1>1
<1>5. ASSUME NEW i \in DOMAIN compaction.result, NEW j \in DOMAIN compaction.result, i # j
      PROVE  compaction.result[i].id # compaction.result[j].id
  <2>1. i < j \/ j < i
    BY <1>1, <1>5
  <2>2. \A k, l \in DOMAIN compaction.result :
            k < l => compaction.result[k].id < compaction.result[l].id
    BY DEF IndInv, ResultInv
  <2> QED
    BY <2>1, <2>2, <1>1
<1>6. ASSUME NEW i \in DOMAIN compaction.result
      PROVE  \E p \in CompactionRange : compaction.result[i].id = indexQueue[p].id
  BY <1>1, <1>2, CompactAssumption DEF IndInv, ResultInv, ReadSoFar, CompactionRange
<1> QED
  BY <1>2, <1>3, <1>4, <1>5, <1>6

LEMMA IndexMatchesFileStep == IndInv /\ [Next]_vars => IndexMatchesFile'
<1> SUFFICES ASSUME IndInv, [Next]_vars PROVE IndexMatchesFile'
  OBVIOUS
<1>a. IndexMatchesFile /\ UpdateInv
  BY DEF IndInv
<1>b. /\ indexQueue \in Seq(Indexes) /\ flushFutures \in Seq(FlushJobs)
      /\ compactionStartIndex \in Nat /\ compaction.result \in Seq(Indexes)
      /\ \A i \in DOMAIN indexQueue : indexQueue[i].id \in Nat
      /\ \A i \in DOMAIN flushFutures : flushFutures[i].id \in Nat
  BY IdTypes
\* A .ip file becomes an SSTable.
<1>c. ASSUME flushFutures # <<>>, Head(flushFutures).stage = "ready", pc \in {"flushes", "close"},
             ActivateInProgress(Head(flushFutures).id)
      PROVE  /\ flushFutures[1].id \in DOMAIN sst'
             /\ sst'[flushFutures[1].id] = flushFutures[1].table
             /\ \A i \in DOMAIN indexQueue :
                    /\ indexQueue[i].id \in DOMAIN sst'
                    /\ sst'[indexQueue[i].id] = indexQueue[i].table
  <2>1. /\ FirstPending = 1 /\ 1 \in DOMAIN flushFutures /\ ~InUpdate
        /\ flushFutures[1].stage = "ready"
    BY <1>b, <1>c DEF FirstPending, InUpdate
  <2>2. inProgress[flushFutures[1].id] = flushFutures[1].table
    BY <2>1, <1>b DEF IndInv, InProgressInv
  <2>3. sst' = Put(sst, flushFutures[1].id, inProgress[flushFutures[1].id])
    BY <1>b, <1>c DEF ActivateInProgress
  <2>4. ASSUME NEW i \in DOMAIN indexQueue
        PROVE  /\ indexQueue[i].id \in DOMAIN sst'
               /\ sst'[indexQueue[i].id] = indexQueue[i].table
    <3>1. indexQueue[i].id < flushFutures[1].id
      BY <2>1, <1>b DEF IndInv, IdInv
    <3>2. indexQueue[i].id # flushFutures[1].id
      BY <3>1, <2>1, <1>b
    <3> QED
      BY <3>2, <2>1, <2>3, <1>a DEF IndexMatchesFile, Put
  <2> QED
    BY <2>2, <2>3, <2>4 DEF Put
<1>1. CASE FlushReady
  <2> DEFINE index == [id |-> Head(flushFutures).id, table |-> Head(flushFutures).table]
  <2>1. /\ flushFutures # <<>> /\ indexQueue' = Append(indexQueue, index)
        /\ pc = "flushes" /\ Head(flushFutures).stage = "ready"
        /\ ActivateInProgress(Head(flushFutures).id)
    BY <1>1 DEF FlushReady, OldestFlushReady, Insert
  <2>2. index.id = flushFutures[1].id /\ index.table = flushFutures[1].table
    BY <2>1, <1>b
  <2> HIDE DEF index
  <2>3. /\ DOMAIN indexQueue' = 1 .. Len(indexQueue) + 1
        /\ \A i \in 1 .. Len(indexQueue) : indexQueue'[i] = indexQueue[i]
        /\ indexQueue'[Len(indexQueue) + 1] = index
    BY <2>1, <1>b
  <2>4. ASSUME NEW i \in DOMAIN indexQueue'
        PROVE  /\ indexQueue'[i].id \in DOMAIN sst'
               /\ sst'[indexQueue'[i].id] = indexQueue'[i].table
    <3>1. CASE i = Len(indexQueue) + 1
      BY <3>1, <2>1, <2>2, <2>3, <1>c
    <3>2. CASE i \in 1 .. Len(indexQueue)
      BY <3>2, <2>1, <2>3, <1>b, <1>c
    <3> QED
      BY <3>1, <3>2, <2>3, <1>b
  <2> QED
    BY <2>4 DEF IndexMatchesFile
<1>2. CASE CloseFlush
  <2>1. /\ flushFutures # <<>> /\ UNCHANGED indexQueue
        /\ pc = "close" /\ Head(flushFutures).stage = "ready"
        /\ ActivateInProgress(Head(flushFutures).id)
    BY <1>2 DEF CloseFlush, OldestFlushReady, indexVars
  <2> QED
    BY <2>1, <1>c DEF IndexMatchesFile
<1>3. CASE CompactionReady
  <2>1. UNCHANGED <<indexQueue, compactionStartIndex, sst>> /\ ~InUpdate
    BY <1>3 DEF CompactionReady, indexVars, dirVars, InUpdate
  <2> QED
    BY <2>1, <1>a DEF IndexMatchesFile, CompactionRange
<1>4. CASE DeprecateNext
  <2> DEFINE p == compactionStartIndex + cursor
  <2>1. /\ InUpdate /\ InUpdate' /\ UNCHANGED <<indexQueue, compactionStartIndex>>
        /\ sst' = Without(sst, indexQueue[p].id)
    BY <1>4 DEF DeprecateNext, DeprecateCompacted, DeprecateSSTable, indexVars, InUpdate
  <2>2. p \in CompactionRange
    BY <1>4, <1>a, <1>b, CompactAssumption DEF DeprecateNext, UpdateInv, CompactionRange
  <2> HIDE DEF p
  <2>3. ASSUME NEW i \in DOMAIN indexQueue, i \notin CompactionRange
        PROVE  /\ indexQueue[i].id \in DOMAIN sst'
               /\ sst'[indexQueue[i].id] = indexQueue[i].table
    <3>1. indexQueue[i].id # indexQueue[p].id
      BY <2>1, <2>2, <2>3, UpdateIds
    <3> QED
      BY <3>1, <2>1, <2>3, <1>a DEF IndexMatchesFile, Without
  <2> QED
    BY <2>1, <2>3 DEF IndexMatchesFile, CompactionRange
\* A .merged file becomes an SSTable.
<1>d. ASSUME pc = "activate", ActivateCompacted(cursor)
      PROVE  /\ compaction.result[cursor].id \in DOMAIN sst'
             /\ sst'[compaction.result[cursor].id] = compaction.result[cursor].table
             /\ \A i \in DOMAIN sst : i # compaction.result[cursor].id =>
                    i \in DOMAIN sst' /\ sst'[i] = sst[i]
             /\ \A i \in DOMAIN indexQueue : i \notin CompactionRange =>
                    /\ indexQueue[i].id \in DOMAIN sst'
                    /\ sst'[indexQueue[i].id] = indexQueue[i].table
  <2> DEFINE id == compaction.result[cursor].id
  <2>0. cursor \in DOMAIN compaction.result /\ InUpdate
    BY <1>a, <1>b, <1>d DEF UpdateInv, InUpdate
  <2>1. cursor \notin Activated
    BY <2>0, <1>b, <1>d DEF Activated
  <2>2. merged[id] = compaction.result[cursor].table
    BY <2>0, <2>1, <1>a DEF UpdateInv
  <2>3. sst' = Put(sst, id, merged[id])
    BY <1>d DEF ActivateCompacted, ActivateMerged
  <2>4. PICK p \in CompactionRange : id = indexQueue[p].id
    BY <2>0, UpdateIds
  <2> HIDE DEF id
  <2>5. ASSUME NEW i \in DOMAIN indexQueue, i \notin CompactionRange
        PROVE  /\ indexQueue[i].id \in DOMAIN sst'
               /\ sst'[indexQueue[i].id] = indexQueue[i].table
    <3>1. indexQueue[i].id # id
      BY <2>0, <2>4, <2>5, UpdateIds
    <3> QED
      BY <3>1, <2>0, <2>3, <2>5, <1>a DEF IndexMatchesFile, Put
  <2>6. \A i \in DOMAIN sst : i # id => i \in DOMAIN sst' /\ sst'[i] = sst[i]
    BY <2>3 DEF Put
  <2>7. id \in DOMAIN sst' /\ sst'[id] = compaction.result[cursor].table
    BY <2>2, <2>3 DEF Put
  <2> QED
    BY <2>5, <2>6, <2>7 DEF id
<1>5. CASE ActivateNext
  <2>1. /\ pc = "activate" /\ InUpdate' /\ UNCHANGED <<indexQueue, compactionStartIndex>>
        /\ ActivateCompacted(cursor)
    BY <1>5 DEF ActivateNext, indexVars, InUpdate
  <2> QED
    BY <2>1, <1>d DEF IndexMatchesFile, CompactionRange
<1>6. CASE ActivateLast
  <2>1. /\ pc = "activate" /\ InUpdate /\ ActivateCompacted(cursor)
        /\ cursor = Len(compaction.result)
    BY <1>6 DEF ActivateLast, InUpdate
  <2>2. ASSUME NEW i \in DOMAIN indexQueue'
        PROVE  /\ indexQueue'[i].id \in DOMAIN sst'
               /\ sst'[indexQueue'[i].id] = indexQueue'[i].table
    <3>1. CASE i \in 1 .. compactionStartIndex /\ indexQueue'[i] = indexQueue[i]
      <4>1. i \in DOMAIN indexQueue /\ i \notin CompactionRange
        BY <3>1, <2>1, <1>b, UpdateIds, CompactAssumption DEF CompactionRange
      <4> QED
        BY <4>1, <3>1, <2>1, <1>d
    <3>2. CASE /\ i \in compactionStartIndex + 1 .. compactionStartIndex + Len(compaction.result)
               /\ indexQueue'[i] = compaction.result[i - compactionStartIndex]
      <4> DEFINE r == i - compactionStartIndex
      <4>1. r \in DOMAIN compaction.result /\ indexQueue'[i] = compaction.result[r]
        BY <3>2, <1>b
      <4> HIDE DEF r
      <4>2. CASE r = cursor
        BY <4>1, <4>2, <2>1, <1>d
      <4>3. CASE r # cursor
        <5>1. r \in Activated
          BY <4>1, <4>3, <2>1, <1>b DEF Activated
        <5>2. /\ compaction.result[r].id \in DOMAIN sst
              /\ sst[compaction.result[r].id] = compaction.result[r].table
          BY <5>1, <4>1, <1>a DEF UpdateInv
        <5>3. compaction.result[r].id # compaction.result[cursor].id
          <6>1. cursor \in DOMAIN compaction.result
            BY <2>1, <1>a, <1>b DEF UpdateInv
          <6> QED
            BY <6>1, <4>1, <4>3, <2>1, UpdateIds
        <5> QED
          BY <5>2, <5>3, <4>1, <2>1, <1>d
      <4> QED
        BY <4>2, <4>3
    <3>3. ASSUME NEW q \in compactionStartIndex + NumSSTableToCompact + 2 .. Len(indexQueue),
                 indexQueue'[i] = indexQueue[q]
          PROVE  /\ indexQueue'[i].id \in DOMAIN sst'
                 /\ sst'[indexQueue'[i].id] = indexQueue'[i].table
      <4>1. q \in DOMAIN indexQueue /\ q \notin CompactionRange
        BY <3>3, <1>b, CompactAssumption DEF CompactionRange
      <4> QED
        BY <4>1, <3>3, <2>1, <1>d
    <3> QED
      BY <3>1, <3>2, <3>3, <1>6, ReplacedQueue
  <2> QED
    BY <2>2 DEF IndexMatchesFile
<1>7. CASE UNCHANGED <<indexQueue, compactionStartIndex, sst, InUpdate>>
  BY <1>7, <1>a DEF IndexMatchesFile, CompactionRange
<1> QED
  BY <1>1, <1>2, <1>3, <1>4, <1>5, <1>6, <1>7, FileFrame

-----------------------------------------------------------------------------
(***************************************************************************)
(* The invariants about the compaction job.                                *)
(***************************************************************************)

LEMMA NoCompactionInFlushesStep == IndInv /\ [Next]_vars => NoCompactionInFlushes'
<1> SUFFICES ASSUME IndInv, [Next]_vars PROVE NoCompactionInFlushes'
  OBVIOUS
<1>a. NoCompactionInFlushes /\ CallInv
  BY DEF IndInv
<1>1. CASE CompactionStep
  BY <1>1, <1>a
     DEF CompactionStep, CompactionJob, CompactionBegin, CompactionMerge, CompactionFlushBegin,
         CompactionFlushFinish, NoCompactionInFlushes, callVars
<1>2. CASE Client
  BY <1>2 DEF Client, CallGet, CallSet, CallRemove, CallClose, Enter, NoCompactionInFlushes
<1>3. CASE CallStep
  BY <1>3, <1>a
     DEF CallStep, CheckFutures, NoCompactionToCheck, CompactionRunning, CompactionReady,
         DeprecateNext, ActivateNext, ActivateLast, ReplaceCompacted, NoCompaction, FlushReady,
         PopMemTable, FlushesChecked, Get, FirstMemTable, Write, Roll, Return, CloseFlush,
         CloseDone, NoCompactionInFlushes, CallInv, indexVars, callVars
<1>4. ASSUME NEW i \in DOMAIN flushFutures, FlushJob(i) PROVE NoCompactionInFlushes'
  BY <1>4, <1>a DEF FlushJob, NoCompactionInFlushes, indexVars, callVars
<1>5. CASE UNCHANGED vars
  BY <1>5, <1>a DEF vars, indexVars, callVars, NoCompactionInFlushes
<1> QED
  BY <1>1, <1>2, <1>3, <1>4, <1>5 DEF Next, Closed

\* What a compaction job is typed as, in the parts that the proofs need.
LEMMA CompactionTypes ==
    ASSUME IndInv
    PROVE  /\ compaction.next \in Nat /\ compaction.last \in Nat /\ compaction.currId \in Nat
           /\ compaction.stage \in
                  {"none", "launched", "merging", "flushing", "writing", "ready"}
           /\ compaction.result \in Seq(Indexes)
           /\ compactionStartIndex \in Nat /\ indexQueue \in Seq(Indexes)
BY DEF IndInv, TypeOK, SSTableIndexQueueTypeOK, IsCompaction

LEMMA ProgressInvStep == IndInv /\ [Next]_vars => ProgressInv'
<1> SUFFICES ASSUME IndInv, [Next]_vars PROVE ProgressInv'
  OBVIOUS
<1>a. ProgressInv /\ IsCompaction(compaction)
  BY DEF IndInv, TypeOK, SSTableIndexQueueTypeOK
<1>b. /\ compaction.next \in Nat /\ compaction.last \in Nat
      /\ compaction.result \in Seq(Indexes)
      /\ compactionStartIndex \in Nat /\ indexQueue \in Seq(Indexes)
  BY CompactionTypes
<1>1. CASE ActivateLast
  BY <1>1 DEF ActivateLast, ReplaceCompacted, NoCompaction, ProgressInv
<1>2. CASE FlushReady
  BY <1>2 DEF FlushReady, IndInv, NoCompactionInFlushes, CallInv, ProgressInv
<1>3. CASE FlushesChecked
  <2>1. CASE CanCompact
    BY <1>3, <2>1, <1>b, CompactAssumption
       DEF FlushesChecked, TryLaunchCompaction, CanCompact, ProgressInv
  <2>2. CASE ~CanCompact
    BY <1>3, <2>2, <1>a DEF FlushesChecked, TryLaunchCompaction, ProgressInv
  <2> QED
    BY <2>1, <2>2
<1>4. CASE CompactionStep
  <2>0. CompactionJob
    BY <1>4 DEF CompactionStep
  <2>1. CASE CompactionBegin
    <3>1. /\ compaction.stage = "launched" /\ compaction' = StartGroup(<<>>)
          /\ UNCHANGED <<indexQueue, compactionStartIndex>>
      BY <2>1 DEF CompactionBegin
    <3>2. /\ compaction'.stage = (IF compaction.next = compaction.last
                                  THEN "flushing" ELSE "merging")
          /\ compaction'.next = compaction.next + 1
          /\ compaction'.last = compaction.last
      BY <3>1 DEF StartGroup
    <3>3. /\ NumSSTableToCompact > 0
          /\ compaction.last = compactionStartIndex + 1 + NumSSTableToCompact
          /\ compaction.last <= Len(indexQueue)
          /\ compaction.next = compactionStartIndex + 1
      BY <3>1, <1>a DEF ProgressInv
    <3>4. /\ compaction'.next = compactionStartIndex + 2
          /\ compaction'.next \in compactionStartIndex + 2 .. compaction.last
      BY <3>2, <3>3, <1>b, CompactAssumption
    <3>5. compaction'.next \in compactionStartIndex + 2 .. compaction.last + 1
      BY <3>4, <1>b
    <3> QED
      BY <3>1, <3>2, <3>3, <3>4, <3>5 DEF ProgressInv
  <2>2. CASE CompactionMerge
    BY <2>2, <1>a, <1>b, CompactAssumption DEF CompactionMerge, ProgressInv
  <2>3. CASE CompactionFlushBegin
    BY <2>3, <1>a, <1>b, CompactAssumption DEF CompactionFlushBegin, IsCompaction, ProgressInv
  <2>4. CASE CompactionFlushFinish
    <3>1. compaction.next \in compactionStartIndex + 2 .. compaction.last + 1
      BY <2>4, <1>a DEF CompactionFlushFinish, ProgressInv
    <3> DEFINE result == Append(compaction.result, [id |-> compaction.currId,
                                                    table |-> compaction.currTable])
    <3>2. result # <<>>
      BY <1>b
    <3>3. CASE compaction.next > compaction.last
      <4>1. /\ compaction'.stage = "ready" /\ compaction'.next = compaction.next
            /\ compaction'.last = compaction.last /\ compaction'.result = result
            /\ compaction.stage = "writing"
            /\ UNCHANGED <<indexQueue, compactionStartIndex>>
        BY <2>4, <3>3 DEF CompactionFlushFinish
      <4> HIDE DEF result
      <4>2. compaction.next = compaction.last + 1
        BY <3>1, <3>3, <1>b
      <4> QED
        BY <4>1, <4>2, <3>2, <1>a DEF ProgressInv
    <3>4. CASE ~(compaction.next > compaction.last)
      <4>1. /\ compaction' = StartGroup(result)
            /\ UNCHANGED <<indexQueue, compactionStartIndex>>
        BY <2>4, <3>4 DEF CompactionFlushFinish
      <4> HIDE DEF result
      <4> QED
        BY <4>1, <3>1, <3>4, <2>4, <1>a, <1>b, CompactAssumption
           DEF CompactionFlushFinish, StartGroup, ProgressInv
    <3> QED
      BY <3>3, <3>4
  <2> QED
    BY <2>0, <2>1, <2>2, <2>3, <2>4 DEF CompactionJob
<1>5. CASE UNCHANGED indexVars
  BY <1>5, <1>a DEF indexVars, ProgressInv
<1> QED
  BY <1>1, <1>2, <1>3, <1>4, <1>5, IndexFrame

LEMMA ResultInvStep == IndInv /\ [Next]_vars => ResultInv'
<1> SUFFICES ASSUME IndInv, [Next]_vars PROVE ResultInv'
  OBVIOUS
<1>a. ResultInv /\ ProgressInv /\ IsCompaction(compaction)
  BY DEF IndInv, TypeOK, SSTableIndexQueueTypeOK
<1>b. /\ compaction.next \in Nat /\ compaction.last \in Nat /\ compaction.currId \in Nat
      /\ compaction.stage \in {"none", "launched", "merging", "flushing", "writing", "ready"}
      /\ compaction.result \in Seq(Indexes)
      /\ compactionStartIndex \in Nat /\ indexQueue \in Seq(Indexes)
  BY CompactionTypes
<1>c. \A i, j \in DOMAIN indexQueue : i < j => indexQueue[i].id < indexQueue[j].id
  BY DEF IndInv, IdInv
<1>1. CASE ActivateLast
  BY <1>1 DEF ActivateLast, ReplaceCompacted, NoCompaction, ResultInv
<1>2. CASE FlushReady
  <2>1. compaction.stage = "none" /\ UNCHANGED compaction
    BY <1>2 DEF FlushReady, IndInv, NoCompactionInFlushes, CallInv
  <2> QED
    BY <2>1, <1>a DEF ResultInv
<1>3. CASE FlushesChecked
  <2>1. CASE CanCompact
    BY <1>3, <2>1 DEF FlushesChecked, TryLaunchCompaction, ResultInv
  <2>2. CASE ~CanCompact
    BY <1>3, <2>2, <1>a DEF FlushesChecked, TryLaunchCompaction, ResultInv, ReadSoFar
  <2> QED
    BY <2>1, <2>2
<1>4. CASE CompactionStep
  <2>0. CompactionJob /\ UNCHANGED <<indexQueue, compactionStartIndex>>
    BY <1>4 DEF CompactionStep, CompactionJob, CompactionBegin, CompactionMerge,
                CompactionFlushBegin, CompactionFlushFinish
  <2>1. CASE CompactionBegin
    <3>1. compaction' = StartGroup(<<>>) /\ compaction.next = compactionStartIndex + 1
      BY <2>1, <1>a DEF CompactionBegin, ProgressInv
    <3>2. compaction.next \in ReadSoFar'
      BY <3>1, <2>0, <1>b DEF ReadSoFar, StartGroup
    <3> QED
      BY <3>1, <3>2, <2>0 DEF StartGroup, ResultInv
  <2>2. CASE CompactionMerge
    <3>1. /\ compaction.stage = "merging"
          /\ compaction'.next = compaction.next + 1
          /\ compaction'.result = compaction.result
          /\ compaction'.currId = compaction.currId
      BY <2>2 DEF CompactionMerge
    <3>2. ReadSoFar \subseteq ReadSoFar'
      BY <3>1, <2>0, <1>b DEF ReadSoFar
    <3> QED
      BY <3>1, <3>2, <2>0, <1>a DEF ResultInv
  <2>3. CASE CompactionFlushBegin
    <3>1. /\ compaction.stage = "flushing"
          /\ compaction'.next = compaction.next
          /\ compaction'.result = compaction.result
          /\ compaction'.currId = compaction.currId
      BY <2>3, <1>a DEF CompactionFlushBegin, IsCompaction
    <3>2. ReadSoFar' = ReadSoFar
      BY <3>1, <2>0 DEF ReadSoFar
    <3> QED
      BY <3>1, <3>2, <2>0, <1>a DEF ResultInv
  <2>4. CASE CompactionFlushFinish
    <3> DEFINE index == [id |-> compaction.currId, table |-> compaction.currTable]
               result == Append(compaction.result, index)
    <3>1. /\ compaction.stage = "writing"
          /\ \A i \in DOMAIN compaction.result :
                 \E p \in ReadSoFar : compaction.result[i].id = indexQueue[p].id
          /\ \A i, j \in DOMAIN compaction.result :
                 i < j => compaction.result[i].id < compaction.result[j].id
          /\ \E p \in ReadSoFar : compaction.currId = indexQueue[p].id
          /\ \A i \in DOMAIN compaction.result : compaction.result[i].id < compaction.currId
          /\ compaction.next \in compactionStartIndex + 2 .. compaction.last + 1
          /\ compaction.last <= Len(indexQueue)
      BY <2>4, <1>a DEF CompactionFlushFinish, ResultInv, ProgressInv
    <3>2. index.id = compaction.currId
      OBVIOUS
    <3> HIDE DEF index
    <3>3. /\ DOMAIN result = 1 .. Len(compaction.result) + 1
          /\ \A i \in 1 .. Len(compaction.result) : result[i] = compaction.result[i]
          /\ result[Len(compaction.result) + 1].id = compaction.currId
      BY <3>2, <1>b
    <3>4. compaction' = IF compaction.next > compaction.last
                         THEN [stage |-> "ready",
                               next |-> compaction.next, last |-> compaction.last,
                               currId |-> 0, currTable |-> EmptyTable, currTableSize |-> 0,
                               result |-> result]
                         ELSE StartGroup(result)
      BY <2>4 DEF CompactionFlushFinish, index
    <3> HIDE DEF result
    <3>5. ASSUME NEW i \in DOMAIN result
          PROVE  \E p \in ReadSoFar : result[i].id = indexQueue[p].id
      <4>1. CASE i = Len(compaction.result) + 1
        BY <4>1, <3>1, <3>3
      <4>2. CASE i \in 1 .. Len(compaction.result)
        <5>1. i \in DOMAIN compaction.result /\ result[i] = compaction.result[i]
          BY <4>2, <3>3, <1>b
        <5> QED
          BY <5>1, <3>1
      <4> QED
        BY <4>1, <4>2, <3>3, <1>b
    <3>6. ASSUME NEW i \in DOMAIN result, NEW j \in DOMAIN result, i < j
          PROVE  result[i].id < result[j].id
      <4>1. i \in 1 .. Len(compaction.result) /\ j \in 1 .. Len(compaction.result) + 1
        BY <3>3, <3>6, <1>b
      <4>2. CASE j = Len(compaction.result) + 1
        BY <4>1, <4>2, <3>1, <3>3, <1>b
      <4>3. CASE j \in 1 .. Len(compaction.result)
        <5>1. i \in DOMAIN compaction.result /\ j \in DOMAIN compaction.result
          BY <4>1, <4>3, <1>b
        <5>2. result[i] = compaction.result[i] /\ result[j] = compaction.result[j]
          BY <4>1, <4>3, <3>3
        <5> QED
          BY <5>1, <5>2, <3>1, <3>6
      <4> QED
        <5>1. Len(compaction.result) \in Nat
          BY <1>b
        <5> QED
          BY ONLY <5>1, <4>1, <4>2, <4>3
    <3>7. CASE compaction.next > compaction.last
      <4>1. compaction'.result = result /\ compaction'.next = compaction.next
        BY <3>4, <3>7
      <4>2. compaction'.stage = "ready"
        BY <3>4, <3>7
      <4>3. ReadSoFar' = ReadSoFar
        BY <4>1, <2>0 DEF ReadSoFar
      <4> QED
        BY <4>1, <4>2, <4>3, <3>5, <3>6, <2>0 DEF ResultInv
    <3>8. CASE ~(compaction.next > compaction.last)
      <4>1. /\ compaction'.result = result /\ compaction'.next = compaction.next + 1
            /\ compaction'.currId = indexQueue[compaction.next].id
        BY <3>4, <3>8 DEF StartGroup
      <4>2. /\ ReadSoFar \subseteq ReadSoFar' /\ compaction.next \in ReadSoFar'
            /\ compaction.next \in DOMAIN indexQueue
            /\ \A p \in ReadSoFar : p < compaction.next /\ p \in DOMAIN indexQueue
        <5>1. compaction.next \in compactionStartIndex + 2 .. Len(indexQueue)
          BY <3>1, <3>8, <1>b
        <5>2. ReadSoFar' = compactionStartIndex + 1 .. compaction.next
          BY <4>1, <2>0, <1>b DEF ReadSoFar
        <5>3. ReadSoFar = compactionStartIndex + 1 .. compaction.next - 1
          BY DEF ReadSoFar
        <5>4. DOMAIN indexQueue = 1 .. Len(indexQueue)
          BY <1>b
        <5> DEFINE n == compaction.next
        <5>5. n \in Nat /\ Len(indexQueue) \in Nat
          BY <1>b
        <5> HIDE DEF n
        <5> QED
          BY <5>1, <5>2, <5>3, <5>4, <5>5, <1>b DEF n
      <4>3. ASSUME NEW i \in DOMAIN result PROVE result[i].id < compaction'.currId
        <5>1. PICK p \in ReadSoFar : result[i].id = indexQueue[p].id
          BY <3>5
        <5> QED
          BY <5>1, <4>1, <4>2, <1>c
      <4> QED
        BY <4>1, <4>2, <4>3, <3>5, <3>6, <2>0 DEF ResultInv
    <3> QED
      BY <3>7, <3>8
  <2> QED
    BY <2>0, <2>1, <2>2, <2>3, <2>4 DEF CompactionJob
<1>5. CASE UNCHANGED indexVars
  BY <1>5, <1>a DEF indexVars, ResultInv, ReadSoFar
<1> QED
  BY <1>1, <1>2, <1>3, <1>4, <1>5, IndexFrame

LEMMA UpdateFrame ==
    [Next]_vars =>
        \/ CompactionStep \/ FlushesChecked
        \/ CompactionReady \/ DeprecateNext \/ ActivateNext \/ ActivateLast
        \/ UNCHANGED <<compaction, merged>> /\ ~InUpdate /\ ~InUpdate'
        \/ UNCHANGED <<compaction, merged, sst, pc, cursor>>
BY DEF Next, Client, CallStep, CheckFutures, Closed, vars, Enter, CallGet, CallSet, CallRemove,
       CallClose, NoCompactionToCheck, CompactionRunning, PopMemTable, Roll, Return, FlushReady,
       Get, FirstMemTable, Write, FlushJob, CloseFlush, CloseDone, indexVars, dirVars, callVars,
       InUpdate

LEMMA UpdateInvStep == IndInv /\ [Next]_vars => UpdateInv'
<1> SUFFICES ASSUME IndInv, [Next]_vars PROVE UpdateInv'
  OBVIOUS
<1>a. UpdateInv /\ ProgressInv
  BY DEF IndInv
<1>b. /\ compaction.result \in Seq(Indexes) /\ cursor \in Nat
      /\ IsCompaction(compaction) /\ compaction.currId \in Nat
      /\ \A i \in DOMAIN compaction.result : compaction.result[i].id \in Nat
  BY IdTypes, CompactionTypes DEF IndInv, TypeOK, SSTableIndexQueueTypeOK
\* Outside update all the tables of the result are in .merged files.
<1>c. ASSUME ~InUpdate, NEW i \in DOMAIN compaction.result
      PROVE  /\ compaction.result[i].id \in DOMAIN merged
             /\ merged[compaction.result[i].id] = compaction.result[i].table
  BY <1>a, <1>c DEF UpdateInv, Activated, InUpdate
<1>1. CASE CompactionStep
  <2>0. CompactionJob /\ UNCHANGED pc
    BY <1>1 DEF CompactionStep, callVars
  <2>1. compaction.stage # "ready" /\ ~InUpdate
    BY <2>0, <1>a DEF UpdateInv, CompactionJob, CompactionBegin, CompactionMerge,
                      CompactionFlushBegin, CompactionFlushFinish
  <2>2. ASSUME \A i \in DOMAIN compaction'.result :
                   /\ compaction'.result[i].id \in DOMAIN merged'
                   /\ merged'[compaction'.result[i].id] = compaction'.result[i].table
        PROVE  UpdateInv'
    BY <2>0, <2>1, <2>2 DEF UpdateInv, Activated, InUpdate
  <2>3. CASE CompactionBegin
    BY <2>2, <2>3 DEF CompactionBegin, StartGroup
  <2>4. CASE CompactionMerge
    BY <2>1, <2>2, <2>4, <1>c DEF CompactionMerge
  <2>5. ASSUME compaction.stage \in {"flushing", "writing"}, NEW table,
               merged' = Put(merged, compaction.currId, table),
               NEW i \in DOMAIN compaction.result
        PROVE  /\ compaction.result[i].id \in DOMAIN merged'
               /\ merged'[compaction.result[i].id] = compaction.result[i].table
    <3>1. compaction.result[i].id < compaction.currId
      BY <2>5 DEF IndInv, ResultInv
    <3>2. compaction.result[i].id # compaction.currId
      BY <3>1, <1>b
    <3> QED
      BY <3>2, <2>1, <2>5, <1>c DEF Put
  <2>6. CASE CompactionFlushBegin
    <3>1. compaction'.result = compaction.result
      BY <2>6, <1>b DEF CompactionFlushBegin, IsCompaction
    <3> QED
      BY <3>1, <2>2, <2>5, <2>6 DEF CompactionFlushBegin
  <2>7. CASE CompactionFlushFinish
    <3> DEFINE index == [id |-> compaction.currId, table |-> compaction.currTable]
    <3>1. /\ compaction'.result = Append(compaction.result, index)
          /\ merged' = Put(merged, compaction.currId, compaction.currTable)
          /\ compaction.stage = "writing"
      BY <2>7 DEF CompactionFlushFinish, StartGroup
    <3>2. index.id = compaction.currId /\ index.table = compaction.currTable
      OBVIOUS
    <3> HIDE DEF index
    <3>3. /\ DOMAIN compaction'.result = 1 .. Len(compaction.result) + 1
          /\ \A i \in 1 .. Len(compaction.result) : compaction'.result[i] = compaction.result[i]
          /\ compaction'.result[Len(compaction.result) + 1] = index
      BY <3>1, <1>b
    <3>4. ASSUME NEW i \in DOMAIN compaction'.result
          PROVE  /\ compaction'.result[i].id \in DOMAIN merged'
                 /\ merged'[compaction'.result[i].id] = compaction'.result[i].table
      <4>1. CASE i = Len(compaction.result) + 1
        BY <4>1, <3>1, <3>2, <3>3 DEF Put
      <4>2. CASE i \in 1 .. Len(compaction.result)
        <5>1. i \in DOMAIN compaction.result
          BY <4>2, <1>b
        <5> QED
          BY <5>1, <4>2, <3>1, <3>3, <2>5
      <4> QED
        BY <4>1, <4>2, <3>3, <1>b
    <3> QED
      BY <3>4, <2>2
  <2> QED
    BY <2>0, <2>3, <2>4, <2>6, <2>7 DEF CompactionJob
<1>2. CASE FlushesChecked
  <2>1. ~InUpdate /\ ~InUpdate' /\ UNCHANGED merged
    BY <1>2 DEF FlushesChecked, InUpdate, dirVars
  <2>2. compaction' = compaction \/ compaction'.result = <<>>
    BY <1>2 DEF FlushesChecked, TryLaunchCompaction
  <2> QED
    BY <2>1, <2>2, <1>c DEF UpdateInv, Activated, InUpdate
<1>3. CASE CompactionReady
  <2>1. /\ ~InUpdate /\ UNCHANGED <<compaction, merged>>
        /\ pc' = "deprecate" /\ cursor' = 1 /\ compaction.stage = "ready"
    BY <1>3 DEF CompactionReady, InUpdate, indexVars, dirVars
  <2> QED
    BY <2>1, <1>c, CompactAssumption DEF UpdateInv, Activated, InUpdate
<1>4. CASE DeprecateNext
  <2>1. /\ pc = "deprecate" /\ UNCHANGED <<compaction, merged>>
        /\ IF cursor = NumSSTableToCompact + 1
           THEN pc' = "activate" /\ cursor' = 1
           ELSE pc' = pc /\ cursor' = cursor + 1
    BY <1>4 DEF DeprecateNext, indexVars
  <2>2. /\ compaction.stage = "ready" /\ cursor \in 1 .. NumSSTableToCompact + 1
        /\ Activated = {} /\ Activated' = {}
    BY <2>1, <1>a DEF UpdateInv, InUpdate, Activated
  <2>3. 1 \in 1 .. Len(compaction.result)
    BY <2>2, <1>a, <1>b DEF ProgressInv
  <2>4. pc' = "deprecate" => cursor' \in 1 .. NumSSTableToCompact + 1
    BY <2>1, <2>2, CompactAssumption
  <2> QED
    BY <2>1, <2>2, <2>3, <2>4, <1>a DEF UpdateInv, InUpdate
<1>5. CASE ActivateNext
  <2>1. /\ pc = "activate" /\ pc' = "activate" /\ InUpdate
        /\ UNCHANGED compaction /\ cursor' = cursor + 1
        /\ cursor < Len(compaction.result) /\ ActivateCompacted(cursor)
    BY <1>5 DEF ActivateNext, indexVars, InUpdate
  <2> DEFINE id == compaction.result[cursor].id
  <2>2. /\ sst' = Put(sst, id, merged[id]) /\ merged' = Without(merged, id)
    BY <2>1 DEF ActivateCompacted, ActivateMerged
  <2>3. /\ compaction.stage = "ready" /\ cursor \in DOMAIN compaction.result
        /\ Activated = 1 .. cursor - 1 /\ Activated' = 1 .. cursor
        /\ cursor' \in 1 .. Len(compaction.result)
    BY <2>1, <1>a, <1>b DEF UpdateInv, InUpdate, Activated
  <2>4. merged[id] = compaction.result[cursor].table
    BY <2>3, <1>a, <1>b DEF UpdateInv
  <2> HIDE DEF id
  <2>5. ASSUME NEW i \in DOMAIN compaction.result
        PROVE  IF i \in Activated'
               THEN /\ compaction.result[i].id \in DOMAIN sst'
                    /\ sst'[compaction.result[i].id] = compaction.result[i].table
               ELSE /\ compaction.result[i].id \in DOMAIN merged'
                    /\ merged'[compaction.result[i].id] = compaction.result[i].table
    <3>1. CASE i = cursor
      BY <3>1, <2>2, <2>3, <2>4 DEF Put, id
    <3>2. CASE i # cursor
      <4>1. compaction.result[i].id # id
        BY <3>2, <2>1, <2>3, UpdateIds DEF id
      <4>2. i \in Activated' <=> i \in Activated
        BY <3>2, <2>3, <1>b
      <4> QED
        BY <4>1, <4>2, <2>2, <1>a DEF UpdateInv, Put, Without
    <3> QED
      BY <3>1, <3>2
  <2> QED
    BY <2>1, <2>3, <2>5 DEF UpdateInv, InUpdate
<1>6. CASE ActivateLast
  <2>1. compaction'.result = <<>> /\ pc' \in {"close", "flushes"}
    BY <1>6 DEF ActivateLast, ReplaceCompacted, NoCompaction
  <2> QED
    BY <2>1 DEF UpdateInv, InUpdate
<1>7. CASE UNCHANGED <<compaction, merged>> /\ ~InUpdate /\ ~InUpdate'
  BY <1>7, <1>c DEF UpdateInv, Activated, InUpdate
<1>8. CASE UNCHANGED <<compaction, merged, sst, pc, cursor>>
  BY <1>8, <1>a DEF UpdateInv, Activated, InUpdate
<1> QED
  BY <1>1, <1>2, <1>3, <1>4, <1>5, <1>6, <1>7, <1>8, UpdateFrame

\* The concatenation of increasing sequences.
LEMMA IncreasingConcatenation ==
    ASSUME NEW a \in Seq(Nat), NEW b \in Seq(Nat), Increasing(a), Increasing(b),
           \A i \in DOMAIN a, j \in DOMAIN b : a[i] < b[j]
    PROVE  /\ a \o b \in Seq(Nat) /\ Increasing(a \o b)
           /\ \A i \in DOMAIN (a \o b) :
                  \/ \E j \in DOMAIN a : (a \o b)[i] = a[j]
                  \/ \E j \in DOMAIN b : (a \o b)[i] = b[j]
<1> DEFINE c == a \o b
<1>1. /\ c \in Seq(Nat) /\ DOMAIN c = 1 .. Len(a) + Len(b)
      /\ \A i \in 1 .. Len(a) + Len(b) : c[i] = IF i <= Len(a) THEN a[i] ELSE b[i - Len(a)]
  BY Concatenation
<1> HIDE DEF c
<1>2. ASSUME NEW i \in DOMAIN c
      PROVE  \/ i \in DOMAIN a /\ c[i] = a[i]
             \/ i - Len(a) \in DOMAIN b /\ c[i] = b[i - Len(a)] /\ i > Len(a)
  <2>1. CASE i <= Len(a)
    BY <1>1, <2>1
  <2>2. CASE i > Len(a)
    <3>1. i - Len(a) \in 1 .. Len(b)
      BY <1>1, <2>2
    <3> QED
      BY <1>1, <2>2, <3>1
  <2> QED
    BY <1>1, <2>1, <2>2
<1>3. ASSUME NEW i \in DOMAIN c, NEW j \in DOMAIN c, i < j PROVE c[i] < c[j]
  <2>1. i \in Nat /\ j \in Nat /\ Len(a) \in Nat
    BY <1>1
  <2>2. CASE i \in DOMAIN a /\ c[i] = a[i] /\ j \in DOMAIN a /\ c[j] = a[j]
    BY <2>2, <1>3 DEF Increasing
  <2>3. CASE i \in DOMAIN a /\ c[i] = a[i] /\ j - Len(a) \in DOMAIN b /\ c[j] = b[j - Len(a)]
    BY <2>3
  <2>4. CASE /\ i - Len(a) \in DOMAIN b /\ c[i] = b[i - Len(a)]
             /\ j - Len(a) \in DOMAIN b /\ c[j] = b[j - Len(a)]
    <3>1. i - Len(a) < j - Len(a)
      BY <2>1, <1>3
    <3> QED
      BY <3>1, <2>4 DEF Increasing
  <2>5. ~(i > Len(a) /\ j \in DOMAIN a)
    BY <2>1, <1>3
  <2> QED
    BY <2>2, <2>3, <2>4, <2>5, <1>2
<1>4. Increasing(c)
  BY <1>3 DEF Increasing
<1> QED
  BY <1>1, <1>2, <1>4 DEF c

-----------------------------------------------------------------------------
(***************************************************************************)
(* The theorems.                                                           *)
(***************************************************************************)

LEMMA IndInvInit == Init => IndInv
<1> SUFFICES ASSUME Init PROVE IndInv
  OBVIOUS
<1>1. /\ sst = [n \in {} |-> EmptyTable] /\ inProgress = [n \in {} |-> EmptyTable]
      /\ merged = [n \in {} |-> EmptyTable] /\ txl = [n \in {} |-> <<>>] /\ deprecated = {}
      /\ memTableQueue = <<>> /\ flushFutures = <<>> /\ sstCounter = 0 /\ txlCounter = 0
      /\ indexQueue = <<>> /\ compactionStartIndex = 0 /\ compaction = NoCompaction
      /\ pc = "idle" /\ call = NoCall /\ cursor = 1 /\ reply = Absent /\ writes = 0
      /\ unindexed = <<>>
  BY DEF Init, EmptyDirectory, MemTableQueueInit, SSTableIndexQueueInit
<1>2. TypeOK
  <2>1. DirectoryTypeOK
    BY <1>1 DEF DirectoryTypeOK, IsFiles
  <2>2. MemTableQueueTypeOK
    BY <1>1 DEF MemTableQueueTypeOK
  <2>3. SSTableIndexQueueTypeOK
    BY <1>1, EmptyTableType DEF SSTableIndexQueueTypeOK, IsCompaction, NoCompaction
  <2>4. call \in Calls
    BY <1>1 DEF NoCall, Calls
  <2> QED
    BY <1>1, <2>1, <2>2, <2>3, <2>4 DEF TypeOK
<1>3. CallInv /\ FuturesMatchQueue /\ FlushedTableIsFrozen /\ LogInv /\ IdInv /\ InProgressInv
  BY <1>1 DEF CallInv, NoCall, FuturesMatchQueue, FlushedTableIsFrozen, LogInv, IdInv,
              InProgressInv
<1>4. IndexMatchesFile /\ NoCompactionInFlushes /\ ProgressInv /\ ResultInv /\ UpdateInv
  BY <1>1 DEF IndexMatchesFile, NoCompactionInFlushes, ProgressInv, ResultInv, UpdateInv,
              InUpdate, NoCompaction
<1> QED
  BY <1>2, <1>3, <1>4 DEF IndInv

LEMMA IndInvStep == IndInv /\ [Next]_vars => IndInv'
BY TypeStep, CallInvStep, MemTableStep, LogInvStep, IdInvStep, InProgressInvStep,
   IndexMatchesFileStep, NoCompactionInFlushesStep, ProgressInvStep, ResultInvStep, UpdateInvStep
   DEF IndInv

\* The invariant of ProjectDbInvariant is an invariant, whatever the keys, the
\* sizes and NUM_SSTABLE_TO_COMPACT are and however often the store is written.
THEOREM Invariance == Spec => []IndInv
BY IndInvInit, IndInvStep, PTL DEF Spec

\* Every variable keeps its type: no step takes from an empty queue, reads a
\* file that is not there or writes to a MemTable that is not there.
THEOREM TypeCorrect == Spec => []TypeOK
<1>1. IndInv => TypeOK
  BY DEF IndInv
<1> QED
  BY <1>1, Invariance, PTL

\* pop removes the MemTable of the future that is ready: the futures and the
\* MemTables are in the same order.
THEOREM FuturesAreInOrder == Spec => []FuturesMatchQueue
<1>1. IndInv => FuturesMatchQueue
  BY DEF IndInv
<1> QED
  BY <1>1, Invariance, PTL

\* Nobody writes to the Table that a flush job shares with its MemTable.
THEOREM SharedTableIsNotWritten == Spec => []FlushedTableIsFrozen
<1>1. IndInv => FlushedTableIsFrozen
  BY DEF IndInv
<1> QED
  BY <1>1, Invariance, PTL

\* Every index of the queue describes the .sst file it names, outside the range
\* that update is about to replace.
THEOREM IndexesMatchFiles == Spec => []IndexMatchesFile
<1>1. IndInv => IndexMatchesFile
  BY DEF IndInv
<1> QED
  BY <1>1, Invariance, PTL

LEMMA CompactionRangeFromInvariant == IndInv => CompactionRangeValid
<1> SUFFICES ASSUME IndInv PROVE CompactionRangeValid
  OBVIOUS
<1>1. indexQueue \in Seq(Indexes) /\ compactionStartIndex \in Nat
  BY CompactionTypes
<1>2. ProgressInv
  BY DEF IndInv
<1> QED
  BY <1>1, <1>2, CompactAssumption DEF ProgressInv, CompactionRangeValid, UpdateAllowed

\* The checks at the start of update never fail, and the job has used the
\* range that update computes.
THEOREM CompactionRangeStaysValid == Spec => []CompactionRangeValid
BY CompactionRangeFromInvariant, Invariance, PTL

\* The vector under the iterators of the compaction job does not change while
\* the job runs.
THEOREM QueueIsFrozen == Spec => QueueFrozenDuringCompaction
<1> DEFINE Frozen == compaction.stage \notin {"none", "ready"} =>
                         UNCHANGED <<indexQueue, compactionStartIndex>>
<1>1. ASSUME IndInv, [Next]_vars PROVE Frozen
  <2>1. CASE ActivateLast
    BY <2>1, <1>1 DEF ActivateLast, IndInv, UpdateInv, InUpdate
  <2>2. CASE FlushReady
    BY <2>2, <1>1 DEF FlushReady, IndInv, NoCompactionInFlushes, CallInv
  <2>3. CASE FlushesChecked
    BY <2>3 DEF FlushesChecked, TryLaunchCompaction
  <2>4. CASE CompactionStep
    BY <2>4 DEF CompactionStep, CompactionJob, CompactionBegin, CompactionMerge,
                CompactionFlushBegin, CompactionFlushFinish
  <2>5. CASE UNCHANGED indexVars
    BY <2>5 DEF indexVars
  <2> QED
    BY <2>1, <2>2, <2>3, <2>4, <2>5, <1>1, IndexFrame
<1>2. IndInv /\ [Next]_vars => [Frozen]_vars
  BY <1>1
<1> QED
  BY <1>2, Invariance, PTL DEF Spec, QueueFrozenDuringCompaction

LEMMA FileOrderFromInvariant == IndInv => FileOrderIsQueueOrder
<1> SUFFICES ASSUME IndInv PROVE FileOrderIsQueueOrder
  OBVIOUS
<1>1. IdInv /\ CallInv /\ LogInv
  BY DEF IndInv
<1>2. /\ sstCounter \in Nat /\ indexQueue \in Seq(Indexes) /\ unindexed \in Seq(Indexes)
      /\ flushFutures \in Seq(FlushJobs)
      /\ \A i \in DOMAIN indexQueue : indexQueue[i].id \in Nat
      /\ \A i \in DOMAIN unindexed : unindexed[i].id \in Nat
      /\ \A i \in DOMAIN flushFutures : flushFutures[i].id \in Nat
  BY IdTypes
<1> DEFINE a == [i \in DOMAIN indexQueue |-> indexQueue[i].id]
           b == [i \in DOMAIN unindexed |-> unindexed[i].id]
           c == [i \in DOMAIN PendingFlushes |-> PendingFlushes[i].id]
           logs == [i \in DOMAIN memTableQueue |-> memTableQueue[i].log]
<1>3. ASSUME NEW S, NEW q \in Seq(S), \A i \in DOMAIN q : q[i].id \in Nat
      PROVE  [i \in DOMAIN q |-> q[i].id] \in Seq(Nat)
  BY <1>3
<1>4. /\ PendingFlushes \in Seq(FlushJobs)
      /\ \A i \in DOMAIN PendingFlushes :
             /\ i + FirstPending - 1 \in DOMAIN flushFutures
             /\ i + FirstPending - 1 >= FirstPending
             /\ PendingFlushes[i] = flushFutures[i + FirstPending - 1]
  <2>1. CASE pc = "pop"
    <3>1. flushFutures # <<>> /\ PendingFlushes = Tail(flushFutures) /\ FirstPending = 2
      BY <2>1, <1>1 DEF CallInv, PendingFlushes, FirstPending
    <3>2. /\ Tail(flushFutures) \in Seq(FlushJobs)
          /\ \A i \in DOMAIN Tail(flushFutures) :
                 /\ i + 1 \in DOMAIN flushFutures /\ i + 1 >= 2
                 /\ Tail(flushFutures)[i] = flushFutures[i + 1]
      BY <3>1, <1>2
    <3>3. \A i \in DOMAIN Tail(flushFutures) : i + 2 - 1 = i + 1
      BY <3>2
    <3> QED
      BY <3>1, <3>2, <3>3
  <2>2. CASE pc # "pop"
    <3>1. PendingFlushes = flushFutures /\ FirstPending = 1
      BY <2>2 DEF PendingFlushes, FirstPending
    <3>2. \A i \in DOMAIN flushFutures : i + 1 - 1 = i /\ i >= 1
      BY <1>2
    <3> QED
      BY <3>1, <3>2, <1>2
  <2> QED
    BY <2>1, <2>2
<1>5. \A i \in DOMAIN PendingFlushes : PendingFlushes[i].id \in Nat
  BY <1>2, <1>4
<1>6. a \in Seq(Nat) /\ b \in Seq(Nat) /\ c \in Seq(Nat)
  <2>1. a \in Seq(Nat)
    BY <1>2, <1>3
  <2>2. b \in Seq(Nat)
    BY <1>2, <1>3
  <2>3. c \in Seq(Nat)
    BY <1>4, <1>5, <1>3
  <2> QED
    BY <2>1, <2>2, <2>3
<1>7. Increasing(a) /\ Increasing(b)
  BY <1>1 DEF IdInv, Increasing
<1>8. Increasing(c)
  <2>1. ASSUME NEW i \in DOMAIN c, NEW j \in DOMAIN c, i < j PROVE c[i] < c[j]
    <3>1. i + FirstPending - 1 < j + FirstPending - 1
      BY <2>1, <1>4 DEF FirstPending
    <3> QED
      BY <3>1, <1>1, <1>4 DEF IdInv
  <2> QED
    BY <2>1 DEF Increasing
<1>9. /\ \A i \in DOMAIN a, j \in DOMAIN b : a[i] < b[j]
      /\ \A i \in DOMAIN a, j \in DOMAIN c : a[i] < c[j]
      /\ \A i \in DOMAIN b, j \in DOMAIN c : b[i] < c[j]
  BY <1>1, <1>4 DEF IdInv
<1>10. /\ \A i \in DOMAIN a : a[i] <= sstCounter
       /\ \A i \in DOMAIN b : b[i] <= sstCounter
       /\ \A i \in DOMAIN c : c[i] <= sstCounter
  BY <1>1, <1>4 DEF IdInv
<1>11. Increasing(logs) /\ \A i \in DOMAIN logs : logs[i] < txlCounter
  BY <1>1 DEF LogInv, Increasing
<1> DEFINE d == a \o b
           ids == d \o c
<1>12. FileOrderIsQueueOrder <=>
           /\ Increasing(ids) /\ \A i \in DOMAIN ids : ids[i] <= sstCounter
           /\ Increasing(logs) /\ \A i \in DOMAIN logs : logs[i] < txlCounter
  BY DEF FileOrderIsQueueOrder
<1> HIDE DEF a, b, c, logs
<1>13. /\ d \in Seq(Nat) /\ Increasing(d)
       /\ \A i \in DOMAIN d : \/ \E j \in DOMAIN a : d[i] = a[j]
                              \/ \E j \in DOMAIN b : d[i] = b[j]
  BY <1>6, <1>7, <1>9, IncreasingConcatenation
<1> HIDE DEF d
<1>14. \A i \in DOMAIN d, j \in DOMAIN c : d[i] < c[j]
  BY <1>9, <1>13
<1>15. /\ Increasing(ids)
       /\ \A i \in DOMAIN ids : \/ \E j \in DOMAIN d : ids[i] = d[j]
                                \/ \E j \in DOMAIN c : ids[i] = c[j]
  BY <1>6, <1>8, <1>13, <1>14, IncreasingConcatenation
<1> HIDE DEF ids
<1>16. \A i \in DOMAIN ids : ids[i] <= sstCounter
  BY <1>10, <1>13, <1>15
<1> QED
  BY <1>11, <1>12, <1>15, <1>16

\* The counters in the file names are in the order of the tables, and none is
\* used twice, so that init can sort the files into the queue again.
THEOREM FileOrder == Spec => []FileOrderIsQueueOrder
BY FileOrderFromInvariant, Invariance, PTL
=============================================================================

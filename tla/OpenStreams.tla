----------------------------- MODULE OpenStreams ----------------------------
(***************************************************************************)
(* The database with KEEP_SSTABLE_FILE_OPEN: the first seek in an          *)
(* SSTableIndex opens the file the index names, and every later one reads  *)
(* from the same stream, whatever has happened to the name since.  A       *)
(* stream goes on reading the file it has opened when that is renamed or   *)
(* removed.                                                                *)
(***************************************************************************)
EXTENDS ProjectDb

VARIABLE streams  \* m_ifs of each SSTableIndex in the queue

openVars == <<vars, streams>>

\* unique_ptr<fstream>: none, or one that reads a table.
NotOpen == <<>>
Streams == {NotOpen} \cup {<<t>> : t \in TableSet}

OpenInit == Init /\ streams = <<>>

-----------------------------------------------------------------------------

\* What seek reads of the i-th SSTable.
SeekTable(i) == IF streams[i] = NotOpen THEN sst[indexQueue[i].id] ELSE streams[i][1]

\* get of the SSTableIndexQueue looks into the tables from the newest one
\* until it finds the key.
Searched(k) ==
    {i \in DOMAIN indexQueue :
        \A j \in DOMAIN indexQueue : j > i => k \notin DOMAIN SeekTable(j)}

\* get: a key that is in no MemTable is sought, each table it is sought in is
\* open from then on, also when the index shows that the key is not there.
OpenGet ==
    LET k == call.key
        inMemory == Newest(TablesOf(memTableQueue), k)
        onDisk == Newest([i \in DOMAIN indexQueue |-> SeekTable(i)], k)
    IN  /\ pc = "apply"
        /\ call.op = "get"
        /\ IF inMemory # Absent
           THEN reply' = UnderlyingValue(inMemory) /\ UNCHANGED streams
           ELSE /\ reply' = UnderlyingValue(onDisk)
                /\ streams' = [i \in DOMAIN indexQueue |->
                                  IF i \in Searched(k) THEN <<SeekTable(i)>> ELSE streams[i]]
        /\ Return
        /\ UNCHANGED <<memVars, indexVars, dirVars, cursor, writes, unindexed>>

\* insert moves an index that has not been sought in.
OpenFlushReady ==
    /\ FlushReady
    /\ streams' = Append(streams, NotOpen)

\* Mutant: an index whose file keeps its name keeps its stream.
MutantOpenActivateLast ==
    /\ ActivateLast
    /\ streams' = SubSeq(streams, 1, compactionStartIndex)
                      \o [i \in DOMAIN compaction.result |->
                             LET same == {p \in CompactionRange :
                                             indexQueue[p].id = compaction.result[i].id}
                             IN  streams[Max(same)]]
                      \o SubSeq(streams, compactionStartIndex + NumSSTableToCompact + 2,
                                Len(streams))

\* update erases indexes, and their streams with them; the new ones have not
\* been sought in.
OpenActivateLast ==
    /\ ActivateLast
    /\ streams' = SubSeq(streams, 1, compactionStartIndex)
                      \o [i \in DOMAIN compaction.result |-> NotOpen]
                      \o SubSeq(streams, compactionStartIndex + NumSSTableToCompact + 2,
                                Len(streams))

\* The steps that leave the queue as it is and do not seek.
OtherStep ==
    \/ Client \/ Closed
    \/ NoCompactionToCheck \/ CompactionRunning \/ CompactionReady
    \/ DeprecateNext \/ ActivateNext
    \/ PopMemTable \/ FlushesChecked
    \/ FirstMemTable \/ Write \/ Roll
    \/ CloseFlush \/ CloseDone
    \/ \E i \in DOMAIN flushFutures : FlushJob(i)
    \/ CompactionStep

OpenNext ==
    \/ OpenGet
    \/ OpenFlushReady
    \/ OpenActivateLast
    \/ OtherStep /\ UNCHANGED streams

OpenSpec == OpenInit /\ [][OpenNext]_openVars

-----------------------------------------------------------------------------
\* A stream reads the table its index was built from, although the file it
\* has opened has long been removed and its name may be that of another table:
\* the positions of an index are never used on the bytes of another file.
StreamsMatchIndexes ==
    /\ streams \in Seq(Streams)
    /\ Len(streams) = Len(indexQueue)
    /\ \A i \in DOMAIN streams : streams[i] # NotOpen => streams[i] = <<indexQueue[i].table>>

\* Open files are not noticed: every call does, and every get returns, what it
\* does and returns when each seek opens the file anew.
RefinesProjectDb == Spec
=============================================================================

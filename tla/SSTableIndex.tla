---------------------------- MODULE SSTableIndex ----------------------------
(***************************************************************************)
(* The sparse index of one SSTable.  It is built entry by entry, by        *)
(* flushSSTable while it writes the file, or by loadSSTable while it reads *)
(* the file again, and seek uses it to read one block of the file instead  *)
(* of the whole.  Keys are numbers here: what matters is their order.      *)
(***************************************************************************)
EXTENDS Tables

CONSTANT BlockSizes  \* the values of SSTABLE_INDEX_BLOCK_SIZE_IN_BYTES explored

ASSUME IndexAssumption == Keys \subseteq Int /\ BlockSizes \subseteq Nat

VARIABLES
    phase,          \* "flushing", "flushed", "loading" or "loaded"
    table,          \* the table that is flushed
    file,           \* the entries in the file, each with its position
    done,           \* how many entries have been written, or read
    currPos,        \* tellp() or tellg()
    currBlockSize,  \* the bytes since the last entry in the index
    blockSize,      \* SSTABLE_INDEX_BLOCK_SIZE_IN_BYTES of this process
    index,          \* m_index
    eofPos          \* m_eofPos

indexVars ==
    <<phase, table, file, done, currPos, currBlockSize, blockSize, index, eofPos>>

FileEntries == [key : Keys, value : Entries, pos : Nat]

IndexTypeOK ==
    /\ phase \in {"flushing", "flushed", "loading", "loaded"}
    /\ table \in TableSet
    /\ file \in Seq(FileEntries)
    /\ done \in 0 .. Len(file)
    /\ currPos \in Nat /\ currBlockSize \in Nat /\ eofPos \in Nat
    /\ blockSize \in BlockSizes
    /\ DOMAIN index \subseteq Keys /\ index \in [DOMAIN index -> Nat]

\* The entries come after the timestamp and the number of entries.
FirstPos == 16

\* The key with its length, the type of the value, the value with its length.
EntryBytes(k, v) == 8 + KeyBytes[k] + 12 + Length(v)

EmptyIndex == [k \in {} |-> 0]

\* addIndex, if the function given to the serializer returns true.
AddIndex(indexAdded, k, pos) == index' = IF indexAdded THEN Put(index, k, pos) ELSE index

IndexInit ==
    /\ table \in TableSet
    /\ blockSize \in BlockSizes
    /\ phase = "flushing"
    /\ file = <<>>
    /\ done = 0
    /\ currPos = FirstPos
    /\ currBlockSize = 0
    /\ index = EmptyIndex
    /\ eofPos = 0

-----------------------------------------------------------------------------
\* flushSSTable: an entry is offered to the index before it is written, with
\* the size of the entries before it.

KeysToWrite == DOMAIN table \ {file[i].key : i \in DOMAIN file}

\* Mutants: the last entry is in the index only if its turn has come; an entry
\* in the index is not counted for the block it begins.
MutantFlushLastUnindexed ==
    \E k \in KeysToWrite :
        LET indexAdded == file = <<>> \/ currBlockSize >= blockSize
        IN  /\ phase = "flushing"
            /\ \A other \in KeysToWrite : k <= other
            /\ AddIndex(indexAdded, k, currPos)
            /\ currBlockSize' = (IF indexAdded THEN 0 ELSE currBlockSize) + EntryBytes(k, table[k])
            /\ file' = Append(file, [key |-> k, value |-> table[k], pos |-> currPos])
            /\ done' = done + 1
            /\ currPos' = currPos + EntryBytes(k, table[k])
            /\ UNCHANGED <<phase, table, blockSize, eofPos>>

MutantFlushUncounted ==
    \E k \in KeysToWrite :
        LET isFirstOrLastEntry == file = <<>> \/ KeysToWrite = {k}
            indexAdded == isFirstOrLastEntry \/ currBlockSize >= blockSize
        IN  /\ phase = "flushing"
            /\ \A other \in KeysToWrite : k <= other
            /\ AddIndex(indexAdded, k, currPos)
            /\ currBlockSize' = IF indexAdded THEN 0 ELSE currBlockSize + EntryBytes(k, table[k])
            /\ file' = Append(file, [key |-> k, value |-> table[k], pos |-> currPos])
            /\ done' = done + 1
            /\ currPos' = currPos + EntryBytes(k, table[k])
            /\ UNCHANGED <<phase, table, blockSize, eofPos>>

FlushEntry ==
    \E k \in KeysToWrite :
        LET isFirstOrLastEntry == file = <<>> \/ KeysToWrite = {k}
            indexAdded == isFirstOrLastEntry \/ currBlockSize >= blockSize
        IN  /\ phase = "flushing"
            /\ \A other \in KeysToWrite : k <= other
            /\ AddIndex(indexAdded, k, currPos)
            /\ currBlockSize' = (IF indexAdded THEN 0 ELSE currBlockSize) + EntryBytes(k, table[k])
            /\ file' = Append(file, [key |-> k, value |-> table[k], pos |-> currPos])
            /\ done' = done + 1
            /\ currPos' = currPos + EntryBytes(k, table[k])
            /\ UNCHANGED <<phase, table, blockSize, eofPos>>

FlushDone ==
    /\ phase = "flushing"
    /\ KeysToWrite = {}
    /\ phase' = "flushed"
    /\ eofPos' = currPos
    /\ UNCHANGED <<table, file, done, currPos, currBlockSize, blockSize, index>>

-----------------------------------------------------------------------------
\* loadSSTable in a later process, which may have another block size: an
\* entry is offered to the index after it is read, its own size included.

LoadBegin ==
    /\ phase \in {"flushed", "loaded"}
    /\ phase' = "loading"
    /\ done' = 0
    /\ currPos' = FirstPos
    /\ currBlockSize' = 0
    /\ blockSize' \in BlockSizes
    /\ index' = EmptyIndex
    /\ eofPos' = 0
    /\ UNCHANGED <<table, file>>

LoadEntry ==
    LET entry == file[done + 1]
        size == EntryBytes(entry.key, entry.value)
        isFirstOrLastEntry == done + 1 \in {1, Len(file)}
        indexAdded == isFirstOrLastEntry \/ currBlockSize + size >= blockSize
    IN  /\ phase = "loading"
        /\ done < Len(file)
        /\ AddIndex(indexAdded, entry.key, currPos)
        /\ currBlockSize' = IF indexAdded THEN 0 ELSE currBlockSize + size
        /\ done' = done + 1
        /\ currPos' = currPos + size
        /\ UNCHANGED <<phase, table, file, blockSize, eofPos>>

LoadDone ==
    /\ phase = "loading"
    /\ done = Len(file)
    /\ phase' = "loaded"
    /\ eofPos' = currPos
    /\ UNCHANGED <<table, file, done, currPos, currBlockSize, blockSize, index>>

IndexNext == FlushEntry \/ FlushDone \/ LoadBegin \/ LoadEntry \/ LoadDone

IndexSpec == IndexInit /\ [][IndexNext]_indexVars

-----------------------------------------------------------------------------
\* seek.

\* The keys of the index are run through in their order until one is equal
\* to the key, or greater: the block begins with the last one that is not
\* greater and ends where the next one begins.
NotGreater(k) == {x \in DOMAIN index : x <= k}

Greater(k) == {x \in DOMAIN index : x > k}

\* getPotentialBlockPos has an answer.
HasBlock(k) == NotGreater(k) # {} /\ (k \in DOMAIN index \/ Greater(k) # {})

BlockBegin(k) == index[Max(NotGreater(k))]

\* Mutant: the block of an indexed key ends with its own entry's position.
MutantBlockEnd(k) ==
    IF k \in DOMAIN index THEN index[k]
    ELSE IF Greater(k) = {} THEN eofPos ELSE index[Min(Greater(k))]

BlockEnd(k) == IF Greater(k) = {} THEN eofPos ELSE index[Min(Greater(k))]

\* The entries read from the block: from its first position on as long as
\* the position is before its end.
Block(k) == {i \in DOMAIN file : BlockBegin(k) <= file[i].pos /\ file[i].pos < BlockEnd(k)}

Seek(k) ==
    IF HasBlock(k) /\ \E i \in Block(k) : file[i].key = k
    THEN file[CHOOSE i \in Block(k) : file[i].key = k].value
    ELSE Absent

-----------------------------------------------------------------------------
(***************************************************************************)
(* The inductive invariant.                                                *)
(***************************************************************************)
Built == phase \in {"flushed", "loaded"}

ByWriter == phase \in {"flushing", "flushed"}

EntryEnd(i) == file[i].pos + EntryBytes(file[i].key, file[i].value)

Indexed(i) == file[i].key \in DOMAIN index

\* The file holds the smallest keys of the table in their order, one entry
\* right behind the other.
FileInv ==
    /\ \A i \in DOMAIN file :
           /\ file[i].key \in DOMAIN table
           /\ file[i].value = table[file[i].key]
           /\ \A k \in KeysToWrite : file[i].key < k
           /\ i + 1 \in DOMAIN file => EntryEnd(i) = file[i + 1].pos
    /\ \A i, j \in DOMAIN file : i < j =>
           file[i].key < file[j].key /\ EntryEnd(i) <= file[j].pos
    /\ file # <<>> => file[1].pos = FirstPos
    /\ phase = "flushing" \/ KeysToWrite = {}

PositionInv ==
    /\ phase # "loading" => done = Len(file)
    /\ currPos = IF done = 0 THEN FirstPos ELSE EntryEnd(done)
    /\ Built => eofPos = currPos

\* The index has positions of entries, among them the first and the last.
IndexedInv ==
    /\ \A k \in DOMAIN index : \E i \in 1 .. done : file[i].key = k /\ file[i].pos = index[k]
    /\ done # 0 => Indexed(1)
    /\ done # 0 /\ done = Len(file) /\ KeysToWrite = {} => Indexed(done)

\* Entry a is in the index, and b the last or some entry before the next one
\* in the index.
BlockInv ==
    \A a, b \in 1 .. done :
        a <= b /\ Indexed(a) /\ (\A i \in a + 1 .. b : ~Indexed(i)) =>
            IF ByWriter
            THEN /\ b = done => currBlockSize = currPos - file[a].pos
                 /\ a = b \/ file[b].pos - file[a].pos < blockSize
            ELSE /\ b = done => currBlockSize = currPos - EntryEnd(a)
                 /\ a = b \/ EntryEnd(b) - EntryEnd(a) < blockSize

IndexInv == IndexTypeOK /\ FileInv /\ PositionInv /\ IndexedInv /\ BlockInv

-----------------------------------------------------------------------------
(***************************************************************************)
(* The index is as good as the table: whether it was built by the writer   *)
(* or by the reader of the file, and whatever the block size, seek finds   *)
(* the entry of every key of the table, and nothing for any other key.     *)
(***************************************************************************)
SeekFindsEntry ==
    Built => \A k \in Keys : Seek(k) = IF k \in DOMAIN table THEN table[k] ELSE Absent

(***************************************************************************)
(* One key and location for every block size: a seek reads less than the   *)
(* block size and one entry, or the one entry alone.  The writer and the   *)
(* reader count differently: the one entry is the last of the block for    *)
(* the writer and the first of it for the reader.                          *)
(***************************************************************************)
BlocksAreShort ==
    Built => \A k \in Keys : HasBlock(k) =>
        \E i \in Block(k) :
            LET rest == BlockEnd(k) - BlockBegin(k) - EntryBytes(file[i].key, file[i].value)
            IN  rest = 0 \/ rest < blockSize
=============================================================================

--------------------------- MODULE TransactionLog ---------------------------
(***************************************************************************)
(* The file of one transaction log, byte by byte: what                     *)
(* TransactionLogWritter writes, and what TransactionLogLoader makes of    *)
(* it.  Keys and values are strings of bytes.  An enum takes 4 bytes and a *)
(* size_t 8, the lowest first.                                             *)
(***************************************************************************)
EXTENDS Tables, SequencesExt

CONSTANT MaxRecords  \* how many records are explored

ASSUME LogAssumption ==
    /\ MaxRecords \in Nat
    /\ \A s \in Keys \cup Values : s \in Seq(0..255) /\ Len(s) < 2 ^ 16

VARIABLES
    records,  \* what has been written, the last one maybe not to its end
    bytes,    \* the contents of the file
    cut,      \* the process has stopped inside the last record
    torn,     \* history: there are records behind one that was cut off
    starts    \* history: where in the file each record begins

logVars == <<records, bytes, cut, torn, starts>>

-----------------------------------------------------------------------------
\* The writer.

\* No number in a log reaches 2^16.
LittleEndian(n, width) ==
    [i \in 1..width |-> IF i = 1 THEN n % 256 ELSE IF i = 2 THEN n \div 256 ELSE 0]

\* enum class DbTransactionType { GET, SET, REMOVE }.
SET == 1
REMOVE == 2

Integer32(n) == LittleEndian(n, 4)
String(s) == LittleEndian(Len(s), 8) \o s

\* write(SET, key, value) and write(REMOVE, key), both with std::strings.
Encode(r) ==
    IF r.value = Tombstone THEN Integer32(REMOVE) \o String(r.key)
    ELSE Integer32(SET) \o String(r.key) \o String(r.value)

-----------------------------------------------------------------------------
(***************************************************************************)
(* The loader.  A read at a position returns what it has read and the      *)
(* position behind it.  When the file is too short it fails, is at its     *)
(* end, and throws.                                                        *)
(***************************************************************************)
EndOfFile == [ok |-> FALSE]

\* Mutant: a string that is cut off is taken as it is.
MutantReadString(file, at) ==
    LET end == Min({Len(file), at + 7 + file[at]})
    IN  IF at + 7 > Len(file) THEN EndOfFile
        ELSE [ok |-> TRUE, value |-> SubSeq(file, at + 8, end), next |-> end + 1]

\* A size is followed by as many bytes.  A size with one of its upper bytes
\* set is more than any file has.
ReadString(file, at) ==
    LET size == file[at] + 256 * file[at + 1]
    IN  IF \/ at + 7 > Len(file)
           \/ \E i \in at + 2 .. at + 7 : file[i] # 0
           \/ at + 7 + size > Len(file)
        THEN EndOfFile
        ELSE [ok |-> TRUE, value |-> SubSeq(file, at + 8, at + 7 + size),
              next |-> at + 8 + size]

ReadEnum(file, at) ==
    IF at + 3 > Len(file) THEN EndOfFile
    ELSE [ok |-> TRUE, value |-> SubSeq(file, at, at + 3), next |-> at + 4]

\* Value::deserializeImpl: the type, and then the string.
ReadValue(file, at) ==
    LET type == ReadEnum(file, at)
        string == ReadString(file, type.next)
    IN  IF ~type.ok \/ ~string.ok THEN EndOfFile
        ELSE [ok |-> TRUE, next |-> string.next,
              value |-> IF type.value = Integer32(1) THEN Tombstone ELSE string.value]

\* One turn of the loop in load.  An exception at the end of the file ends the
\* log, any other one ends the constructor of the database.
ReadRecord(file, at) ==
    LET type == ReadEnum(file, at)
        key == ReadString(file, type.next)
        value == ReadValue(file, key.next)
        Found(e, next) == [outcome |-> "record", next |-> next,
                           record |-> [key |-> key.value, value |-> e]]
    IN  IF ~type.ok THEN [outcome |-> "end"]
        ELSE IF type.value \notin {Integer32(SET), Integer32(REMOVE)} THEN [outcome |-> "thrown"]
        ELSE IF ~key.ok THEN [outcome |-> "end"]
        ELSE IF type.value = Integer32(REMOVE) THEN Found(Tombstone, key.next)
        ELSE IF value.ok THEN Found(value.value, value.next)
        ELSE [outcome |-> "end"]

\* load, from every position at which a record may begin.
LoadFile(file) ==
    LET from[at \in 1 .. Len(file) + 1] ==
            LET read == ReadRecord(file, at)
            IN  IF read.outcome = "record"
                THEN [loaded |-> <<read.record>> \o from[read.next].loaded,
                      failed |-> from[read.next].failed]
                ELSE [loaded |-> <<>>, failed |-> read.outcome = "thrown"]
    IN  from[1]

Load == LoadFile(bytes)

-----------------------------------------------------------------------------

LogInit ==
    /\ records = <<>>
    /\ bytes = <<>>
    /\ cut = FALSE
    /\ torn = FALSE
    /\ starts = <<>>

\* Mutant: the file is opened without ios_base::app.
MutantWriteRecord(r) ==
    /\ ~cut
    /\ Len(records) < MaxRecords
    /\ records' = Append(records, r)
    /\ bytes' = Encode(r)
    /\ starts' = Append(starts, Len(bytes) + 1)
    /\ UNCHANGED <<cut, torn>>

WriteRecord(r) ==
    /\ ~cut
    /\ Len(records) < MaxRecords
    /\ records' = Append(records, r)
    /\ bytes' = bytes \o Encode(r)
    /\ starts' = Append(starts, Len(bytes) + 1)
    /\ UNCHANGED <<cut, torn>>

\* The process stops before all bytes of a record are in the file: the buffer
\* of the stream goes to the file in pieces.  This happens once.
StopInside(r) ==
    /\ ~cut /\ ~torn
    /\ Len(records) < MaxRecords
    /\ records' = Append(records, r)
    /\ \E n \in 0 .. Len(Encode(r)) - 1 : bytes' = bytes \o SubSeq(Encode(r), 1, n)
    /\ starts' = Append(starts, Len(bytes) + 1)
    /\ cut' = TRUE
    /\ UNCHANGED torn

\* pushFromTransactionLog of the newest log: it is loaded and opened again, and
\* the next record, if the bound allows one, is appended to what is there of
\* the last.
Reopen ==
    /\ cut /\ Len(records) < MaxRecords
    /\ ~Load.failed
    /\ cut' = FALSE
    /\ torn' = TRUE
    /\ UNCHANGED <<records, bytes, starts>>

LogNext ==
    \/ \E k \in Keys, e \in Entries :
           WriteRecord([key |-> k, value |-> e]) \/ StopInside([key |-> k, value |-> e])
    \/ Reopen

LogSpec == LogInit /\ [][LogNext]_logVars

-----------------------------------------------------------------------------

(***************************************************************************)
(* The inductive invariant: until something is written behind a record     *)
(* that was cut off, the file is the records one behind the other.         *)
(***************************************************************************)
LogTypeOK ==
    /\ records \in Seq(Records)
    /\ bytes \in Seq(Nat)
    /\ cut \in BOOLEAN /\ torn \in BOOLEAN
    /\ starts \in Seq(Nat \ {0})
    /\ Len(starts) = Len(records)

\* As far as it goes, the file has s at a position.
HasAt(file, at, s) == \A j \in DOMAIN s : at + j - 1 <= Len(file) => file[at + j - 1] = s[j]

RecordEnd(i) == starts[i] + Len(Encode(records[i]))

FileIsRecords ==
    /\ records = <<>> => bytes = <<>> /\ ~cut
    /\ \A i \in DOMAIN records :
           /\ HasAt(bytes, starts[i], Encode(records[i]))
           /\ starts[i] = IF i = 1 THEN 1 ELSE RecordEnd(i - 1)
           /\ starts[i] <= Len(bytes) + 1
           /\ IF i < Len(records) THEN RecordEnd(i) <= Len(bytes) + 1
              ELSE IF cut THEN RecordEnd(i) > Len(bytes) + 1
              ELSE RecordEnd(i) = Len(bytes) + 1

LogFileInv == LogTypeOK /\ (torn \/ FileIsRecords)

-----------------------------------------------------------------------------
\* The records that are in the file to their last byte.
Complete == IF cut THEN SubSeq(records, 1, Len(records) - 1) ELSE records

\* A value whose first bytes are read as the upper half of a size of zero.
BeginsWithZeros(e) == e # Tombstone /\ Len(e) >= 4 /\ \A i \in 1..4 : e[i] = 0

\* What the other modules say of load is what it does: the loader returns the
\* removals before the first SET, whatever follows them and wherever the
\* file is cut off, and does not throw.  Only after a value that begins with
\* four zeros it may read on, in the middle of a record.
LoadIsReadable ==
    ~torn /\ (\A i \in DOMAIN records : ~BeginsWithZeros(records[i].value)) =>
        Load = [loaded |-> Readable(Complete), failed |-> FALSE]

\* What a start has read back of a log that ends with a record cut off, every
\* later start reads back too, unless the loader throws: what is appended to the
\* file never changes how the loader takes the records in front.
LaterLoadsKeepRecords ==
    [][torn =>
           LET before == LoadFile(bytes)
               after == LoadFile(bytes')
           IN  after.failed \/ IsPrefix(before.loaded, after.loaded)]_logVars

\* The log gives back what was in the MemTable before a crash.
LoadReturnsLog == ~torn => Load = [loaded |-> Complete, failed |-> FALSE]
=============================================================================

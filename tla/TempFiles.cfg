\* The first compaction.
CONSTANTS
    k1 = k1
    k2 = k2
    v1 = v1
    v2 = v2
    Tombstone = Tombstone
    Absent = Absent
    Keys <- OneKey
    Values <- OneValue
    KeyBytes <- OneByteKeys
    ValueBytes <- OneByteValues
    MemTableMaxBytes = 1
    SSTableMaxBytes = 20
    NumSSTableToCompact = 2
    MaxWrites = 3
SPECIFICATION Spec
SYMMETRY Symmetry
INVARIANTS
    TempFilesDisposable

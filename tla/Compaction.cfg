\* Compactions write two tables, and the second starts with the last of them.
CONSTANTS
    k1 = k1
    k2 = k2
    v1 = v1
    v2 = v2
    Tombstone = Tombstone
    Absent = Absent
    Keys <- OneKey
    Values <- OneValue
    KeyBytes <- OneByteKeys
    ValueBytes <- OneByteValues
    MemTableMaxBytes = 1
    SSTableMaxBytes = 20
    NumSSTableToCompact = 2
    MaxWrites = 5
SPECIFICATION Spec
SYMMETRY Symmetry
INVARIANTS
    IndInv
    FilesInv
    ContentsInv
    IndexMatchesFile
    FileOrderIsQueueOrder
    CompactionRangeValid
    DiskHoldsContents
PROPERTIES
    QueueFrozenDuringCompaction

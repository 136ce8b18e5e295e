\* A compaction of four tables writes two.
CONSTANTS
    k1 = k1
    k2 = k2
    v1 = v1
    v2 = v2
    Tombstone = Tombstone
    Absent = Absent
    Keys <- OneKey
    Values <- OneValue
    KeyBytes <- OneByteKeys
    ValueBytes <- OneByteValues
    MemTableMaxBytes = 1
    SSTableMaxBytes = 20
    NumSSTableToCompact = 3
    MaxWrites = 4
SPECIFICATION Spec
SYMMETRY Symmetry
PROPERTIES
    RemovedKeyStaysRemoved

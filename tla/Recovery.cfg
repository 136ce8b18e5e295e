\* A MemTable is full with one SET or with two removals.
CONSTANTS
    k1 = k1
    k2 = k2
    v1 = v1
    v2 = v2
    Tombstone = Tombstone
    Absent = Absent
    Keys <- TwoKeys
    Values <- OneValue
    KeyBytes <- OneByteKeys
    ValueBytes <- OneByteValues
    MemTableMaxBytes = 6
    SSTableMaxBytes <- Unlimited
    NumSSTableToCompact = 1
    MaxWrites = 3
    MaxStops = 2
SPECIFICATION RecoverySpec
SYMMETRY Symmetry
INVARIANTS
    RecoveryInv
    RestartInv
    EveryFileIsKnown
PROPERTIES
    StopKeepsReadableKeys
    OpeningKeepsContents
    RestartedStoreWorks

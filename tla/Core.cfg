\* A MemTable is full with one SET or with two removals: calls, flush jobs,
\* compactions that follow each other and the destructor, with their races.
CONSTANTS
    k1 = k1
    k2 = k2
    v1 = v1
    v2 = v2
    Tombstone = Tombstone
    Absent = Absent
    Keys <- TwoKeys
    Values <- OneValue
    KeyBytes <- OneByteKeys
    ValueBytes <- OneByteValues
    MemTableMaxBytes = 6
    SSTableMaxBytes <- Unlimited
    NumSSTableToCompact = 1
    MaxWrites = 4
SPECIFICATION FairSpec
INVARIANTS
    TypeOK
    FuturesMatchQueue
    FlushedTableIsFrozen
    CloseLeavesCleanDirectory
PROPERTIES
    LogOutlivesMemTable
    RefinesKeyValueStore
    EveryCallReturns
    BacklogDrains

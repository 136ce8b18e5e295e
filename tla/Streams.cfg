\* Every write fills a MemTable; a compaction of four tables writes two, which
\* take names of theirs.
CONSTANTS
    k1 = k1
    k2 = k2
    v1 = v1
    v2 = v2
    Tombstone = Tombstone
    Absent = Absent
    Keys <- OneKey
    Values <- TwoValues
    KeyBytes <- OneByteKeys
    ValueBytes <- OneByteValues
    MemTableMaxBytes = 1
    SSTableMaxBytes = 20
    NumSSTableToCompact = 3
    MaxWrites = 4
SPECIFICATION OpenSpec
SYMMETRY Symmetry
INVARIANTS
    StreamsMatchIndexes
PROPERTIES
    RefinesProjectDb
    RefinesLossyStore

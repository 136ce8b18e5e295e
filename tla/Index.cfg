\* All tables of up to five keys, with all of the block sizes.
CONSTANTS
    v1 = v1
    v2 = v2
    Tombstone = Tombstone
    Absent = Absent
    Keys <- FiveKeys
    Values <- TwoValues
    KeyBytes <- OneByte
    ValueBytes <- ShortAndLong
    MemTableMaxBytes = 1
    SSTableMaxBytes = 1
    BlockSizes <- SomeBlockSizes
SPECIFICATION IndexSpec
INVARIANTS
    IndexInv
    SeekFindsEntry
    BlocksAreShort

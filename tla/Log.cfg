\* A log of up to four records, one maybe cut off, with others behind it.
CONSTANTS
    Tombstone = Tombstone
    Absent = Absent
    Keys <- CharKeys
    Values <- CharValues
    KeyBytes <- KeyLengths
    ValueBytes <- ValueLengths
    MemTableMaxBytes = 1
    SSTableMaxBytes = 1
    MaxRecords = 4
SPECIFICATION LogSpec
CHECK_DEADLOCK FALSE
INVARIANTS
    LogFileInv
    LoadIsReadable
PROPERTIES
    LaterLoadsKeepRecords

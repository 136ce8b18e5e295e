\* What a log should give back.
CONSTANTS
    Tombstone = Tombstone
    Absent = Absent
    Keys <- CharKeys
    Values <- CharValues
    KeyBytes <- KeyLengths
    ValueBytes <- ValueLengths
    MemTableMaxBytes = 1
    SSTableMaxBytes = 1
    MaxRecords = 3
SPECIFICATION LogSpec
CHECK_DEADLOCK FALSE
INVARIANTS
    LoadReturnsLog

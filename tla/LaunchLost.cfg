\* A thread cannot be started for a flush job.
CONSTANTS
    k1 = k1
    k2 = k2
    v1 = v1
    v2 = v2
    Tombstone = Tombstone
    Absent = Absent
    Keys <- OneKey
    Values <- OneValue
    KeyBytes <- OneByteKeys
    ValueBytes <- OneByteValues
    MemTableMaxBytes = 5
    SSTableMaxBytes <- Unlimited
    NumSSTableToCompact = 1
    MaxWrites = 3
    MaxStops = 1
    MaxFailures = 1
SPECIFICATION LaunchFailureSpec
PROPERTIES
    LogOutlivesMemTable

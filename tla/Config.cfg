\* Two databases of a process, with files of two lines.
CONSTANTS
    LongBits = 5
    UnsignedBits = 4
    Lines <- SomeLines
    Default <- SomeDefault
    MaxLines = 2
    MaxDatabases = 2
    MaxTables = 8
SPECIFICATION ConfigurationSpec
CHECK_DEADLOCK FALSE
INVARIANTS
    ConfigurationTypeOK
    ParsedFileIsApplied
    CompactionDecisionIsExact

SPECIFICATION ServicesSpec
CHECK_DEADLOCK FALSE
CONSTANTS
    Values = {1, 2, 3, 4}
    BlockSize = 2
    Words = 6
    Limit = 4
    Lengths = {2, 3}
    MaxRecords = 4
    MaxTime = 3
    MaxFaults = 3
    Goroutines = {"g", "h"}
    Calls <- SampleCalls
    Verbosities = {3}
    RuleSets <- SampleRules
    Locations = {"a"}
    StreamLvl = 1
    BufSize = 1
    Sinks = 2
    MaxCalls = 2
    MaxChanges = 2
INVARIANTS QueueExact FilesKept LogsVerdicts LogsRecords WritesHeld HistoryExact
PROPERTIES CallsReturn ProgramsEnd

SPECIFICATION FairSpec
CONSTANTS
    Importers = {"scheduler", "cli"}
    Keys = {"overview"}
    NDays = 2
    MaxRev = 2
    MaxPoll = 2
    MaxJobs = 2
    MaxReads = 1
    MaxFaults = 1
INVARIANTS TriggeredComplete StaleOnlyIfOverlapped
PROPERTIES DetailKept CacheConverges
CHECK_DEADLOCK FALSE

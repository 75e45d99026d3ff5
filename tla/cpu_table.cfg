SPECIFICATION FairSpec
CONSTANTS
    AddrSpace = 5
    MemorySize = 3
    RegisterSpace = 2
    Entry = 1
    Targets = {1, 3}
    TotalExceptions = 0
    Kinds = {"jump", "dispatch", "exit"}
    MaxDepth = 2
    Chunk = 2
    NoJob = NoJob
    Wild = Wild
    TailValues = {NoJob}
    JobRegisterSpace = 2
    MaxJobs = 5
    Exec = {0, 1, 2}
    UseServer = TRUE
    Optimize = FALSE
    Commands = {}
    Signals = {"quit"}
INVARIANTS
    FetchChecked
    JobsCounted
    DispatchFindsSlot
PROPERTIES
    EveryJobRuns
    ExitStops
CHECK_DEADLOCK FALSE

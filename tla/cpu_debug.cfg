SPECIFICATION Spec
CONSTANTS
    AddrSpace = 3
    MemorySize = 1
    RegisterSpace = 1
    Entry = 0
    Targets = {1}
    TotalExceptions = 0
    Kinds = {"jump", "fault", "dispatch", "exit"}
    MaxDepth = 2
    Chunk = 2
    NoJob = NoJob
    Wild = Wild
    TailValues = {NoJob, Wild}
    JobRegisterSpace = 1
    MaxJobs = 3
    Exec = {0, 1}
    UseServer = FALSE
    Optimize = TRUE
    Commands = {"quit", "setip", "switchdomain"}
    Signals = {"sigint", "quit"}
INVARIANTS
    ContextOwned
CHECK_DEADLOCK FALSE

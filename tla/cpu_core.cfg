SPECIFICATION Spec
CONSTANTS
    AddrSpace = 4
    MemorySize = 2
    RegisterSpace = 4
    Entry = 1
    Targets = {1, 3}
    TotalExceptions = 0
    Kinds = {"ordinary", "jump", "call", "return", "pusha", "popa", "int", "loadi", "catch", "handle", "popf", "stores", "throw", "break", "dispatch", "exit"}
    MaxDepth = 2
    Chunk = 2
    NoJob = NoJob
    Wild = Wild
    TailValues = {NoJob}
    JobRegisterSpace = 2
    MaxJobs = 2
    Exec = {0, 1}
    UseServer = FALSE
    Optimize = TRUE
    Commands = {"quit", "setreg"}
    Signals = {"quit", "sigint"}
INVARIANTS
    TypeOK
PROPERTIES
    ImplementsDomains
CHECK_DEADLOCK FALSE

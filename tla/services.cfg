\* The machine's services over one allocator
SPECIFICATION Spec
CONSTANTS
    Blocks <- SomeBlocks
    Programs <- SomePrograms
    Null = Null
    Junk = Junk
    HeapStep = 4
    StreamStep = 2
    LibSlots = 2
    Libraries = {"liba", "libb", "libc"}
    Files = {"file"}
    JobSlots = {"job1", "job2"}
    Offsets = {0, 1, 7}
    PageSpace = 8
    MaxStreams = 4
    MaxPages = 5
    MaxNatives = 2
    MaxKeys = 3
INVARIANTS
    TypeOK
    RegistryExact
    PointersOwned
    StreamsCounted
    ImagesApart
    KeysOnce
PROPERTIES
    StreamHandlesKept
CHECK_DEADLOCK FALSE

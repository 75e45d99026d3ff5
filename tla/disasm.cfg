SPECIFICATION Spec
CONSTANTS
    Sizes <- ListedSizes
    OperandBytes <- OneOfEach
    Tools = {"disassemble", "rexdump"}
    Sections = {"text", "data"}
INVARIANTS
    TypeOK
    ListsInstructions
    EndsWithSection
PROPERTIES
    Finishes
CHECK_DEADLOCK FALSE

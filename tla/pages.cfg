SPECIFICATION Spec
CONSTANTS
    PageSpace = 18
    HeaderPage = 3
    ProgramText = 1
    ProgramData = 1
    Libraries = {"small", "code", "short"}
    Sections <- LibrarySections
    MaxLibraries = 2
INVARIANTS
    TypeOK
    UseMatches
    LookupsFit
PROPERTIES
    AttributesKept
CHECK_DEADLOCK FALSE

\* The T++ compiler on programs of every part of the language
SPECIFICATION Spec
CONSTANTS
    Programs <- TppPrograms
    Nesting <- TppNesting
    Expression <- TppExpression
    Statement <- TppStatement
    TableStep = 2
    MAX_WHILE_NESTING = 3
    Stale = {}
    StaleFlags = {}
INVARIANTS
    TypeOK
    TablesFit
    LoopsMatch
    LabelsResolved
    ComputesSource
    StacksBalanced
PROPERTIES
    ReachesExit
CHECK_DEADLOCK FALSE

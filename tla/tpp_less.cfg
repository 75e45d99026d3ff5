\* The T++ compiler on programs that compare with <
SPECIFICATION Spec
CONSTANTS
    Programs <- LessPrograms
    Nesting <- TppNesting
    Expression <- TppExpression
    Statement <- TppStatement
    TableStep = 2
    MAX_WHILE_NESTING = 3
    Stale = {}
    StaleFlags = {}
INVARIANTS
    ComputesSource
CHECK_DEADLOCK FALSE

SPECIFICATION Spec
CONSTANTS
    Value <- SmallWords
    Underflow <- MinusOne
    Success <- Zero
    FirstSize = 2
    MaxStack = 3
    Width = 16
    Offsets = {0, 1, 2, 3, 15}
    MaxTop = 5
INVARIANTS
    TypeOK
    StoreFits
    OnePastAtMost
PROPERTIES
    LimitAsks
    ImplementsStack

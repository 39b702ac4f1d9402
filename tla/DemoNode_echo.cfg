SPECIFICATION Spec
CONSTANTS
    Inputs <- LineInputs
    IntMax = 7
INVARIANTS
    RepliesInOrder
PROPERTIES
    AnswersAll
CHECK_DEADLOCK FALSE

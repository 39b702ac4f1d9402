SPECIFICATION Spec
CONSTANTS
    Shapes <- AllShapes
    IgnoreComments = TRUE
    DecimalPoint = 44
    MaxUnsigned = 15
    MaxInteger = 7
INVARIANTS
    TokensAreThoseOfTheText
    PositionIsExact
\* The strict parser's last scan is the end.
CHECK_DEADLOCK FALSE

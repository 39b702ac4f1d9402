SPECIFICATION Spec
CONSTANTS
    Strings <- Keys
    Options <- AllCalls
    Shapes <- AllShapes
INVARIANTS
    AcceptsTheGrammar
    BuildsTheValue
    PointersStayValid
PROPERTY CallReturns
\* A call ends when it returns.
CHECK_DEADLOCK FALSE

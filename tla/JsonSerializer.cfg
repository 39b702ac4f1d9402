SPECIFICATION Spec
CONSTANTS
    Calls <- AllCalls
    MaxInteger = 1048575
    MaxUnsigned = 2097151
    BufferSize = 20
    IndentSize = 3
INVARIANTS
    DumpsWhatWasParsed
    WithinBuffer
\* A call ends when the value is written.
CHECK_DEADLOCK FALSE

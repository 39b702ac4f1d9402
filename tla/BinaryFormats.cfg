SPECIFICATION Spec
CONSTANTS
    WriterIsLittleEndian = TRUE
    ReaderIsLittleEndian = FALSE
    Texts <- AllTexts
    Sources <- AllSources
    Values <- ValueSet
INVARIANTS
    RoundTrip
    DocumentSizesExact
    TruncatedIsRefused
    HalfIsIeee
\* A call ends when its input is read.
CHECK_DEADLOCK FALSE

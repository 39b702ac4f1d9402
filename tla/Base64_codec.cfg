SPECIFICATION CodecSpec
CONSTANTS
    Bytes <- SampleBytes
    MaxLength = 5
INVARIANTS
    DecodeIsBitSlicing
    IdCodecRoundTrip
    TerminatorPreserved
\* Inputs are finite: the enumeration stops at MaxLength.
CHECK_DEADLOCK FALSE

CONSTANTS
    b1 = b1
    b2 = b2
    Board = {b1, b2}
    Kinds <- MCKinds
    First = b1
    Decimation = {100, 65536, 65636}
    Voids = {"lost", "amp", "memory", "direct", "ored", "shared", "first", "partial", "cut"}
    Unknown = Unknown
    MaxCalls = 4
SPECIFICATION Spec
INVARIANTS
    TypeOK
    FlagsAsAsked
    SegmentsAsAsked
    OffsetAsAsked
    DecimationAsAnswered
    ZeroedAreZero
CHECK_DEADLOCK FALSE

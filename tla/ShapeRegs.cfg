CONSTANTS
    b1 = b1
    b2 = b2
    Board = {b1, b2}
    Kinds <- MCKinds
    NumShape = 2
    Length = {short, middle, long}
    Clock = {1, 2}
    Voids = {"switched", "clock", "lost", "cleared", "device", "refused"}
    MaxCalls = 9
SPECIFICATION Spec
INVARIANTS
    TypeOK
    ShapesFit
    OneLengthOneRegister
    RefusedOnlyWhenFull
SYMMETRY MCSymmetry

CHECK_DEADLOCK FALSE

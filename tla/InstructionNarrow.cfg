CONSTANTS
    Boards <- MCWide
    Operands <- MCOperands
    FlagWords <- MCFlagWords
    Timings <- MCTimings
    Usual <- MCUsual
    DelayRange = 64
    DataRange = 8
    Byte = 8
    Voids = {"estimated", "unchecked", "wrong_call", "unshaped", "length", "data", "rpg_counter", "unsupported"}
SPECIFICATION Spec
INVARIANT
    OperandsCarried

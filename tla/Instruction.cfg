CONSTANTS
    Boards <- MCBoards
    Operands <- MCOperands
    FlagWords <- MCFlagWords
    Timings <- MCTimings
    Usual <- MCUsual
    DelayRange = 64
    DataRange = 8
    Byte = 8
    Voids = {"narrow", "estimated", "unchecked", "wrong_call", "unshaped", "length", "data", "rpg_counter", "unsupported"}
SPECIFICATION Spec
INVARIANTS
    TypeOK
    OperandsCarried
    FlagsCarried
    DelayHonest
    CounterSafe
    CountHonest
    AnsweredIsSent

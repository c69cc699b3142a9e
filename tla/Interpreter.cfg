CONSTANTS
    a = a
    b = b
    Name = {a, b}
    VarValues <- MCVarValues
    Var = {x}
    MaxLines = 3
    MaxLabels = 2
    MaxLoads = 2
    Voids = {"past", "start"}
SPECIFICATION Spec
INVARIANTS
    TypeOK
    LoadedWhole
    JumpsLand
    LoopsMatch
SYMMETRY MCSymmetry
CHECK_DEADLOCK FALSE

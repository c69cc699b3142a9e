CONSTANTS
    b1 = b1
    b2 = b2
    Board = {b1, b2}
    Machines <- MCOneUsb2
    Devices <- MCDevices
    NumDds = 1
    Size <- MCSize
    BPW = 2
    Datum = {v, w}
    MaxInstructions = 3
    Voids = {"interleaved", "overfull"}
    Unknown = Unknown
    Junk = Junk
SPECIFICATION Spec
INVARIANT
    AcknowledgedIsStored

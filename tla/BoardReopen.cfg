CONSTANTS
    d1 = d1
    d2 = d2
    d3 = d3
    Device = {d1, d2}
    Pid <- MCPid
    MAX_USB = 2
    MAX_SESSIONS = 2
    Failed = Failed
    NumPci = 1
    PciMayFail = FALSE
    MAX_NUM_BOARDS = 3
SPECIFICATION Spec
INVARIANT
    ClosedCanReopen

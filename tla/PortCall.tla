--------------------------------- MODULE PortCall ---------------------------------
(***************************************************************************)
(* A call of the library that accesses a board: what was asked for, how    *)
(* far the code has come, and what has come out at the board's ports.      *)
(* AmccHandshake and UsbTransfer say how the two kinds of board are        *)
(* accessed.  got, log, failed and trust record the past; nothing reads    *)
(* them but the properties.                                               *)
(***************************************************************************)
EXTENDS Integers, Sequences

CONSTANTS
    MaxCalls,     \* bound on the number of calls, for each kind of board
    Voids         \* the hazards that void what a call promises

Port == {0, 1}
Byte == {1, 2}    \* two bits: the old protocol sends one of them at a time

VARIABLES
    board,        \* the kind of the selected board
    call,         \* the call in progress
    at,           \* the next step of the code
    calls,        \* number of calls made
    ret,          \* what the last call returned
    status,       \* what a read of the board's status gives now
    seen,         \* the statuses since the call began
    got,          \* whether the byte of this call came out
    log,          \* all bytes that came out
    failed,       \* whether the last pb_outp failed
    trust         \* FALSE once a hazard of Voids happened

history == <<seen, got, log, failed, trust>>
portVars == <<board, call, at, calls, ret, status, history>>

NoCall == [fn |-> "none", port |-> 0, data |-> <<>>]

Begin(fn, port, data, first) ==
    /\ call = NoCall /\ calls < MaxCalls[board]
    /\ call' = [fn |-> fn, port |-> port, data |-> data]
    /\ at' = first
    /\ calls' = calls + 1
    /\ seen' = {status}
    /\ got' = (got /\ fn # "pb_outp")
    /\ UNCHANGED <<board, ret, status, log, failed, trust>>

\* The call goes on with the step l.
Goto(l) == at' = l /\ UNCHANGED <<board, call, calls, ret, status, seen, failed>>

Return(value) ==
    /\ call' = NoCall
    /\ at' = "idle"
    /\ ret' = [to |-> call, value |-> value]
    /\ failed' = IF call.fn = "pb_outp" THEN value < 0 ELSE failed
    /\ UNCHANGED <<board, calls, status, seen>>

\* A byte comes out, as that of the call in progress or as a leftover.
Delivered(byte, mine) == log' = Append(log, byte) /\ got' = (got \/ mine)

\* The status matters to the calls that read it.
StatusChange ==
    /\ call.fn \in {"pb_inp", "usb_read_reg"}
    /\ status' \in Byte
    /\ seen' = seen \cup {status'}
    /\ UNCHANGED <<board, call, at, calls, ret, got, log, failed, trust>>

\* Where a call has come to a hazard of Voids, nothing is promised any more.
Distrusted(hazard) == trust' = (trust /\ hazard \notin Voids)

PortInit(boards) ==
    /\ board \in boards
    /\ call = NoCall /\ at = "idle" /\ calls = 0
    /\ ret = [to |-> NoCall, value |-> 0]
    /\ status \in Byte
    /\ seen = {} /\ got = FALSE /\ log = <<>> /\ failed = FALSE /\ trust = TRUE

=============================================================================

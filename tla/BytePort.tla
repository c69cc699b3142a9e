--------------------------------- MODULE BytePort ---------------------------------
(***************************************************************************)
(* What pb_outp promises over every kind of board: a call that answers 0   *)
(* has written its byte to its port, once, and a call that fails has       *)
(* written it at most once.  What is left of failed calls may still come   *)
(* out, garbled, before a later call gets through.                         *)
(***************************************************************************)
EXTENDS Integers, Sequences

CONSTANTS
    Asked         \* the bytes that can be asked for: port and data

VARIABLES
    request,      \* the byte of the call in progress, or NoByte
    got,          \* whether the board has got it
    log,          \* what has come out at the ports
    failed,       \* the last call failed: what is left of it may come out
    trust         \* FALSE when nothing is promised any more

NoByte == [port |-> -1, data |-> -1]
abstractVars == <<request, got, log, failed, trust>>

Init == request = NoByte /\ got = FALSE /\ log = <<>> /\ failed = FALSE /\ trust = TRUE

Call ==
    /\ request = NoByte
    /\ request' \in Asked
    /\ got' = FALSE
    /\ UNCHANGED <<log, failed, trust>>

Deliver ==
    /\ request # NoByte /\ ~got
    /\ got' = TRUE
    /\ log' = Append(log, request)
    /\ UNCHANGED <<request, failed, trust>>

\* Never after the byte of the call in progress.
Leftover ==
    /\ failed /\ (request # NoByte => ~got)
    /\ Len(log') = Len(log) + 1 /\ SubSeq(log', 1, Len(log)) = log
    /\ UNCHANGED <<request, got, failed, trust>>

Succeed ==
    /\ request # NoByte /\ got
    /\ request' = NoByte
    /\ failed' = FALSE
    /\ UNCHANGED <<got, log, trust>>

Fail ==
    /\ request # NoByte
    /\ request' = NoByte
    /\ failed' = TRUE
    /\ UNCHANGED <<got, log, trust>>

\* Trust that is lost does not come back.
Distrust == ~trust'

Next == (trust /\ (Call \/ Deliver \/ Leftover \/ Succeed \/ Fail)) \/ Distrust
Spec == Init /\ [][Next]_abstractVars

=============================================================================

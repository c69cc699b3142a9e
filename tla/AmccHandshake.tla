------------------------------ MODULE AmccHandshake ------------------------------
(***************************************************************************)
(* Boards behind an AMCC chip are accessed through its mailboxes, word by  *)
(* word, each acknowledged by the controller on the board, which is polled *)
(* a limited number of times (util.c).  Newer boards ("amcc") toggle a     *)
(* bit; older ones ("amcc_old") count nibbles.  The library's steps are    *)
(* between two accesses of the chip, where the controller may run.  The    *)
(* controller is external: it does what the code expects of it, or nothing *)
(* for as long as it likes.                                                *)
(***************************************************************************)
EXTENDS PortCall

CONSTANTS
    MaxRecv,      \* MAX_RECV_TIMEOUT
    MaxResync,    \* errors of the nibble counter before the first nibble
    MaxCount      \* polls of the nibble counter after a nibble

ASSUME AmccAssumption ==
    MaxRecv \in Nat \ {0} /\ MaxResync \in Nat /\ MaxCount \in Nat

VARIABLES
    todo,         \* the bytes that are left to send in this call
    half,         \* what the mailbox is used for: address, data, or no more
    start,        \* RECV_START, or the nibble counter that was read
    n,            \* RECV_TIMEOUT, or error_counter
    nibble,       \* nibble_counter
    error,        \* XFER_ERROR
    chip          \* the mailboxes and the controller

amccVars == <<todo, half, start, n, nibble, error, chip>>
locals == <<todo, half, start, n, nibble, error>>

-----------------------------------------------------------------------------
(* The controller.                                                         *)

ReadAddress == 8
ReadCycle == 9

NoWord == -1
Chip0 ==
    [out |-> NoWord,     \* the outgoing mailbox, or NoWord while XFER is clear
     taken |-> FALSE,    \* whether that word was seen
     word |-> NoWord,    \* the word that is being acted upon
     role |-> "address", \* what it is taken for
     port |-> 0, recv |-> 0,
     reading |-> FALSE, ready |-> FALSE, ack |-> FALSE, incoming |-> 0,
     tag |-> NoWord, bits |-> 0, counter |-> 7, high |-> 0]

Quiet == UNCHANGED <<board, call, at, calls, ret, status, seen, failed, trust>> /\ UNCHANGED locals
Mine == at = "poll" /\ half = "data" /\ call.fn = "pb_outp"

ChipTake ==
    /\ chip.out # NoWord /\ ~chip.taken /\ chip.word = NoWord
    /\ chip' = [chip EXCEPT !.word = chip.out, !.taken = TRUE]
    /\ Quiet /\ UNCHANGED <<got, log>>

\* The controller acts upon a word and toggles RECV.
ChipToggle ==
    /\ chip.word # NoWord
    /\ LET done == [chip EXCEPT !.word = NoWord, !.recv = 1 - @,
                                !.role = IF @ = "address" THEN "data" ELSE "address"]
       IN  \/ /\ chip.role = "address"
              /\ chip' = [done EXCEPT !.port = chip.word]
              /\ UNCHANGED <<got, log>>
           \/ /\ chip.role = "data" /\ chip.port \in {ReadAddress, ReadCycle}
              /\ chip' = IF chip.port = ReadCycle THEN [done EXCEPT !.reading = TRUE] ELSE done
              /\ UNCHANGED <<got, log>>
           \/ /\ chip.role = "data" /\ chip.port \notin {ReadAddress, ReadCycle}
              /\ chip' = done
              /\ Delivered([port |-> chip.port, data |-> chip.word], Mine)
    /\ Quiet

ChipReady ==
    /\ chip.reading /\ ~chip.ready
    /\ chip' = [chip EXCEPT !.reading = FALSE, !.ready = TRUE, !.incoming = status]
    /\ Quiet /\ UNCHANGED <<got, log>>

ChipRelease ==
    /\ chip.ready /\ chip.ack
    /\ chip' = [chip EXCEPT !.ready = FALSE]
    /\ Quiet /\ UNCHANGED <<got, log>>

\* The old controller counts the nibbles that carry the tag it waits for.
ChipCount ==
    /\ chip.tag # NoWord
    /\ LET read == [chip EXCEPT !.tag = NoWord]
           waits == IF chip.counter = 7 THEN 3 ELSE chip.counter
       IN  IF chip.tag # waits THEN chip' = read /\ UNCHANGED <<got, log>>
           ELSE IF chip.counter = 2
           THEN /\ chip' = [read EXCEPT !.counter = 7]
                /\ Delivered([port |-> chip.port, data |-> 2 * chip.high + chip.bits],
                             at = "count" /\ nibble = 4)
           ELSE /\ chip' = CASE chip.counter = 7 -> [read EXCEPT !.counter = 0]
                             [] chip.counter = 0 -> [read EXCEPT !.counter = 1, !.port = chip.bits]
                             [] chip.counter = 1 -> [read EXCEPT !.counter = 2, !.high = chip.bits]
                /\ UNCHANGED <<got, log>>
    /\ Quiet

ChipNext == ChipTake \/ ChipToggle \/ ChipReady \/ ChipRelease \/ ChipCount

-----------------------------------------------------------------------------
(* do_amcc_outp and do_amcc_inp.                                           *)

To(port, data) == [port |-> port, data |-> data]

AmccOutp ==
    /\ board = "amcc"
    /\ \E p \in Port, b \in Byte :
        /\ Begin("pb_outp", p, <<b>>, "clear")
        /\ todo' = <<To(p, b)>>
    /\ half' = "address" /\ error' = FALSE
    /\ UNCHANGED <<start, n, nibble, chip>>

AmccInp ==
    /\ board = "amcc"
    /\ Begin("pb_inp", 0, <<>>, "clear")
    /\ todo' = <<To(ReadAddress, 0), To(ReadCycle, 0)>>
    /\ half' = "address" /\ error' = FALSE
    /\ UNCHANGED <<start, n, nibble, chip>>

\* os_outp (SIG_TRNS, 0), and what comes before the next word.
Cleared == [chip EXCEPT !.out = NoWord, !.taken = FALSE, !.ack = FALSE]

\* A word that is sent with the state of RECV from before the last one.
ClearXferOnce ==
    /\ at = "clear" /\ half # "over"
    /\ chip' = Cleared
    /\ start' = IF half = "address" THEN chip.recv ELSE start
    /\ Goto("send")
    /\ UNCHANGED <<todo, half, n, nibble, error, got, log, trust>>

ClearXfer ==
    /\ at = "clear" /\ half # "over"
    /\ chip' = Cleared
    /\ start' = chip.recv
    /\ Goto("send")
    /\ UNCHANGED <<todo, half, n, nibble, error, got, log, trust>>

OutpEnds ==
    /\ at = "clear" /\ half = "over" /\ call.fn = "pb_outp"
    /\ chip' = Cleared
    /\ Return(IF error THEN -2 ELSE 0)
    /\ UNCHANGED <<got, log, trust>> /\ UNCHANGED locals

\* do_amcc_inp does not look at what do_amcc_outp returns.
InpGoesOn ==
    /\ at = "clear" /\ half = "over" /\ call.fn = "pb_inp"
    /\ chip' = Cleared
    /\ todo' = Tail(todo) /\ half' = "address" /\ error' = FALSE /\ n' = 0
    /\ Goto(IF Len(todo) = 1 THEN "await" ELSE "clear")
    /\ UNCHANGED <<start, nibble, got, log, trust>>

SendWord ==
    /\ at = "send"
    /\ chip' = [chip EXCEPT !.out = Head(todo)[IF half = "address" THEN "port" ELSE "data"],
                            !.taken = FALSE]
    /\ n' = 0
    /\ Goto("poll")
    /\ UNCHANGED <<todo, half, start, nibble, error, got, log, trust>>

Following == IF half = "address" THEN "data" ELSE "over"

PollWord ==
    /\ at = "poll"
    /\ IF chip.recv # start
       THEN /\ half' = Following /\ Goto("clear")
            /\ UNCHANGED <<n, error, trust>>
       ELSE /\ n' = n + 1
            /\ IF n' = MaxRecv
               THEN half' = Following /\ error' = TRUE /\ Goto("clear") /\ Distrusted("late")
               ELSE UNCHANGED <<half, error, trust>> /\ Goto("poll")
    /\ UNCHANGED <<todo, start, nibble, chip, got, log>>

Failed(value) == Return(value) /\ Distrusted("late")

\* The byte is read once bit 1 is set, and acknowledged by toggling that bit of
\* SIG_TRNS, which the calls of do_amcc_outp have cleared.
AwaitByte ==
    /\ at = "await"
    /\ IF chip.ready
       THEN /\ start' = chip.incoming
            /\ chip' = [chip EXCEPT !.ack = ~@]
            /\ n' = 0 /\ Goto("release") /\ UNCHANGED trust
       ELSE /\ n' = n + 1
            /\ IF n' = MaxRecv THEN Failed(-2) ELSE Goto("await") /\ UNCHANGED trust
            /\ UNCHANGED <<start, chip>>
    /\ UNCHANGED <<todo, half, nibble, error, got, log>>

AwaitRelease ==
    /\ at = "release"
    /\ IF ~chip.ready
       THEN Return(start) /\ UNCHANGED <<n, trust>>
       ELSE /\ n' = n + 1
            /\ IF n' = MaxRecv THEN Failed(-3) ELSE Goto("release") /\ UNCHANGED trust
    /\ UNCHANGED <<todo, half, start, nibble, error, chip, got, log>>

-----------------------------------------------------------------------------
(* do_amcc_outp_old.                                                       *)

Expected == <<7, 0, 1, 2, 7>>

\* byte[0..3]: a tag and a nibble; here a nibble is a bit.
Nibbles == <<<<3, 0>>, <<0, call.port>>, <<1, call.data[1] \div 2>>, <<2, call.data[1] % 2>>>>

OldOutp ==
    /\ board = "amcc_old"
    /\ \E p \in Port, b \in Byte : Begin("pb_outp", p, <<b>>, "resync")
    /\ n' = 0 /\ nibble' = 0
    /\ UNCHANGED <<todo, half, start, error, chip>>

\* The counter is read, and written back with the hope to advance it.
OldResync ==
    /\ at = "resync"
    /\ start' = chip.counter
    /\ IF chip.counter = Expected[nibble + 1]
       THEN n' = 0 /\ Goto("nibble")
       ELSE n' = n + 1 /\ Goto("advance")
    /\ UNCHANGED <<todo, half, nibble, error, chip, got, log, trust>>

\* A resync without a limit.
OldAdvanceForever ==
    /\ at = "advance"
    /\ chip' = [chip EXCEPT !.tag = start, !.bits = 0]
    /\ Goto("resync")
    /\ UNCHANGED <<got, log, trust>> /\ UNCHANGED locals

OldAdvance ==
    /\ at = "advance"
    /\ chip' = [chip EXCEPT !.tag = start, !.bits = 0]
    /\ IF n > MaxResync
       THEN Return(-3)
       ELSE Goto("resync")
    /\ UNCHANGED <<got, log, trust>> /\ UNCHANGED locals

OldNibble ==
    /\ at = "nibble"
    /\ chip' = [chip EXCEPT !.tag = Nibbles[nibble + 1][1], !.bits = Nibbles[nibble + 1][2]]
    /\ nibble' = nibble + 1
    /\ Goto("count")
    /\ UNCHANGED <<todo, half, start, n, error, got, log, trust>>

\* A poll that does not count its errors.
OldCountUncounted ==
    /\ at = "count"
    /\ IF chip.counter = Expected[nibble + 1]
       THEN IF nibble = 4 THEN Return(0) ELSE Goto("nibble")
       ELSE Goto("count")
    /\ UNCHANGED <<chip, got, log, trust>> /\ UNCHANGED locals

OldCount ==
    /\ at = "count"
    /\ IF chip.counter = Expected[nibble + 1]
       THEN /\ n' = 0
            /\ IF nibble = 4
               THEN Return(0)
               ELSE Goto("nibble")
       ELSE /\ n' = n + 1
            /\ IF n' > MaxCount
               THEN Return(-6)
               ELSE Goto("count")
    /\ UNCHANGED <<todo, half, start, nibble, error, chip, got, log, trust>>

AmccCall == AmccOutp \/ AmccInp \/ OldOutp
AmccStep ==
    \/ ClearXfer \/ OutpEnds \/ InpGoesOn \/ SendWord \/ PollWord \/ AwaitByte \/ AwaitRelease
    \/ OldResync \/ OldAdvance \/ OldNibble \/ OldCount

AmccInit ==
    /\ todo = <<>> /\ half = "address" /\ start = 0 /\ n = 0 /\ nibble = 0 /\ error = FALSE
    /\ chip = Chip0

=============================================================================

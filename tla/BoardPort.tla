-------------------------------- MODULE BoardPort --------------------------------
(***************************************************************************)
(* pb_outp and pb_inp (spinapi.c) over the boards they choose between: USB *)
(* boards, boards behind an AMCC chip and older ones of those.  The        *)
(* library is called by one thread, which runs on whatever the board does. *)
(***************************************************************************)
EXTENDS AmccHandshake, UsbTransfer

CONSTANT
    Boards        \* the kinds of boards: "usb", "amcc" and "amcc_old"

ASSUME BoardsAssumption ==
    /\ Boards \subseteq {"usb", "amcc", "amcc_old"}
    /\ MaxCalls \in [Boards -> Nat]

vars == <<portVars, amccVars, usbVars>>

\* pb_inp is not supported by USB boards and the older AMCC boards.
InpUnsupported ==
    /\ board \in {"usb", "amcc_old"}
    /\ Begin("pb_inp", 0, <<>>, "unsupported")
    /\ UNCHANGED amccVars /\ UNCHANGED usbVars

RefuseInp ==
    /\ at = "unsupported"
    /\ Return(-1)
    /\ UNCHANGED <<got, log, trust>> /\ UNCHANGED amccVars /\ UNCHANGED usbVars

Step ==
    \/ AmccStep /\ UNCHANGED usbVars
    \/ UsbStep /\ UNCHANGED amccVars
    \/ RefuseInp

Environment ==
    \/ ChipNext /\ UNCHANGED usbVars
    \/ StatusChange /\ UNCHANGED amccVars /\ UNCHANGED usbVars

Init == PortInit(Boards) /\ AmccInit /\ UsbInit

Next ==
    \/ AmccCall /\ UNCHANGED usbVars
    \/ UsbCall /\ UNCHANGED amccVars
    \/ InpUnsupported
    \/ Step
    \/ Environment

\* The thread runs on.  Nothing is assumed of the board.
Spec == Init /\ [][Next]_vars /\ WF_vars(Step)

-----------------------------------------------------------------------------
(* Properties.                                                             *)

TypeOK ==
    /\ ret.value \in {-6, -3, -2, -1, 0} \cup Byte
    /\ log \in Seq([port : 0 .. 9, data : 0 .. 9])
    /\ \E limit \in {MaxRecv, MaxResync + 1, MaxCount + 1} : n \in 0 .. limit
    /\ nibble \in 0 .. 4
    /\ Len(todo) <= 2
    /\ Len(dev.fifo) = 2
    /\ dev.addr \in 0 .. 15

\* "Negative number on failure, else 0 on success" (util.c): a byte whose write
\* is acknowledged came out at its port, once, and after whatever was left of
\* failed calls; a byte whose write failed came out once at most.  Voided where
\* do_amcc_outp or do_amcc_inp ever gave up waiting.
Promise == INSTANCE BytePort WITH
    Asked <- [port : Port, data : Byte],
    request <- IF call.fn = "pb_outp" THEN To(call.port, call.data[1]) ELSE To(-1, -1)

Implements == Promise!Spec

\* Every call returns, even when the board never answers: the polls of the
\* handshakes are limited (util.c, MAX_RECV_TIMEOUT and error_counter).
EveryCallReturns == call # NoCall ~> call = NoCall

\* "the third read will have the correct value" (usb.c), and the byte that
\* do_amcc_inp returns is the one it asked for: a status that is answered held
\* at some time during the call.
ReadIsFresh ==
    (call = NoCall /\ ret.to.fn \in {"pb_inp", "usb_read_reg"} /\ ret.value >= 0 /\ trust) =>
        ret.value \in seen

\* Lines that usb_write_ram acknowledges are in the RAM, and no others changed;
\* what usb_read_ram acknowledges is what the RAM holds.  Voided where the
\* result of a setup was ignored, and for reads of less than a block.
RamHonest ==
    (call = NoCall /\ trust) =>
        /\ dev.ram = ram
        /\ (ret.to.fn = "usb_read_ram" /\ ret.value = 0) =>
               buffer = [k \in 1 .. ret.to.data[1] |-> ram[ret.to.port + k - 1]]

=============================================================================

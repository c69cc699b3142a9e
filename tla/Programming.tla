------------------------------ MODULE Programming ------------------------------
(***************************************************************************)
(* Programming boards: pb_start_programming, pb_inst_direct, pb_set_freq,  *)
(* pb_set_phase, pb_stop_programming, and the calls that reset and trigger *)
(* a board, for the families that differ in how a word reaches the board:  *)
(* byte by byte through pb_outp ("oldpb"), likewise but its registers      *)
(* through extended ones ("extreg"), word by word to an address the        *)
(* library keeps ("pcie"), and through the USB address and data registers  *)
(* without a look at the result ("usb2").                                  *)
(*                                                                         *)
(* The library keeps one instruction counter, one device and one register  *)
(* counter for all boards.  Where the next word of a board goes is known   *)
(* to its hardware only, which is external: hw is what the library's       *)
(* transfers did to it.  File 0 of a board is its instruction memory; each *)
(* DDS has a file of frequency registers and one of TX phase registers.    *)
(***************************************************************************)
EXTENDS Integers, Sequences

CONSTANTS
    Board,             \* the initialised boards
    Machines,          \* their families: a set of functions on Board
    Devices,           \* bound: the devices that are programmed on each family
    NumDds,            \* number_of_dds of a usb2 board
    Size,              \* number of words of each file
    BPW,               \* transfers that make up one word of an oldpb board
    Datum,             \* the instructions, frequencies and phases
    MaxInstructions,   \* bound on num_instructions
    Voids,             \* the hazards after which nothing is promised
    Unknown,           \* memory that nothing is promised about
    Junk               \* a word that is none of the user's

Program == 0
File == 0 .. 2 * NumDds
Nowhere == -1
Freq(d) == 2 * d + 1
Phase(d) == 2 * d + 2
Device == {"none", "PULSE_PROGRAM", "FREQ_REGS", "TX_PHASE_REGS"}

ASSUME ProgrammingAssumption ==
    /\ NumDds \in Nat \ {0}
    /\ Machines \subseteq [Board -> {"oldpb", "extreg", "pcie", "usb2"}]
    /\ Devices \in [{"oldpb", "extreg", "pcie", "usb2"} -> SUBSET (Device \ {"none"})]
    /\ BPW \in Nat \ {0}
    /\ MaxInstructions \in Nat
    /\ Voids \subseteq {"interleaved", "lost", "overfull"}
    /\ Size \in [File -> Nat \ {0}]
    /\ \A d \in 0 .. NumDds - 1 : Size[Freq(d)] = Size[Freq(0)] /\ Size[Phase(d)] = Size[Phase(0)]
    /\ Junk \notin Datum

\* Unknown is no datum, no memory and no contents.
ASSUME UnknownAssumption ==
    /\ Unknown \notin Datum
    /\ \A f \in File :
          /\ Unknown \notin [words : [0 .. Size[f] - 1 -> Datum \cup {Junk}], acked : 0 .. Size[f]]
          /\ \A n \in 0 .. Size[f] : Unknown \notin [1 .. n -> Datum \cup {Junk}]

VARIABLES
    cur_board,         \* the library's state ...
    cur_dds,
    cur_device,
    cur_device_addr,
    num_instructions,
    kind,              \* ... and what get_caps found, which does not change
    hw,                \* the hardware of each board
    open,              \* the file of each board that is being programmed
    call               \* the last call: where it adds, the word, the result

library == <<cur_board, cur_dds, cur_device, cur_device_addr, num_instructions, kind>>
vars == <<library, hw, open, call>>

\* A file that was begun: its words, and how many of them were acknowledged.
Memory(f) ==
    {Unknown} \cup [words : [0 .. Size[f] - 1 -> Datum \cup {Junk}], acked : 0 .. Size[f]]

Fresh(f) == [words |-> [a \in 0 .. Size[f] - 1 |-> Junk], acked |-> 0]

\* file, pos: where the next word goes; part: the transfers that already came
\* of it (oldpb, extreg); amode: data is taken for an address (usb2).
Idle ==
    [mem |-> [f \in File |-> Unknown], file |-> Nowhere, pos |-> 0, part |-> 0, amode |-> FALSE]

-----------------------------------------------------------------------------
(* What a transfer does to a board.                                        *)

Put(h, f, a, w) ==
    IF f \in File /\ a < Size[f] /\ h.mem[f] # Unknown
    THEN [h EXCEPT !.mem[f].words[a] = w]
    ELSE h

\* A word at the board's own position, which stays at the end of a full file.
PutNext(h, w) ==
    IF h.file = Nowhere THEN h
    ELSE [Put(h, h.file, h.pos, w) EXCEPT !.pos = IF @ < Size[h.file] THEN @ + 1 ELSE @]

\* oldpb and extreg, port 6: the first k of the BPW transfers of w.  A word is complete
\* when BPW transfers have come, whatever word they were meant for.
Sent(h, w, k) ==
    LET complete == h.part + k >= BPW
        now == [h EXCEPT !.part = (h.part + k) % BPW]
    IN  IF h.file = Nowhere THEN h
        ELSE IF complete THEN PutNext(now, IF h.part = 0 THEN w ELSE Junk)
        ELSE now

\* The same: the first k of the writes of a start (reset, word size, device,
\* counter) and of a reset (the same with 0xFF, and a last one to port 7).
Latched(h, f, k) ==
    [h EXCEPT !.file = IF k >= 3 THEN f ELSE IF k >= 1 THEN Nowhere ELSE @,
              !.pos  = IF k >= 4 THEN 0 ELSE @,
              !.part = IF k >= 4 THEN 0 ELSE @]

\* usb2, usb_write_address: the first j of enabling the address register,
\* writing it and enabling the data register again.
Address(h, f, j) ==
    [h EXCEPT !.amode = IF j = 0 THEN @ ELSE j < 3,
              !.file  = IF j >= 2 THEN f ELSE @,
              !.pos   = IF j >= 2 THEN 0 ELSE @]

\* usb2, usb_write_data: a word in one transfer, which is an address as long
\* as the address register is enabled.  (A flag or a shape table, whatever its
\* length, is one word that is none of the user's.)
Written(h, w) == IF h.amode THEN [h EXCEPT !.file = Nowhere] ELSE PutNext(h, w)

\* extreg: the outcomes of a register write, which are lost without notice: a
\* data word too early, or the pulse that stores it.
Extended(f, w) ==
    LET at(v) == Put(hw[cur_board], f, cur_device_addr, v)
    IN  {[h |-> at(w), lost |-> FALSE], [h |-> at(Junk), lost |-> TRUE],
         [h |-> hw[cur_board], lost |-> TRUE]}

\* A usb2 operation is a chain of such calls whose results nobody looks at:
\* the outcomes of one more call, given those of the calls before it.
Tries == [h : {hw[cur_board]}, lost : {FALSE}]
AddressCall(T, f) ==
    UNION {{[h |-> Address(t.h, f, j), lost |-> t.lost \/ j < 3] : j \in 0 .. 3} : t \in T}
DataCall(T, w) ==
    UNION {{[h |-> Written(t.h, w), lost |-> t.lost], [h |-> t.h, lost |-> TRUE]} : t \in T}

-----------------------------------------------------------------------------
(* What a call means for what is known of the memories.                    *)

Forget(h) == [h EXCEPT !.mem = [f \in File |-> Unknown]]
ForgetFile(h, f) == IF f \in File THEN [h EXCEPT !.mem[f] = Unknown] ELSE h
Begin(h, f) == IF f \in File THEN [h EXCEPT !.mem[f] = Fresh(f)] ELSE h

\* An outcome nobody looks at: a transfer that is lost may void all files of the board.
Settled(t) == IF t.lost /\ "lost" \in Voids THEN Forget(t.h) ELSE t.h

\* The selected board becomes h.  A programming call also voids what the other
\* boards are in the middle of.
OnBoard(h) == hw' = [hw EXCEPT ![cur_board] = h]
InCall(h) ==
    hw' = [b \in Board |->
              IF b = cur_board THEN h
              ELSE IF "interleaved" \in Voids THEN ForgetFile(hw[b], open[b])
              ELSE hw[b]]

Returns(result) == call' = [to |-> {}, data |-> Unknown, answer |-> result]
Acknowledges(files, w, result) ==
    call' = [to |-> {cur_board} \X files, data |-> w, answer |-> result]

NowOpen(f) == open' = [open EXCEPT ![cur_board] = f]
Family == kind[cur_board]
ByteWise == Family \in {"oldpb", "extreg"}
Here == hw[cur_board]

-----------------------------------------------------------------------------
(* Selecting.                                                              *)

PbSelectBoard(b) ==
    /\ cur_board' = b
    /\ Returns(0)
    /\ UNCHANGED <<cur_dds, cur_device, cur_device_addr, num_instructions, kind, hw, open>>

\* A selection that looks for the lower end of the range only.
SelectAnyDds(d) ==
    /\ \/ Family = "usb2" /\ cur_dds' = (IF d >= 0 THEN d ELSE cur_dds) /\ Returns(0)
       \/ Family = "extreg" /\ cur_dds' = 0 /\ Returns(0)
       \/ Family \in {"oldpb", "pcie"} /\ UNCHANGED cur_dds /\ Returns(-1)
    /\ UNCHANGED <<cur_board, cur_device, cur_device_addr, num_instructions, kind, hw, open>>

\* number_of_dds itself is accepted too, and a usb2 board reports no error; a
\* RadioProcessor has the one DDS, and selects it for all boards.
PbSelectDds(d) ==
    /\ \/ /\ Family = "usb2"
          /\ cur_dds' = IF 0 <= d /\ d <= NumDds THEN d ELSE cur_dds
          /\ Returns(0)
       \/ Family = "extreg" /\ cur_dds' = 0 /\ Returns(0)
       \/ Family \in {"oldpb", "pcie"} /\ UNCHANGED cur_dds /\ Returns(-1)
    /\ UNCHANGED <<cur_board, cur_device, cur_device_addr, num_instructions, kind, hw, open>>

-----------------------------------------------------------------------------
(* pb_start_programming.                                                   *)

Dds == IF Family = "usb2" THEN cur_dds ELSE 0

\* A DDS that is not there may be selected.
NoRegisters == Family = "pcie" \/ (Family = "usb2" /\ cur_dds = NumDds)

\* The file a device stands for: the registers of a DDS that is not there are
\* at address 0, which is no file's.
FileOf(device) ==
    IF device = "PULSE_PROGRAM" THEN Program
    ELSE IF NoRegisters THEN Nowhere
    ELSE IF device = "FREQ_REGS" THEN Freq(Dds)
    ELSE Phase(Dds)

\* A start that leaves the instruction counter to run on.
StartKeepsCounter(device) == UNCHANGED num_instructions

ResetCounter(device) ==
    num_instructions' = IF device = "PULSE_PROGRAM" THEN 0 ELSE num_instructions

Started(device, h) ==
    /\ InCall(h)
    /\ NowOpen(FileOf(device))
    /\ cur_device' = device
    /\ cur_device_addr' = 0
    /\ Returns(0)

\* A start that ends early returns the error and leaves the rest as it is.
StartFailed(device, h) ==
    /\ InCall(ForgetFile(h, FileOf(device)))
    /\ NowOpen(Nowhere)
    /\ Returns(-1)
    /\ UNCHANGED <<cur_device, cur_device_addr>>

\* Four writes, of which the last may have arrived although it is reported to
\* have failed; the counter is cleared once the first was acknowledged.
StartOldPb(device) ==
    \/ /\ Started(device, Begin(Latched(Here, FileOf(device), 4), FileOf(device)))
       /\ ResetCounter(device)
    \/ \E k \in 0 .. 4 :
        /\ StartFailed(device, Latched(Here, FileOf(device), k))
        /\ \/ k <= 1 /\ UNCHANGED num_instructions
           \/ k >= 1 /\ ResetCounter(device)

\* Registers that are addressed one by one need no transfer.
StartExtReg(device) ==
    \/ device = "PULSE_PROGRAM" /\ StartOldPb(device)
    \/ /\ device # "PULSE_PROGRAM"
       /\ Started(device, Begin(Here, FileOf(device)))
       /\ UNCHANGED num_instructions

\* Two writes for a program, which fail without effect if the card is not
\* accessible, and none for registers.
StartPcie(device) ==
    /\ ResetCounter(device)
    /\ \/ Started(device, Begin(Here, FileOf(device)))
       \/ device = "PULSE_PROGRAM" /\ StartFailed(device, Here)

\* One address, and success whatever became of it.
StartUsb2(device) ==
    /\ ResetCounter(device)
    /\ \E t \in AddressCall(Tries, FileOf(device)) :
          Started(device, Settled([t EXCEPT !.h = Begin(@, FileOf(device))]))

PbStartProgramming(device) ==
    /\ \/ Family = "oldpb" /\ StartOldPb(device)
       \/ Family = "extreg" /\ StartExtReg(device)
       \/ Family = "pcie" /\ StartPcie(device)
       \/ Family = "usb2" /\ StartUsb2(device)
    /\ UNCHANGED <<cur_board, cur_dds, kind>>

-----------------------------------------------------------------------------
(* Adding a word to the file that is open.                                 *)

Opened == open[cur_board]

\* What is known of the board's files after a word went to it: nothing if it
\* was not being programmed with this kind of word, and nothing of a program
\* that has outgrown its memory, which nothing in the library checks.
Full(h) == h.mem[Opened] # Unknown /\ h.mem[Opened].acked = Size[Opened]

Known(h, here) ==
    IF ~here THEN Forget(h)
    ELSE IF Opened = Program /\ Full(h) /\ "overfull" \in Voids THEN ForgetFile(h, Program)
    ELSE h

Acknowledged(h) ==
    IF Opened \in File /\ h.mem[Opened] # Unknown /\ ~Full(h)
    THEN [h EXCEPT !.mem[Opened].acked = @ + 1]
    ELSE h

\* A word that was reported to have failed cannot be followed by another one:
\* some of its bytes may have come.
Broken(h, here) == InCall(Known(h, here)) /\ NowOpen(Nowhere)

InstFailed(h, here) ==
    /\ Broken(h, here)
    /\ Returns(-1)
    /\ UNCHANGED num_instructions

InstDone(h, here, w) ==
    /\ InCall(Acknowledged(Known(h, here)))
    /\ num_instructions' = num_instructions + 1
    /\ Acknowledges({Program}, w, num_instructions)
    /\ UNCHANGED open

\* A pcie instruction goes to the address that the library's counter gives.
PbInstDirect(w) ==
    /\ num_instructions < MaxInstructions
    /\ LET here == Opened = Program IN
       \/ ByteWise /\ InstDone(Sent(Here, w, BPW), here, w)
       \/ ByteWise /\ \E k \in 0 .. BPW : InstFailed(Sent(Here, w, k), here)
       \/ Family = "pcie" /\ InstDone(Put(Here, Program, num_instructions, w), here, w)
       \/ Family = "pcie" /\ InstFailed(Here, here)
       \/ Family = "usb2" /\ \E t \in DataCall(Tries, w) : InstDone(Settled(t), here, w)
    /\ UNCHANGED <<cur_board, cur_dds, cur_device, cur_device_addr, kind>>

\* An instruction or a frequency that the library refuses.
PbInstRejected ==
    /\ Returns(-1)
    /\ UNCHANGED <<library, hw, open>>

\* The check of a register counter that admits one register too many.
LimitOffByOne(device) == 1 + IF Family = "pcie" THEN 0 ELSE Size[1]

\* The registers of a device that the library believes there are: those of the DDS that is selected now, none on a pcie
\* board, and of phases none unless they are being programmed.
Limit(device) ==
    IF NoRegisters THEN 0
    ELSE IF device = "TX_PHASE_REGS" /\ Family # "usb2" /\ cur_device # device THEN 0
    ELSE Size[FileOf(device)]

RegDone(h, files, w) ==
    /\ InCall(Acknowledged(Known(h, Opened \in files)))
    /\ cur_device_addr' = cur_device_addr + 1
    /\ Acknowledges(files, w, 0)
    /\ UNCHANGED open

RegFailed(h, files) ==
    /\ Broken(h, Opened \in files)
    /\ Returns(-1)
    /\ UNCHANGED cur_device_addr

\* A register for device, whichever device is being programmed.
SetRegister(device, files, w) ==
    /\ \/ /\ cur_device_addr >= Limit(device)
          /\ Returns(-1)
          /\ UNCHANGED <<hw, open, cur_device_addr>>
       \/ /\ cur_device_addr < Limit(device)
          /\ \/ Family = "oldpb" /\ RegDone(Sent(Here, w, BPW), files, w)
             \/ Family = "oldpb" /\ \E k \in 0 .. BPW : RegFailed(Sent(Here, w, k), files)
             \/ Family = "extreg" /\ \E t \in Extended(FileOf(device), w) :
                    RegDone(Settled(t), files, w)
             \/ Family = "usb2" /\ \E t \in DataCall(Tries, w) : RegDone(Settled(t), files, w)
    /\ UNCHANGED <<cur_board, cur_dds, cur_device, num_instructions, kind>>

PbSetFreq(w) == SetRegister("FREQ_REGS", {Freq(d) : d \in 0 .. NumDds - 1}, w)
PbSetPhase(w) == SetRegister("TX_PHASE_REGS", {Phase(d) : d \in 0 .. NumDds - 1}, w)

-----------------------------------------------------------------------------
(* Ending, starting and resetting.                                         *)

Stopped == cur_device' = "none" /\ cur_device_addr' = 0 /\ Returns(0)

\* A usb2 board gets its shape periods after a program, and then address 0.
ShapeCalls(T) ==
    IF cur_device # "PULSE_PROGRAM" THEN T
    ELSE DataCall(AddressCall(DataCall(AddressCall(T, Nowhere), Junk), Nowhere), Junk)

PbStopProgramming ==
    /\ \/ Family = "pcie" /\ InCall(Here) /\ Stopped
       \/ ByteWise /\ InCall([Here EXCEPT !.file = Nowhere]) /\ Stopped
       \/ /\ ByteWise
          /\ \E f \in {Here.file, Nowhere} : InCall([Here EXCEPT !.file = f])
          /\ Returns(-1)
          /\ UNCHANGED <<cur_device, cur_device_addr>>
       \/ /\ Family = "usb2"
          /\ \E t \in AddressCall(ShapeCalls(Tries), Nowhere) : InCall(Settled(t))
          /\ Stopped
    /\ NowOpen(Nowhere)
    /\ UNCHANGED <<cur_board, cur_dds, num_instructions, kind>>

\* The start or stop flag of a usb2 board.
UsbFlag == \E t \in DataCall(AddressCall(Tries, Nowhere), Junk) : OnBoard(Settled(t))

PbStart ==
    /\ \/ Family = "usb2" /\ UsbFlag /\ Returns(0)
       \/ Family # "usb2" /\ (Returns(0) \/ Returns(-1)) /\ UNCHANGED hw
    /\ NowOpen(Nowhere)
    /\ UNCHANGED library

\* pb_stop and pb_reset make the same writes.
PbStop ==
    /\ \/ Family = "usb2" /\ UsbFlag /\ Returns(0)
       \/ Family = "pcie" /\ (Returns(0) \/ Returns(-1)) /\ UNCHANGED hw
       \/ ByteWise /\ OnBoard(Latched(Here, Nowhere, 4)) /\ Returns(0)
       \/ ByteWise /\ (\E k \in 0 .. 4 : OnBoard(Latched(Here, Nowhere, k))) /\ Returns(-1)
    /\ NowOpen(Nowhere)
    /\ UNCHANGED library

-----------------------------------------------------------------------------
Init ==
    /\ cur_board \in Board
    /\ cur_dds = 0
    /\ cur_device = "none"
    /\ cur_device_addr = 0
    /\ num_instructions = 0
    /\ kind \in Machines
    /\ hw = [b \in Board |-> Idle]
    /\ open = [b \in Board |-> Nowhere]
    /\ call = [to |-> {}, data |-> Unknown, answer |-> -1]

Next ==
    \/ \E b \in Board : PbSelectBoard(b)
    \/ \E d \in -1 .. NumDds + 1 : PbSelectDds(d)
    \/ \E device \in Devices[Family] : PbStartProgramming(device)
    \/ \E w \in Datum : PbInstDirect(w)
    \/ PbInstRejected
    \/ \E w \in Datum : PbSetFreq(w)
    \/ \E w \in Datum : PbSetPhase(w)
    \/ PbStopProgramming
    \/ PbStart
    \/ PbStop

Spec == Init /\ [][Next]_vars

-----------------------------------------------------------------------------
(* Properties.                                                             *)

TypeOK ==
    /\ cur_board \in Board
    /\ cur_dds \in 0 .. NumDds
    /\ cur_device \in Device
    /\ cur_device_addr \in Nat
    /\ num_instructions \in 0 .. MaxInstructions
    /\ kind \in Machines
    /\ \A b \in Board :
          /\ \A f \in File : hw[b].mem[f] \in Memory(f)
          /\ hw[b].file \in File \cup {Nowhere}
          /\ hw[b].part \in 0 .. BPW - 1
          /\ open[b] \in File \cup {Nowhere}
    /\ call \in [to : SUBSET (Board \X File), data : Datum \cup {Unknown}, answer : Int]

\* Words go to an address that the library keeps.
ByAddress(b) == kind[b] = "pcie" \/ (kind[b] = "extreg" /\ open[b] # Program)

\* The board that is being programmed is where the library and its user think
\* it is: its hardware takes the next word for the word after the last one that
\* was acknowledged, and the library's counter for the file says so too, though
\* other boards, resets, triggers and failing calls came in between.
Positioned ==
    \A b \in Board :
        (open[b] \in File /\ hw[b].mem[open[b]] # Unknown) =>
            LET acked == hw[b].mem[open[b]].acked IN
            /\ acked = IF open[b] = Program THEN num_instructions ELSE cur_device_addr
            /\ ~ByAddress(b) =>
                  /\ hw[b].file = open[b]
                  /\ hw[b].pos = acked
                  /\ hw[b].part = 0
                  /\ ~hw[b].amode

Contents(m) == IF m = Unknown THEN Unknown ELSE [i \in 1 .. m.acked |-> m.words[i - 1]]

\* What is promised of a board: the words acknowledged since a file was begun
\* are in it, in order and from its start, and the answer to an instruction
\* is its address.
Store == INSTANCE ProgramStore WITH
    Store     <- Board \X File,
    Addressed <- Board \X {Program},
    contents  <- [s \in Board \X File |-> Contents(hw[s[1]].mem[s[2]])]

Implements == Store!StoreSpec

-----------------------------------------------------------------------------
(* What the documentation says and the code does not do; each is the       *)
(* subject of a run with a hazard fewer in Voids that finds it violated.   *)

\* "You may change which board is selected at any time" (spinapi.h), and "the
\* address of the programmed instruction is returned" (dds.h): an instruction
\* for a program that was begun is answered with the number of those before it.
AddressReturned ==
    [][\A b \in Board :
         LET m == hw[b].mem[Program] IN
         (/\ open[b] = Program
          /\ m # Unknown
          /\ hw'[b].mem[Program] # Unknown
          /\ hw'[b].mem[Program].acked = m.acked + 1)
         => call'.answer = m.acked]_vars

\* "A negative number is returned on failure" (spinapi.h, dds.h): a word that
\* was acknowledged is in the board.
AcknowledgedIsStored ==
    \A b \in Board, f \in File :
        LET m == hw[b].mem[f] IN
        m # Unknown => \A i \in 0 .. m.acked - 1 : m.words[i] \in Datum

=============================================================================

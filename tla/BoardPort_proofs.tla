---------------------------- MODULE BoardPort_proofs ----------------------------
(***************************************************************************)
(* pb_outp, pb_inp, usb_read_reg, usb_write_ram and usb_read_ram for any   *)
(* limits of the polls, any size of the RAM and of its blocks, and any     *)
(* number of calls: the types, that a status answered is not an old one,   *)
(* the promise of BytePort, and that the RAM holds what was written.  What *)
(* the proofs say of the code between two accesses is what it knows of the *)
(* board there.                                                            *)
(***************************************************************************)
EXTENDS BoardPort, SequenceTheorems, TLAPS

AmccSteps == {"clear", "send", "poll", "await", "release"}
OldSteps == {"resync", "advance", "nibble", "count"}
RamSteps == {"address", "setup", "write", "blocks", "flush", "flush again"}
UsbSteps == {"word", "load", "read"} \cup RamSteps

Functions == {"none", "pb_outp", "pb_inp", "usb_read_reg", "usb_write_ram", "usb_read_ram"}
Counter == {7, 0, 1, 2}

\* Which step of the code is a step of which call on which board.
Steps ==
    /\ at \in {"idle", "unsupported"} \cup AmccSteps \cup OldSteps \cup UsbSteps
    /\ call.fn \in Functions
    /\ at = "idle" <=> call = NoCall
    /\ at = "idle" <=> call.fn = "none"
    /\ at = "unsupported" => board # "amcc" /\ call.fn = "pb_inp"
    /\ at \in AmccSteps => board = "amcc" /\ call.fn \in {"pb_outp", "pb_inp"}
    /\ at \in {"await", "release"} => call.fn = "pb_inp"
    /\ at \in OldSteps => board = "amcc_old" /\ call.fn = "pb_outp"
    /\ at \in UsbSteps => board = "usb"
    /\ at \in {"word", "load"} => call.fn = "pb_outp"
    /\ at = "read" => call.fn = "usb_read_reg"
    /\ at \in {"address", "setup"} => call.fn \in {"usb_write_ram", "usb_read_ram"}
    /\ at = "write" => call.fn = "usb_write_ram"
    /\ at \in {"blocks", "flush", "flush again"} => call.fn = "usb_read_ram"

CallType ==
    /\ call.port \in Nat
    /\ call.data \in Seq(Nat)
    /\ call.fn = "pb_outp" => call.port \in Port /\ \E b \in Byte : call.data = <<b>>
    /\ call.fn = "usb_write_ram" => call.data \in Seq(Byte)
    /\ call.fn = "usb_read_ram" => Len(call.data) = 1

PortType ==
    /\ board \in Boards /\ calls \in Nat
    /\ ret.value \in {-6, -3, -2, -1, 0} \cup Byte
    /\ status \in Byte /\ seen \subseteq Byte
    /\ call # NoCall => status \in seen
    /\ got \in BOOLEAN /\ failed \in BOOLEAN /\ trust \in BOOLEAN
    /\ log \in Seq([port : 0 .. 9, data : 0 .. 9])

ChipState ==
    [out : -1 .. 9, taken : BOOLEAN, word : -1 .. 9, role : {"address", "data"},
     port : 0 .. 9, recv : {0, 1}, reading : BOOLEAN, ready : BOOLEAN, ack : BOOLEAN,
     incoming : {0} \cup Byte, tag : {NoWord, 3} \cup Counter, bits : {0, 1},
     counter : Counter, high : {0, 1}]

\* The words of the call that are still to be sent.
Sending ==
    IF call.fn = "pb_outp" THEN todo = <<To(call.port, call.data[1])>>
    ELSE todo \in {<<To(ReadAddress, 0), To(ReadCycle, 0)>>, <<To(ReadCycle, 0)>>}

AmccType ==
    /\ chip \in ChipState
    /\ chip.ready => chip.incoming \in Byte
    /\ Len(todo) <= 2
    /\ half \in {"address", "data", "over"}
    /\ error \in BOOLEAN
    /\ at \in {"clear", "send", "poll"} => Sending
    /\ at \in {"send", "poll"} => half # "over"
    /\ at \in {"send", "poll"} => start \in {0, 1}
    /\ at = "release" => start \in Byte
    /\ at = "advance" => start \in Counter
    /\ nibble \in 0 .. 4
    /\ at \in {"resync", "advance"} => nibble = 0
    /\ at = "nibble" => nibble # 4
    /\ at = "count" => nibble # 0

\* Every wait has a limit of its own.
Limits ==
    /\ \E limit \in {MaxRecv, MaxResync + 1, MaxCount + 1} : n \in 0 .. limit
    /\ at \in {"poll", "await", "release"} => n < MaxRecv
    /\ at = "resync" => n <= MaxResync
    /\ at = "advance" => n <= MaxResync + 1
    /\ at = "nibble" => n = 0
    /\ at = "count" => n <= MaxCount

DevState ==
    [enabled : BOOLEAN, addr : 0 .. 15, core : Nat, line : Nat, lead : BOOLEAN,
     ram : [0 .. Lines - 1 -> Nat], fifo : Seq(Nat) \X Seq(Nat)]

UsbType ==
    /\ dev \in DevState
    /\ inbuf \in Seq(Seq(Nat))
    /\ at \in UsbSteps => result \in {0, -1}

-----------------------------------------------------------------------------
(* USB: the transfers of a step, and what k of them have done.             *)

Transfers ==
    CASE at = "word" -> WriteReg(Core, CoreWord(call.port, call.data[1], 0))
      [] at = "load" -> WriteReg(Core, CoreWord(call.port, call.data[1], 1))
      [] at = "address" -> WriteReg(RamAddress, call.port)
      [] at = "setup" -> SetupXfer(DataRam)
      [] at = "write" -> Pieces(call.data)
      [] at = "blocks" ->
            Repeat(NumXfers + 2 + (IF Excess = 0 THEN 0 ELSE 1), <<ControlByte(FALSE), In>>)
            \o <<In, In>>
      [] OTHER -> ReadReg(Control)

\* usb_write_address: enabled, written, disabled.
Addressing(d, address, k) ==
    /\ k \in {1, 2} => d.enabled
    /\ k \in {2, 3, 4} => d.addr = address
    /\ k \in {3, 4} => ~d.enabled

\* A block fetched since the call began.
Fresh(block) == \E s \in seen : block = <<s>>

Progress(k) ==
    /\ at = "word" => Addressing(dev, Core, k) /\ ~got
    /\ at = "word" /\ k = 4 => LoadFlag(dev.core) = 0
    /\ at = "load" => Addressing(dev, Core, k) /\ (got <=> k = 4)
    /\ at = "load" /\ k < 4 => LoadFlag(dev.core) = 0
    /\ at = "address" => Addressing(dev, RamAddress, k)
    /\ at = "read" =>
          /\ Addressing(dev, Control, k % 4)
          /\ k >= 4 => Fresh(dev.fifo[2])
          /\ k >= 8 => Fresh(dev.fifo[1])
          /\ k >= 12 => Len(inbuf) > 0 /\ Fresh(inbuf[Len(inbuf)])

UsbSync ==
    /\ at \notin UsbSteps => pending = <<>>
    /\ at \in UsbSteps =>
        /\ result = -1 => pending = <<>>
        /\ result = 0 =>
              \E k \in 0 .. Len(Transfers) :
                  pending = SubSeq(Transfers, k + 1, Len(Transfers)) /\ Progress(k)

-----------------------------------------------------------------------------
(* AMCC: what the library and the controller agree on as long as no wait   *)
(* was given up.                                                           *)

Settled == chip.word = NoWord /\ (chip.out = NoWord \/ chip.taken)
Asleep == ~chip.reading /\ ~chip.ready

\* The word being sent, and that the controller waits for it.
Sent == IF half = "address" THEN Head(todo).port ELSE Head(todo).data
Waiting ==
    /\ chip.role = half /\ Asleep
    /\ half = "data" => chip.port = Head(todo).port

\* The controller has got both words: those of ReadCycle make it read.
Done ==
    /\ chip.role = "address"
    /\ IF Head(todo).port = ReadCycle THEN chip.reading <=> ~chip.ready ELSE Asleep

Handshake ==
    /\ at = "idle" => Settled /\ chip.role = "address" /\ Asleep
    /\ at = "clear" /\ half = "address" => Settled /\ Waiting
    /\ at = "clear" /\ half = "data" => Settled /\ Waiting /\ ~chip.ack
    /\ at = "clear" /\ half = "over" => Settled /\ Done /\ ~chip.ack
    /\ at = "send" =>
          Waiting /\ chip.out = NoWord /\ chip.word = NoWord /\ start = chip.recv /\ ~chip.ack
    /\ at = "poll" =>
          /\ ~chip.ack
          /\ chip.recv = start =>
                /\ Waiting /\ chip.out = Sent
                /\ chip.word = IF chip.taken THEN Sent ELSE NoWord
          /\ chip.recv # start =>
                /\ Settled
                /\ half = "address" => chip.role = "data" /\ chip.port = Head(todo).port /\ Asleep
                /\ half = "data" => Done
    /\ at = "await" =>
          Settled /\ chip.role = "address" /\ (chip.reading <=> ~chip.ready) /\ ~chip.ack
    /\ at = "release" => Settled /\ chip.role = "address" /\ ~chip.reading /\ start \in seen
    /\ chip.ready => chip.incoming \in seen
    /\ at \in {"clear", "send", "poll"} /\ call.fn = "pb_outp" =>
          (got <=> (half = "over" \/ (at = "poll" /\ half = "data" /\ chip.recv # start)))

AmccSync == board = "amcc" /\ trust => Handshake

-----------------------------------------------------------------------------
(* Older AMCC boards: the nibble that is counted next.                     *)

\* The controller waits for the nibble i, which has come or not.
Counting(i) ==
    /\ chip.counter = Expected[i]
    /\ chip.tag \in {NoWord, Nibbles[i][1]}
    /\ chip.tag # NoWord => chip.bits = Nibbles[i][2]
    /\ i >= 3 => chip.port = call.port
    /\ i = 4 => chip.high = call.data[1] \div 2
    /\ ~got

\* All nibbles have been counted.
Counted == chip.counter = 7 /\ chip.tag = NoWord /\ got

\* The first nibble has been counted, and perhaps its tag is there once more:
\* what was left of a failed call was counted in its place.
CountedFirst ==
    chip.counter = 0 /\ chip.tag \in {NoWord, 3} /\ ~got

Counts ==
    /\ ~failed /\ at \in {"idle", "unsupported", "resync"} => chip.counter = 7 /\ chip.tag = NoWord
    /\ at = "advance" => failed
    /\ at \in {"resync", "advance"} => ~got
    /\ at = "nibble" =>
          /\ chip.tag # NoWord => failed \/ nibble = 1
          /\ nibble = 0 => ~got /\ (chip.counter = 7 \/ (chip.counter = 0 /\ chip.tag = NoWord))
          /\ nibble = 1 => CountedFirst
          /\ nibble \in {2, 3} => chip.tag = NoWord /\ Counting(nibble + 1)
    /\ at = "count" =>
          \/ nibble = 1 /\ (CountedFirst \/ (chip.tag = 3 /\ chip.counter = 7 /\ ~got))
          \/ nibble \in {2, 3, 4} /\ chip.tag # NoWord /\ Counting(nibble)
          \/ nibble \in {2, 3} /\ chip.tag = NoWord /\ Counting(nibble + 1)
          \/ nibble = 4 /\ Counted

\* The other kinds of boards leave each part of the controller alone.
OldSync ==
    /\ board # "amcc_old" => chip.tag = NoWord
    /\ board # "amcc" => chip.out = NoWord /\ chip.word = NoWord /\ Asleep
    /\ board = "amcc_old" => Counts

TypeInv == Steps /\ CallType /\ PortType /\ AmccType /\ Limits /\ UsbType
Base == TypeInv /\ UsbSync /\ OldSync

\* Where it is looked whether a wait was given up.
Inv == Base /\ AmccSync /\ ReadIsFresh

-----------------------------------------------------------------------------
(* The types: the controller and the library's steps towards it.           *)

USE AmccAssumption, UsbAssumption, BoardsAssumption

LogType == log \in Seq([port : 0 .. 9, data : 0 .. 9])

LEMMA ChipTypes ==
    ASSUME TypeInv, Quiet, UNCHANGED usbVars,
           chip' \in ChipState, chip'.ready => chip'.incoming \in Byte,
           LogType', got' \in BOOLEAN
    PROVE  TypeInv'
<1>1. AmccType'
  BY DEF TypeInv, AmccType, Sending, Quiet, locals
<1>2. PortType'
  BY DEF TypeInv, PortType, LogType, Quiet, locals
<1>3. Steps' /\ CallType' /\ UsbType'
  BY DEF TypeInv, Steps, CallType, UsbType, Quiet, locals, usbVars
<1>4. Limits'
  BY DEF TypeInv, Limits, Quiet, locals
<1>. QED
  BY <1>1, <1>2, <1>3, <1>4 DEF TypeInv

LEMMA DeliveredType ==
    ASSUME LogType, got \in BOOLEAN, NEW byte \in [port : 0 .. 9, data : 0 .. 9],
           NEW mine \in BOOLEAN, Delivered(byte, mine)
    PROVE  LogType' /\ got' \in BOOLEAN
BY DEF LogType, Delivered

LEMMA ChipFields ==
    ASSUME TypeInv
    PROVE  /\ chip \in ChipState /\ (chip.ready => chip.incoming \in Byte)
           /\ LogType /\ got \in BOOLEAN /\ status \in Byte
BY DEF TypeInv, AmccType, PortType, LogType

LEMMA ChipNextType ==
    ASSUME TypeInv, ChipNext, UNCHANGED usbVars
    PROVE  TypeInv'
<1>. USE ChipFields
<1>1. CASE ChipTake
  <2>1. chip' \in ChipState /\ (chip'.ready => chip'.incoming \in Byte)
    BY <1>1 DEF ChipState, ChipTake
  <2>2. LogType' /\ got' \in BOOLEAN /\ Quiet
    BY <1>1 DEF ChipTake, LogType
  <2>. QED
    BY <2>1, <2>2, ChipTypes
<1>2. CASE ChipToggle
  <2>. DEFINE done == [chip EXCEPT !.word = NoWord, !.recv = 1 - @,
                                   !.role = IF @ = "address" THEN "data" ELSE "address"]
  <2>4. done \in ChipState /\ done.ready = chip.ready /\ done.incoming = chip.incoming
    <3>1. /\ 1 - chip.recv \in {0, 1} /\ NoWord \in -1 .. 9
          /\ (IF chip.role = "address" THEN "data" ELSE "address") \in {"address", "data"}
      BY DEF ChipState, NoWord
    <3>2. \A w \in -1 .. 9, v \in {0, 1}, o \in {"address", "data"} :
              LET c == [chip EXCEPT !.word = w, !.recv = v, !.role = o]
              IN  c \in ChipState /\ c.ready = chip.ready /\ c.incoming = chip.incoming
      BY DEF ChipState
    <3>. QED
      BY <3>1, <3>2
  <2>5. chip.word \in 0 .. 9 /\ chip.port \in 0 .. 9
    BY <1>2 DEF ChipState, ChipToggle, NoWord
  <2>6. chip' \in {done, [done EXCEPT !.port = chip.word], [done EXCEPT !.reading = TRUE]}
    BY <1>2 DEF ChipToggle
  <2>7. /\ [done EXCEPT !.port = chip.word] \in ChipState
        /\ [done EXCEPT !.port = chip.word].ready = done.ready
        /\ [done EXCEPT !.port = chip.word].incoming = done.incoming
        /\ [done EXCEPT !.reading = TRUE] \in ChipState
        /\ [done EXCEPT !.reading = TRUE].ready = done.ready
        /\ [done EXCEPT !.reading = TRUE].incoming = done.incoming
    <3>. HIDE DEF done
    <3>. QED
      BY <2>4, <2>5 DEF ChipState
  <2>1. chip' \in ChipState /\ (chip'.ready => chip'.incoming \in Byte)
    <3>. HIDE DEF done
    <3>. QED
      BY <2>4, <2>5, <2>6, <2>7
  <2>2. LogType' /\ got' \in BOOLEAN
    <3>1. CASE UNCHANGED <<got, log>>
      BY <3>1 DEF LogType
    <3>2. CASE Delivered([port |-> chip.port, data |-> chip.word], Mine)
      <4>1. [port |-> chip.port, data |-> chip.word] \in [port : 0 .. 9, data : 0 .. 9]
        BY <2>5
      <4>2. Mine \in BOOLEAN
        BY DEF Mine
      <4>. QED
        BY <3>2, <4>1, <4>2, DeliveredType
    <3>. QED
      BY <1>2, <3>1, <3>2 DEF ChipToggle
  <2>3. Quiet
    BY <1>2 DEF ChipToggle
  <2>. QED
    BY <2>1, <2>2, <2>3, ChipTypes
<1>3. CASE ChipReady
  <2>1. chip' \in ChipState /\ (chip'.ready => chip'.incoming \in Byte)
    BY <1>3 DEF ChipState, ChipReady
  <2>2. LogType' /\ got' \in BOOLEAN /\ Quiet
    BY <1>3 DEF ChipReady, LogType
  <2>. QED
    BY <2>1, <2>2, ChipTypes
<1>4. CASE ChipRelease
  <2>1. chip' \in ChipState /\ (chip'.ready => chip'.incoming \in Byte)
    BY <1>4 DEF ChipState, ChipRelease
  <2>2. LogType' /\ got' \in BOOLEAN /\ Quiet
    BY <1>4 DEF ChipRelease, LogType
  <2>. QED
    BY <2>1, <2>2, ChipTypes
<1>5. CASE ChipCount
  <2>1. chip' \in ChipState /\ (chip'.ready => chip'.incoming \in Byte)
    <3>. DEFINE read == [chip EXCEPT !.tag = NoWord]
    <3>1. read \in ChipState /\ read.ready = chip.ready /\ read.incoming = chip.incoming
      BY DEF ChipState
    <3>2. chip.bits \in {0, 1} /\ chip.bits \in 0 .. 9
      BY DEF ChipState
    <3>3. chip' \in {read, [read EXCEPT !.counter = 7], [read EXCEPT !.counter = 0],
                     [read EXCEPT !.counter = 1, !.port = chip.bits],
                     [read EXCEPT !.counter = 2, !.high = chip.bits]}
      BY <1>5 DEF ChipCount, ChipState, Counter
    <3>. HIDE DEF read
    <3>4. \A d \in Counter : [read EXCEPT !.counter = d] \in ChipState
                          /\ [read EXCEPT !.counter = d].ready = read.ready
                          /\ [read EXCEPT !.counter = d].incoming = read.incoming
      BY <3>1 DEF ChipState
    <3>5. LET c == [read EXCEPT !.counter = 1, !.port = chip.bits]
          IN  c \in ChipState /\ c.ready = read.ready /\ c.incoming = read.incoming
      BY <3>1, <3>2 DEF ChipState, Counter
    <3>6. LET c == [read EXCEPT !.counter = 2, !.high = chip.bits]
          IN  c \in ChipState /\ c.ready = read.ready /\ c.incoming = read.incoming
      BY <3>1, <3>2 DEF ChipState, Counter
    <3>. QED
      BY <3>1, <3>3, <3>4, <3>5, <3>6 DEF Counter
  <2>2. LogType' /\ got' \in BOOLEAN
    <3>1. CASE UNCHANGED <<got, log>>
      BY <3>1 DEF LogType
    <3>2. CASE Delivered([port |-> chip.port, data |-> 2 * chip.high + chip.bits],
                         at = "count" /\ nibble = 4)
      <4>1. [port |-> chip.port, data |-> 2 * chip.high + chip.bits]
                \in [port : 0 .. 9, data : 0 .. 9]
        BY DEF ChipState
      <4>2. (at = "count" /\ nibble = 4) \in BOOLEAN
        OBVIOUS
      <4>. QED
        BY <3>2, <4>1, <4>2, DeliveredType
    <3>. QED
      BY <1>5, <3>1, <3>2 DEF ChipCount
  <2>3. Quiet
    BY <1>5 DEF ChipCount
  <2>. QED
    BY <2>1, <2>2, <2>3, ChipTypes
<1>. QED
  BY <1>1, <1>2, <1>3, <1>4, <1>5 DEF ChipNext

Kept == UNCHANGED <<got, log>> /\ trust' \in BOOLEAN

LEMMA TrustType ==
    ASSUME trust \in BOOLEAN, NEW hazard, Distrusted(hazard) \/ UNCHANGED trust
    PROVE  trust' \in BOOLEAN
BY DEF Distrusted

LEMMA GotoTypes ==
    ASSUME TypeInv, NEW l, l # "idle", at # "idle", Goto(l), Kept
    PROVE  CallType' /\ PortType'
BY DEF TypeInv, Steps, CallType, PortType, Goto, Kept

LEMMA ReturnTypes ==
    ASSUME TypeInv, NEW value \in {-6, -3, -2, -1, 0} \cup Byte, Return(value), Kept
    PROVE  Steps' /\ CallType' /\ PortType'
<1>1. Steps' /\ CallType'
  BY DEF Steps, CallType, Return, NoCall, Functions, AmccSteps, OldSteps, UsbSteps, RamSteps
<1>2. PortType'
  <2>1. failed' \in BOOLEAN
    <3>1. (value < 0) \in BOOLEAN /\ failed \in BOOLEAN
      BY DEF TypeInv, PortType
    <3>. QED
      BY <3>1, Zenon DEF Return
  <2>2. ret'.value = value
    BY DEF Return
  <2>. QED
    BY <2>1, <2>2 DEF TypeInv, PortType, Return, Kept
<1>. QED
  BY <1>1, <1>2

LEMMA BeginTypes ==
    ASSUME TypeInv, NEW fn \in Functions \ {"none"}, NEW port \in Nat, NEW data \in Seq(Nat),
           NEW first, Begin(fn, port, data, first), first # "idle",
           fn = "pb_outp" => port \in Port /\ \E b \in Byte : data = <<b>>,
           fn = "usb_write_ram" => data \in Seq(Byte),
           fn = "usb_read_ram" => Len(data) = 1
    PROVE  CallType' /\ PortType'
<1>1. CallType'
  BY DEF CallType, Begin
<1>2. PortType'
  BY DEF TypeInv, PortType, Begin
<1>. QED
  BY <1>1, <1>2

LEMMA AmccOutpType ==
    ASSUME TypeInv, AmccOutp, UNCHANGED usbVars
    PROVE  TypeInv'
<1>1. PICK p \in Port, b \in Byte : Begin("pb_outp", p, <<b>>, "clear") /\ todo' = <<To(p, b)>>
  BY DEF AmccOutp
<1>2. CallType' /\ PortType'
  <2>1. p \in Nat /\ <<b>> \in Seq(Nat)
    BY DEF Port, Byte
  <2>. QED
    BY <1>1, <2>1, BeginTypes DEF Functions
<1>3. Steps'
  BY <1>1 DEF AmccOutp, Steps, Begin, NoCall, Functions, AmccSteps, OldSteps, UsbSteps, RamSteps
<1>4. AmccType'
  <2>1. Len(todo') = 1
    BY <1>1
  <2>2. Sending'
    BY <1>1 DEF Begin, Sending
  <2>. QED
    <3>1. chip' = chip /\ nibble' = nibble /\ half' = "address" /\ at' = "clear"
      BY <1>1 DEF AmccOutp, Begin
    <3>4. error' \in BOOLEAN
      BY DEF AmccOutp
    <3>2. /\ chip' \in ChipState
          /\ chip'.ready => chip'.incoming \in Byte
      BY <3>1 DEF TypeInv, AmccType
    <3>3. nibble' \in 0 .. 4
      BY <3>1 DEF TypeInv, AmccType
    <3>. QED
      BY <2>1, <2>2, <3>1, <3>2, <3>3, <3>4 DEF AmccType
<1>5. Limits' /\ UsbType'
  BY <1>1 DEF AmccOutp, TypeInv, Limits, UsbType, Begin, usbVars, UsbSteps, RamSteps
<1>. QED
  BY <1>2, <1>3, <1>4, <1>5 DEF TypeInv

LEMMA AmccInpType ==
    ASSUME TypeInv, AmccInp, UNCHANGED usbVars
    PROVE  TypeInv'
<1>1. CallType' /\ PortType'
  <2>1. <<>> \in Seq(Nat)
    OBVIOUS
  <2>. QED
    BY <2>1, BeginTypes DEF Functions, AmccInp
<1>3. Steps'
  BY DEF AmccInp, Steps, Begin, NoCall, Functions, AmccSteps, OldSteps, UsbSteps, RamSteps
<1>4. AmccType'
  <2>1. Len(todo') = 2
    BY DEF AmccInp
  <2>2. Sending'
    BY DEF AmccInp, Begin, Sending
  <2>. QED
    <3>1. chip' = chip /\ nibble' = nibble /\ half' = "address" /\ at' = "clear"
      BY DEF AmccInp, Begin
    <3>4. error' \in BOOLEAN
      BY DEF AmccInp
    <3>2. /\ chip' \in ChipState
          /\ chip'.ready => chip'.incoming \in Byte
      BY <3>1 DEF TypeInv, AmccType
    <3>3. nibble' \in 0 .. 4
      BY <3>1 DEF TypeInv, AmccType
    <3>. QED
      BY <2>1, <2>2, <3>1, <3>2, <3>3, <3>4 DEF AmccType
<1>5. Limits' /\ UsbType'
  BY DEF AmccInp, TypeInv, Limits, UsbType, Begin, usbVars, UsbSteps, RamSteps
<1>. QED
  BY <1>1, <1>3, <1>4, <1>5 DEF TypeInv

LEMMA OldOutpType ==
    ASSUME TypeInv, OldOutp, UNCHANGED usbVars
    PROVE  TypeInv'
<1>1. PICK p \in Port, b \in Byte : Begin("pb_outp", p, <<b>>, "resync")
  BY DEF OldOutp
<1>2. CallType' /\ PortType'
  <2>1. p \in Nat /\ <<b>> \in Seq(Nat)
    BY DEF Port, Byte
  <2>. QED
    BY <1>1, <2>1, BeginTypes DEF Functions
<1>3. Steps'
  BY <1>1 DEF OldOutp, Steps, Begin, NoCall, Functions, AmccSteps, OldSteps, UsbSteps, RamSteps
<1>4. AmccType'
  BY <1>1 DEF OldOutp, TypeInv, AmccType, Begin, Sending, To
<1>5. Limits' /\ UsbType'
  <2>1. 0 \in 0 .. MaxRecv /\ 0 <= MaxResync
    OBVIOUS
  <2>. QED
    BY <1>1, <2>1 DEF OldOutp, TypeInv, Limits, UsbType, Begin, usbVars, UsbSteps, RamSteps
<1>. QED
  BY <1>2, <1>3, <1>4, <1>5 DEF TypeInv

LEMMA ClearedType ==
    ASSUME chip \in ChipState
    PROVE  /\ Cleared \in ChipState
           /\ Cleared = [chip EXCEPT !.out = -1, !.taken = FALSE, !.ack = FALSE]
           /\ Cleared.ready = chip.ready /\ Cleared.incoming = chip.incoming
           /\ Cleared.recv = chip.recv
<1>1. \A o \in -1 .. 9, t \in BOOLEAN, a \in BOOLEAN :
          LET c == [chip EXCEPT !.out = o, !.taken = t, !.ack = a]
          IN  c \in ChipState /\ c.ready = chip.ready /\ c.incoming = chip.incoming
                /\ c.recv = chip.recv
  BY DEF ChipState
<1>2. Cleared = [chip EXCEPT !.out = -1, !.taken = FALSE, !.ack = FALSE]
  BY DEF Cleared, NoWord
<1>3. -1 \in -1 .. 9 /\ FALSE \in BOOLEAN
  OBVIOUS
<1>. QED
  BY <1>1, <1>2, <1>3, Zenon

LEMMA ClearXferType ==
    ASSUME TypeInv, ClearXfer, UNCHANGED usbVars
    PROVE  TypeInv'
<1>1. CallType' /\ PortType'
  BY GotoTypes DEF ClearXfer, Kept, TypeInv, PortType
<1>2. Steps'
  BY DEF ClearXfer, TypeInv, Steps, Goto, AmccSteps, OldSteps, UsbSteps, RamSteps
<1>3. chip' \in ChipState /\ chip'.ready = chip.ready /\ chip'.incoming = chip.incoming
  BY ClearedType DEF ClearXfer, TypeInv, AmccType
<1>4. chip.recv \in {0, 1}
  BY DEF TypeInv, AmccType, ChipState
<1>5. AmccType'
  BY <1>3, <1>4 DEF ClearXfer, TypeInv, AmccType, Goto, Sending, AmccSteps
<1>6. Limits' /\ UsbType'
  BY DEF ClearXfer, TypeInv, Limits, UsbType, Goto, usbVars, UsbSteps, RamSteps
<1>. QED
  BY <1>1, <1>2, <1>5, <1>6 DEF TypeInv

LEMMA OutpEndsType ==
    ASSUME TypeInv, OutpEnds, UNCHANGED usbVars
    PROVE  TypeInv'
<1>1. Steps' /\ CallType' /\ PortType'
  BY ReturnTypes DEF OutpEnds, Kept, TypeInv, PortType
<1>2. chip' \in ChipState /\ chip'.ready = chip.ready /\ chip'.incoming = chip.incoming
  BY ClearedType DEF OutpEnds, TypeInv, AmccType
<1>3. AmccType'
  BY <1>2 DEF OutpEnds, TypeInv, AmccType, Return, locals
<1>4. Limits' /\ UsbType'
  BY DEF OutpEnds, TypeInv, Limits, UsbType, Return, usbVars, UsbSteps, RamSteps, locals
<1>. QED
  BY <1>1, <1>3, <1>4 DEF TypeInv

LEMMA InpGoesOnType ==
    ASSUME TypeInv, InpGoesOn, UNCHANGED usbVars
    PROVE  TypeInv'
<1>1. CallType' /\ PortType'
  BY GotoTypes DEF InpGoesOn, Kept, TypeInv, PortType
<1>2. Steps'
  BY DEF InpGoesOn, TypeInv, Steps, Goto, AmccSteps, OldSteps, UsbSteps, RamSteps
<1>3. chip' \in ChipState /\ chip'.ready = chip.ready /\ chip'.incoming = chip.incoming
  BY ClearedType DEF InpGoesOn, TypeInv, AmccType
<1>4. \/ Len(todo) = 2 /\ todo' = <<To(ReadCycle, 0)>> /\ Len(todo') = 1
      \/ Len(todo) = 1 /\ todo' = <<>> /\ Len(todo') = 0
  <2>1. todo \in {<<To(ReadAddress, 0), To(ReadCycle, 0)>>, <<To(ReadCycle, 0)>>}
    BY DEF InpGoesOn, TypeInv, AmccType, Sending
  <2>2. CASE todo = <<To(ReadAddress, 0), To(ReadCycle, 0)>>
    <3>1. Len(todo) = 2 /\ Tail(todo) = <<To(ReadCycle, 0)>>
      BY <2>2
    <3>. QED
      BY <3>1 DEF InpGoesOn
  <2>3. CASE todo = <<To(ReadCycle, 0)>>
    <3>1. Len(todo) = 1 /\ Tail(todo) = <<>>
      BY <2>3
    <3>. QED
      BY <3>1 DEF InpGoesOn
  <2>. QED
    BY <2>1, <2>2, <2>3
<1>5. AmccType'
  <2>1. at' = "clear" => Sending'
    BY <1>4 DEF InpGoesOn, Goto, Sending
  <2>. QED
    <3>1. /\ nibble' = nibble /\ half' = "address" /\ at' \in {"clear", "await"}
          /\ Len(todo') <= 2
      BY <1>4 DEF InpGoesOn, Goto
    <3>2. error' \in BOOLEAN
      BY DEF InpGoesOn
    <3>3. /\ chip' \in ChipState
          /\ chip'.ready => chip'.incoming \in Byte
      BY <1>3 DEF TypeInv, AmccType
    <3>4. nibble' \in 0 .. 4
      BY <3>1 DEF TypeInv, AmccType
    <3>. QED
      BY <2>1, <3>1, <3>2, <3>3, <3>4 DEF AmccType
<1>6. Limits' /\ UsbType'
  <2>1. 0 \in 0 .. MaxRecv /\ 0 < MaxRecv
    OBVIOUS
  <2>. QED
    BY <2>1 DEF InpGoesOn, TypeInv, Limits, UsbType, Goto, usbVars, UsbSteps, RamSteps
<1>. QED
  BY <1>1, <1>2, <1>5, <1>6 DEF TypeInv

\* What is sent is a word.
LEMMA SentType ==
    ASSUME TypeInv, at \in {"clear", "send", "poll"}, half \in {"address", "data"}
    PROVE  Head(todo).port \in 0 .. 9 /\ Head(todo).data \in 0 .. 9
<1>1. CASE call.fn = "pb_outp"
  <2>1. PICK b \in Byte : call.data = <<b>> /\ call.port \in Port
    BY <1>1 DEF TypeInv, CallType
  <2>2. todo = <<To(call.port, b)>>
    BY <1>1, <2>1 DEF TypeInv, AmccType, Sending
  <2>. QED
    BY <2>1, <2>2 DEF To, Port, Byte
<1>2. CASE call.fn # "pb_outp"
  BY <1>2 DEF TypeInv, AmccType, Sending, To, ReadAddress, ReadCycle
<1>. QED
  BY <1>1, <1>2

LEMMA SendWordType ==
    ASSUME TypeInv, SendWord, UNCHANGED usbVars
    PROVE  TypeInv'
<1>1. CallType' /\ PortType'
  BY GotoTypes DEF SendWord, Kept, TypeInv, PortType
<1>2. Steps'
  BY DEF SendWord, TypeInv, Steps, Goto, AmccSteps, OldSteps, UsbSteps, RamSteps
<1>3. chip' \in ChipState /\ chip'.ready = chip.ready /\ chip'.incoming = chip.incoming
  <2>1. half \in {"address", "data"}
    BY DEF SendWord, TypeInv, AmccType
  <2>2. Head(todo)[IF half = "address" THEN "port" ELSE "data"] \in -1 .. 9
    <3>1. Head(todo).port \in -1 .. 9 /\ Head(todo).data \in -1 .. 9
      BY <2>1, SentType DEF SendWord
    <3>. QED
      BY <3>1
  <2>. QED
    BY <2>2 DEF SendWord, TypeInv, AmccType, ChipState
<1>5. AmccType'
  BY <1>3 DEF SendWord, TypeInv, AmccType, Goto, Sending
<1>6. Limits' /\ UsbType'
  <2>1. 0 \in 0 .. MaxRecv /\ 0 < MaxRecv
    OBVIOUS
  <2>. QED
    BY <2>1 DEF SendWord, TypeInv, Limits, UsbType, Goto, usbVars, UsbSteps, RamSteps
<1>. QED
  BY <1>1, <1>2, <1>5, <1>6 DEF TypeInv

LEMMA PollWordType ==
    ASSUME TypeInv, PollWord, UNCHANGED usbVars
    PROVE  TypeInv'
<1>1. trust' \in BOOLEAN
  BY TrustType DEF PollWord, TypeInv, PortType
<1>2. CallType' /\ PortType'
  <2>1. PICK l \in {"clear", "poll"} : Goto(l)
    BY DEF PollWord
  <2>. QED
    BY <1>1, <2>1, GotoTypes DEF PollWord, Kept
<1>3. Steps'
  BY DEF PollWord, TypeInv, Steps, Goto, AmccSteps, OldSteps, UsbSteps, RamSteps
<1>4. AmccType'
  <2>1. /\ chip' = chip /\ nibble' = nibble /\ todo' = todo /\ start' = start
        /\ half' \in {"address", "data", "over"} /\ at' \in {"clear", "poll"}
        /\ at' = "poll" => half' = half
    BY DEF PollWord, Goto, Following, TypeInv, AmccType
  <2>2. error' \in BOOLEAN
    BY DEF PollWord, TypeInv, AmccType
  <2>3. Sending'
    BY DEF PollWord, Goto, Sending, TypeInv, AmccType
  <2>4. at = "poll"
    BY DEF PollWord
  <2>. QED
    BY <2>1, <2>2, <2>3, <2>4 DEF TypeInv, AmccType
<1>5. Limits'
  <2>1. n \in Nat /\ n < MaxRecv /\ at = "poll"
    BY DEF PollWord, TypeInv, Limits
  <2>2. at' \in {"clear", "poll"} /\ n' \in {n, n + 1} /\ (at' = "poll" => n' # MaxRecv)
    BY DEF PollWord, Goto
  <2>3. n' \in 0 .. MaxRecv /\ (at' = "poll" => n' < MaxRecv)
    BY <2>1, <2>2
  <2>. QED
    BY <2>2, <2>3 DEF Limits
<1>6. UsbType'
  BY DEF PollWord, TypeInv, UsbType, Goto, usbVars, UsbSteps, RamSteps
<1>. QED
  BY <1>2, <1>3, <1>4, <1>5, <1>6 DEF TypeInv

LEMMA AwaitByteType ==
    ASSUME TypeInv, AwaitByte, UNCHANGED usbVars
    PROVE  TypeInv'
<1>1. trust' \in BOOLEAN
  BY TrustType DEF AwaitByte, Failed, TypeInv, PortType
<1>2. n \in Nat /\ n < MaxRecv /\ at = "await"
  BY DEF AwaitByte, TypeInv, Limits
<1>3. error' \in BOOLEAN /\ UNCHANGED <<todo, half, nibble, got, log>>
  BY DEF AwaitByte, TypeInv, AmccType
<1>4. UsbType'
  BY DEF AwaitByte, TypeInv, UsbType, Goto, Failed, Return, usbVars, UsbSteps, RamSteps
<1>5. CASE chip.ready
  <2>1. Goto("release") /\ start' = chip.incoming /\ n' = 0 /\ chip' = [chip EXCEPT !.ack = ~@]
    BY <1>5 DEF AwaitByte
  <2>2. CallType' /\ PortType'
    BY <1>1, <1>2, <1>3, <2>1, GotoTypes DEF Kept
  <2>3. Steps'
    BY <1>2, <2>1 DEF TypeInv, Steps, Goto, AmccSteps, OldSteps, UsbSteps, RamSteps
  <2>4. chip' \in ChipState /\ chip'.ready = chip.ready /\ chip'.incoming = chip.incoming
    BY <2>1 DEF TypeInv, AmccType, ChipState
  <2>5. AmccType'
    <3>1. at' = "release" /\ start' \in Byte
      BY <1>5, <2>1 DEF Goto, TypeInv, AmccType
    <3>2. chip'.ready => chip'.incoming \in Byte
      BY <2>4 DEF TypeInv, AmccType
    <3>. QED
      BY <1>3, <2>4, <3>1, <3>2 DEF TypeInv, AmccType
  <2>6. Limits'
    <3>1. 0 \in 0 .. MaxRecv /\ 0 < MaxRecv
      OBVIOUS
    <3>. QED
      BY <2>1, <3>1 DEF Goto, Limits
  <2>. QED
    BY <1>4, <2>2, <2>3, <2>5, <2>6 DEF TypeInv
<1>6. CASE ~chip.ready /\ n' # MaxRecv
  <2>1. Goto("await") /\ UNCHANGED <<start, chip>> /\ n' = n + 1
    BY <1>6 DEF AwaitByte
  <2>2. CallType' /\ PortType'
    BY <1>1, <1>2, <1>3, <2>1, GotoTypes DEF Kept
  <2>3. Steps'
    BY <1>2, <2>1 DEF TypeInv, Steps, Goto
  <2>4. AmccType'
    BY <1>2, <1>3, <2>1 DEF TypeInv, AmccType, Goto
  <2>5. Limits'
    <3>1. n' \in 0 .. MaxRecv /\ n' < MaxRecv
      BY <1>2, <1>6, <2>1
    <3>. QED
      BY <2>1, <3>1 DEF Goto, Limits
  <2>. QED
    BY <1>4, <2>2, <2>3, <2>4, <2>5 DEF TypeInv
<1>7. CASE ~chip.ready /\ n' = MaxRecv
  <2>1. Return(-2) /\ UNCHANGED <<start, chip>>
    BY <1>7 DEF AwaitByte, Failed
  <2>2. Steps' /\ CallType' /\ PortType'
    BY <1>1, <1>3, <2>1, ReturnTypes DEF Kept
  <2>3. AmccType'
    BY <1>3, <2>1 DEF TypeInv, AmccType, Return
  <2>4. Limits'
    <3>1. n' \in 0 .. MaxRecv
      BY <1>7
    <3>. QED
      BY <2>1, <3>1 DEF Return, Limits
  <2>. QED
    BY <1>4, <2>2, <2>3, <2>4 DEF TypeInv
<1>. QED
  BY <1>5, <1>6, <1>7

LEMMA AwaitReleaseType ==
    ASSUME TypeInv, AwaitRelease, UNCHANGED usbVars
    PROVE  TypeInv'
<1>1. trust' \in BOOLEAN
  BY TrustType DEF AwaitRelease, Failed, TypeInv, PortType
<1>2. n \in Nat /\ n < MaxRecv /\ at = "release" /\ start \in Byte
  BY DEF AwaitRelease, TypeInv, Limits, AmccType
<1>3. error' \in BOOLEAN /\ UNCHANGED <<todo, half, start, nibble, chip, got, log>>
  BY DEF AwaitRelease, TypeInv, AmccType
<1>4. UsbType'
  BY DEF AwaitRelease, TypeInv, UsbType, Goto, Failed, Return, usbVars, UsbSteps, RamSteps
<1>5. CASE \E value \in {-3} \cup Byte : Return(value) /\ n' \in 0 .. MaxRecv
  <2>1. PICK value \in {-3} \cup Byte : Return(value) /\ n' \in 0 .. MaxRecv
    BY <1>5
  <2>2. Steps' /\ CallType' /\ PortType'
    BY <1>1, <1>3, <2>1, ReturnTypes DEF Kept
  <2>3. AmccType'
    BY <1>3, <2>1 DEF TypeInv, AmccType, Return
  <2>4. Limits'
    BY <2>1 DEF Return, Limits
  <2>. QED
    BY <1>4, <2>2, <2>3, <2>4 DEF TypeInv
<1>6. CASE Goto("release") /\ n' = n + 1 /\ n' # MaxRecv
  <2>2. CallType' /\ PortType'
    BY <1>1, <1>2, <1>3, <1>6, GotoTypes DEF Kept
  <2>3. Steps'
    BY <1>2, <1>6 DEF TypeInv, Steps, Goto
  <2>4. AmccType'
    BY <1>2, <1>3, <1>6 DEF TypeInv, AmccType, Goto
  <2>5. Limits'
    <3>1. n' \in 0 .. MaxRecv /\ n' < MaxRecv
      BY <1>2, <1>6
    <3>. QED
      BY <1>6, <3>1 DEF Goto, Limits
  <2>. QED
    BY <1>4, <2>2, <2>3, <2>4, <2>5 DEF TypeInv
<1>7. \/ Return(start) /\ n' = n
      \/ Return(-3) /\ n' = n + 1
      \/ Goto("release") /\ n' = n + 1 /\ n' # MaxRecv
  BY DEF AwaitRelease, Failed
<1>8. n \in 0 .. MaxRecv /\ n + 1 \in 0 .. MaxRecv
  BY <1>2
<1>9. CASE Return(start) /\ n' = n
  BY <1>2, <1>5, <1>8, <1>9
<1>10. CASE Return(-3) /\ n' = n + 1
  BY <1>5, <1>8, <1>10
<1>. QED
  BY <1>6, <1>7, <1>9, <1>10

\* The old protocol changes no other local variables than these.
LEMMA OldTypes ==
    ASSUME TypeInv, at \in OldSteps, UNCHANGED <<got, log, trust>>, UNCHANGED usbVars,
           NEW l \in {"resync", "advance", "nibble", "count"}, Goto(l),
           UNCHANGED <<todo, half, error>>,
           chip' \in ChipState, chip'.ready = chip.ready, chip'.incoming = chip.incoming,
           l = "advance" => start' \in Counter,
           nibble' \in 0 .. 4,
           l \in {"resync", "advance"} => nibble' = 0,
           l = "nibble" => nibble' # 4,
           l = "count" => nibble' # 0,
           Limits'
    PROVE  TypeInv'
<1>1. CallType' /\ PortType'
  BY GotoTypes DEF Kept, TypeInv, PortType, OldSteps
<1>2. Steps'
  BY DEF TypeInv, Steps, Goto, AmccSteps, OldSteps, UsbSteps, RamSteps
<1>3. AmccType'
  <2>1. at' = l
    BY DEF Goto
  <2>2. error' \in BOOLEAN /\ half' \in {"address", "data", "over"} /\ Len(todo') <= 2
        /\ (chip'.ready => chip'.incoming \in Byte)
    BY DEF TypeInv, AmccType
  <2>. QED
    BY <2>1, <2>2 DEF AmccType
<1>4. UsbType'
  BY DEF TypeInv, UsbType, Goto, usbVars, UsbSteps, RamSteps
<1>. QED
  BY <1>1, <1>2, <1>3, <1>4 DEF TypeInv

LEMMA OldReturns ==
    ASSUME TypeInv, at \in OldSteps, UNCHANGED <<got, log, trust>>, UNCHANGED usbVars,
           NEW value \in {-6, -3, 0}, Return(value),
           UNCHANGED <<todo, half, error, nibble>>,
           chip' \in ChipState, chip'.ready = chip.ready, chip'.incoming = chip.incoming,
           \E limit \in {MaxRecv, MaxResync + 1, MaxCount + 1} : n' \in 0 .. limit
    PROVE  TypeInv'
<1>1. Steps' /\ CallType' /\ PortType'
  BY ReturnTypes DEF Kept, TypeInv, PortType
<1>2. at' = "idle"
  BY DEF Return
<1>3. AmccType'
  BY <1>2 DEF TypeInv, AmccType
<1>4. Limits' /\ UsbType'
  BY <1>2 DEF TypeInv, UsbType, Limits, usbVars, UsbSteps, RamSteps
<1>. QED
  BY <1>1, <1>3, <1>4 DEF TypeInv

LEMMA ChipWrites ==
    ASSUME TypeInv
    PROVE  \A t \in {NoWord, 3} \cup Counter, b \in {0, 1} :
               LET c == [chip EXCEPT !.tag = t, !.bits = b]
               IN  c \in ChipState /\ c.ready = chip.ready /\ c.incoming = chip.incoming
BY DEF TypeInv, AmccType, ChipState

LEMMA OldResyncType ==
    ASSUME TypeInv, OldResync, UNCHANGED usbVars
    PROVE  TypeInv'
<1>1. at = "resync" /\ n \in Nat /\ n <= MaxResync /\ nibble = 0
  BY DEF OldResync, TypeInv, Limits, AmccType
<1>2. start' \in Counter /\ chip' = chip /\ nibble' = nibble /\ at \in OldSteps
      /\ UNCHANGED <<todo, half, error, got, log, trust>> /\ chip' \in ChipState
  BY DEF OldResync, TypeInv, AmccType, ChipState, OldSteps
<1>3. CASE Goto("nibble") /\ n' = 0
  <2>1. Limits'
    <3>1. 0 \in 0 .. MaxRecv
      OBVIOUS
    <3>. QED
      BY <1>3, <3>1 DEF Limits, Goto
  <2>. QED
    BY <1>1, <1>2, <1>3, <2>1, OldTypes
<1>4. CASE Goto("advance") /\ n' = n + 1
  <2>1. Limits'
    <3>1. n' \in 0 .. MaxResync + 1
      BY <1>1, <1>4
    <3>. QED
      BY <1>4, <3>1 DEF Limits, Goto
  <2>. QED
    BY <1>1, <1>2, <1>4, <2>1, OldTypes
<1>. QED
  BY <1>3, <1>4 DEF OldResync

LEMMA OldAdvanceType ==
    ASSUME TypeInv, OldAdvance, UNCHANGED usbVars
    PROVE  TypeInv'
<1>1. /\ at = "advance" /\ n \in Nat /\ nibble = 0 /\ start \in Counter
      /\ \E limit \in {MaxRecv, MaxResync + 1, MaxCount + 1} : n \in 0 .. limit
  BY DEF OldAdvance, TypeInv, Limits, AmccType
<1>2. /\ at \in OldSteps /\ UNCHANGED <<todo, half, start, n, nibble, error>>
      /\ UNCHANGED <<got, log, trust>>
  BY <1>1 DEF OldAdvance, locals, OldSteps
<1>3. chip' \in ChipState /\ chip'.ready = chip.ready /\ chip'.incoming = chip.incoming
  BY <1>1, ChipWrites DEF OldAdvance
<1>4. CASE Return(-3)
  BY <1>1, <1>2, <1>3, <1>4, OldReturns
<1>5. CASE Goto("resync") /\ ~(n > MaxResync)
  <2>1. Limits'
    BY <1>1, <1>2, <1>5 DEF Limits, Goto
  <2>2. "resync" \in {"resync", "advance", "nibble", "count"} /\ nibble' \in 0 .. 4 /\ nibble' = 0
    BY <1>1, <1>2
  <2>. QED
    BY <1>2, <1>3, <1>5, <2>1, <2>2, OldTypes
<1>. QED
  BY <1>4, <1>5 DEF OldAdvance

LEMMA NibblesType ==
    ASSUME TypeInv, call.fn = "pb_outp"
    PROVE  \A i \in 1 .. 4 :
               Nibbles[i][1] \in {0, 1, 2, 3} /\ Nibbles[i][2] \in {0, 1}
<1>1. PICK b \in Byte : call.data = <<b>> /\ call.port \in Port
  BY DEF TypeInv, CallType
<1>2. call.data[1] \div 2 \in {0, 1} /\ call.data[1] % 2 \in {0, 1}
  BY <1>1 DEF Byte
<1>. QED
  BY <1>1, <1>2 DEF Nibbles, Port

LEMMA OldNibbleType ==
    ASSUME TypeInv, OldNibble, UNCHANGED usbVars
    PROVE  TypeInv'
<1>1. /\ at = "nibble" /\ nibble \in 0 .. 3 /\ call.fn = "pb_outp" /\ at \in OldSteps
      /\ nibble' = nibble + 1 /\ nibble' \in 1 .. 4
      /\ UNCHANGED <<todo, half, start, n, error, got, log, trust>>
  BY DEF OldNibble, TypeInv, AmccType, Steps, OldSteps
<1>2. chip' \in ChipState /\ chip'.ready = chip.ready /\ chip'.incoming = chip.incoming
  <2>1. Nibbles[nibble + 1][1] \in {NoWord, 3} \cup Counter /\ Nibbles[nibble + 1][2] \in {0, 1}
    BY <1>1, NibblesType DEF Counter
  <2>. QED
    BY <2>1, ChipWrites DEF OldNibble
<1>3. Limits'
  BY <1>1 DEF OldNibble, Limits, Goto, TypeInv
<1>. QED
  BY <1>1, <1>2, <1>3, OldTypes DEF OldNibble

LEMMA OldCountType ==
    ASSUME TypeInv, OldCount, UNCHANGED usbVars
    PROVE  TypeInv'
<1>1. /\ at = "count" /\ n \in Nat /\ n <= MaxCount /\ nibble \in 1 .. 4
      /\ UNCHANGED <<todo, half, start, nibble, error, got, log, trust>>
      /\ chip' = chip /\ chip' \in ChipState /\ at \in OldSteps
  BY DEF OldCount, TypeInv, AmccType, Limits, OldSteps
<1>2. 0 \in 0 .. MaxRecv /\ n + 1 \in 0 .. MaxCount + 1 /\ 0 \in 0 .. MaxCount + 1
  BY <1>1
<1>3. CASE \E value \in {0, -6} : Return(value) /\ n' \in {0, n + 1}
  BY <1>1, <1>2, <1>3, OldReturns
<1>4. CASE Goto("nibble") /\ n' = 0 /\ nibble # 4
  <2>1. Limits'
    BY <1>2, <1>4 DEF Limits, Goto
  <2>2. nibble' \in 0 .. 4
    BY <1>1
  <2>. QED
    BY <1>1, <1>4, <2>1, <2>2, OldTypes
<1>5. CASE Goto("count") /\ n' = n + 1 /\ ~(n' > MaxCount)
  <2>1. Limits'
    BY <1>1, <1>2, <1>5 DEF Limits, Goto
  <2>2. nibble' \in 0 .. 4 /\ nibble' # 0
    BY <1>1
  <2>. QED
    BY <1>1, <1>5, <2>1, <2>2, OldTypes
<1>. QED
  BY <1>3, <1>4, <1>5 DEF OldCount

-----------------------------------------------------------------------------
(* The types: transfers over USB.                                          *)

Transfer == [pipe : {"EP1OUT", "EP2OUT", "EP6IN"}, enable : BOOLEAN, data : Seq(Nat)]

\* Words that are too small to set the load flag, and fit the address register.
Harmless(x) ==
    x \in Transfer /\ (x.pipe = "EP2OUT" => Len(x.data) > 0 /\ x.data[1] \in 0 .. 7)

LEMMA Suffix ==
    ASSUME NEW S, NEW s \in Seq(S), NEW k \in 0 .. Len(s)
    PROVE  /\ SubSeq(s, k + 1, Len(s)) = <<>> <=> k = Len(s)
           /\ k # Len(s) => /\ k + 1 \in 1 .. Len(s)
                            /\ Head(SubSeq(s, k + 1, Len(s))) = s[k + 1]
                            /\ Tail(SubSeq(s, k + 1, Len(s))) = SubSeq(s, k + 2, Len(s))
           /\ SubSeq(s, 1, Len(s)) = s
<1>1. Len(s) \in Nat /\ SubSeq(s, 1, Len(s)) = s /\ (\A i \in 1 .. Len(s) : s[i] \in S)
  BY LenProperties, SubSeqFull, ElementOfSeq
<1>2. PICK m \in Nat : m = Len(s)
  BY <1>1
<1>3. k \in 0 .. m
  BY <1>2
<1>4. CASE k = m
  <2>1. k + 1 \in Int /\ m \in Int /\ m < k + 1
    BY <1>4
  <2>. QED
    BY <1>1, <1>2, <1>4, <2>1, SubSeqEmpty
<1>5. CASE k # m
  <2>1. /\ k + 1 \in 1 .. m /\ m \in k + 1 .. m /\ k + 1 \in Int /\ k + 1 <= m
        /\ m - (k + 1) + 1 # 0 /\ (k + 1) + 1 = k + 2
    BY <1>3, <1>5
  <2>2. \A i \in k + 1 .. m : s[i] \in S
    <3>1. ASSUME NEW i \in k + 1 .. m
          PROVE  i \in 1 .. m
      BY <1>3, <3>1
    <3>. QED
      BY <1>1, <1>2, <3>1
  <2>3. Len(SubSeq(s, k + 1, m)) = m - (k + 1) + 1
    BY <2>1, <2>2, SubSeqProperties
  <2>4. SubSeq(s, k + 1, m) # <<>>
    BY <2>1, <2>3, EmptySeq
  <2>5. /\ Head(SubSeq(s, k + 1, m)) = s[k + 1]
        /\ Tail(SubSeq(s, k + 1, m)) = SubSeq(s, (k + 1) + 1, m)
    BY <1>2, <2>1, HeadTailOfSubSeq
  <2>. QED
    BY <1>1, <1>2, <1>5, <2>1, <2>4, <2>5
<1>. QED
  BY <1>4, <1>5

LEMMA Four ==
    ASSUME NEW S, NEW a \in S, NEW b \in S, NEW c \in S, NEW d \in S
    PROVE  /\ <<a, b, c>> \o <<d>> = <<a, b, c, d>>
           /\ <<a, b, c, d>> \in Seq(S) /\ Len(<<a, b, c, d>>) = 4
           /\ <<a, b, c, d>>[1] = a /\ <<a, b, c, d>>[2] = b
           /\ <<a, b, c, d>>[3] = c /\ <<a, b, c, d>>[4] = d
<1>1. /\ <<a, b, c, d>> \in Seq(S) /\ Len(<<a, b, c, d>>) = 4
      /\ <<a, b, c, d>>[1] = a /\ <<a, b, c, d>>[2] = b
      /\ <<a, b, c, d>>[3] = c /\ <<a, b, c, d>>[4] = d
  OBVIOUS
<1>2. /\ <<a, b, c>> \in Seq(S) /\ Len(<<a, b, c>>) = 3
      /\ <<a, b, c>>[1] = a /\ <<a, b, c>>[2] = b /\ <<a, b, c>>[3] = c
      /\ <<d>> \in Seq(S) /\ Len(<<d>>) = 1 /\ <<d>>[1] = d
  OBVIOUS
<1>3. /\ <<a, b, c>> \o <<d>> \in Seq(S) /\ Len(<<a, b, c>> \o <<d>>) = 4
      /\ \A i \in 1 .. 4 : (<<a, b, c>> \o <<d>>)[i] =
            IF i <= 3 THEN <<a, b, c>>[i] ELSE <<d>>[i - 3]
  BY <1>2, ConcatProperties
<1>4. \A i \in 1 .. 4 : (<<a, b, c>> \o <<d>>)[i] = <<a, b, c, d>>[i]
  BY <1>1, <1>2, <1>3
<1>. QED
  BY <1>1, <1>3, <1>4, SeqEqual

LEMMA TransferTypes ==
    /\ ControlByte(TRUE) \in Transfer /\ ControlByte(FALSE) \in Transfer /\ In \in Transfer
    /\ ControlByte(TRUE).pipe = "EP1OUT" /\ ControlByte(FALSE).pipe = "EP1OUT"
    /\ In.pipe = "EP6IN"
    /\ \A w \in Nat : Out(<<w>>) \in Transfer /\ Out(<<w>>).data[1] = w
                      /\ Out(<<w>>).pipe = "EP2OUT" /\ Len(Out(<<w>>).data) = 1
<1>1. /\ ControlByte(TRUE) \in Transfer /\ ControlByte(FALSE) \in Transfer /\ In \in Transfer
      /\ ControlByte(TRUE).pipe = "EP1OUT" /\ ControlByte(FALSE).pipe = "EP1OUT"
      /\ In.pipe = "EP6IN"
  BY EmptySeq DEF ControlByte, In, Transfer
<1>2. ASSUME NEW w \in Nat
      PROVE  Out(<<w>>) \in Transfer /\ Out(<<w>>).data[1] = w
             /\ Out(<<w>>).pipe = "EP2OUT" /\ Len(Out(<<w>>).data) = 1
  BY DEF Out, Transfer
<1>. QED
  BY <1>1, <1>2

LEMMA WriteRegFacts ==
    ASSUME NEW a \in Nat, NEW w \in Nat
    PROVE  /\ WriteReg(a, w) \in Seq(Transfer) /\ Len(WriteReg(a, w)) = 4
           /\ WriteReg(a, w)[1] = ControlByte(TRUE)
           /\ WriteReg(a, w)[2] = Out(<<a>>)
           /\ WriteReg(a, w)[3] = ControlByte(FALSE)
           /\ WriteReg(a, w)[4] = Out(<<w>>)
<1>. DEFINE on == ControlByte(TRUE)  off == ControlByte(FALSE)  x == Out(<<a>>)  y == Out(<<w>>)
<1>1. on \in Transfer /\ off \in Transfer /\ x \in Transfer /\ y \in Transfer
  BY TransferTypes
<1>2. WriteReg(a, w) = <<on, x, off>> \o <<y>>
  BY Zenon DEF WriteReg, SetupXfer
<1>3. /\ WriteReg(a, w) \in Seq(Transfer) /\ Len(WriteReg(a, w)) = 4
      /\ WriteReg(a, w)[1] = on /\ WriteReg(a, w)[2] = x
      /\ WriteReg(a, w)[3] = off /\ WriteReg(a, w)[4] = y
  <2>. HIDE DEF on, off, x, y
  <2>. QED
    BY <1>1, <1>2, Four
<1>. QED
  BY <1>3, Zenon

LEMMA ReadRegFacts ==
    /\ ReadReg(Control) \in Seq(Transfer) /\ Len(ReadReg(Control)) = 12
    /\ \A i \in 1 .. 12 : ReadReg(Control)[i] = ReadOnce(Control)[((i - 1) % 4) + 1]
    /\ ReadOnce(Control)[1] = ControlByte(TRUE) /\ ReadOnce(Control)[2] = Out(<<Control>>)
    /\ ReadOnce(Control)[3] = ControlByte(FALSE) /\ ReadOnce(Control)[4] = In
    /\ \A i \in 1 .. 12 : Harmless(ReadReg(Control)[i])
<1>1. Control \in Nat /\ Control \in 0 .. 7 /\ Out(<<Control>>) \in Transfer
  BY TransferTypes DEF Control
<1>. DEFINE on == ControlByte(TRUE)  off == ControlByte(FALSE)  x == Out(<<Control>>)
<1>2. on \in Transfer /\ off \in Transfer /\ x \in Transfer /\ In \in Transfer
      /\ ReadOnce(Control) = <<on, x, off>> \o <<In>>
  BY <1>1, TransferTypes, Zenon DEF ReadOnce, SetupXfer
<1>7. /\ ReadOnce(Control) \in Seq(Transfer) /\ Len(ReadOnce(Control)) = 4
      /\ ReadOnce(Control)[1] = on /\ ReadOnce(Control)[2] = x
      /\ ReadOnce(Control)[3] = off /\ ReadOnce(Control)[4] = In
  <2>. HIDE DEF on, off, x
  <2>. QED
    BY <1>2, Four
<1>3. /\ ReadOnce(Control) \in Seq(Transfer) /\ Len(ReadOnce(Control)) = 4
      /\ ReadOnce(Control)[1] = ControlByte(TRUE) /\ ReadOnce(Control)[2] = Out(<<Control>>)
      /\ ReadOnce(Control)[3] = ControlByte(FALSE) /\ ReadOnce(Control)[4] = In
  BY <1>7, Zenon
<1>4. \A i \in 1 .. 4 : Harmless(ReadOnce(Control)[i]) /\ ReadOnce(Control)[i] \in Transfer
  <2>1. ASSUME NEW i \in 1 .. 4
        PROVE  Harmless(ReadOnce(Control)[i])
    <3>1. i = 1 \/ i = 2 \/ i = 3 \/ i = 4
      OBVIOUS
    <3>2. Harmless(ControlByte(TRUE)) /\ Harmless(ControlByte(FALSE)) /\ Harmless(In)
      BY TransferTypes DEF Harmless
    <3>3. Harmless(Out(<<Control>>))
      BY <1>1, TransferTypes DEF Harmless
    <3>. QED
      BY <1>3, <3>1, <3>2, <3>3
  <2>. QED
    BY <2>1 DEF Harmless
<1>5. ReadReg(Control) = [i \in 1 .. 12 |-> ReadOnce(Control)[((i - 1) % 4) + 1]]
  BY <1>3 DEF ReadReg, Repeat
<1>6. \A i \in 1 .. 12 : ((i - 1) % 4) + 1 \in 1 .. 4
  OBVIOUS
<1>8. ReadReg(Control) \in Seq(Transfer) /\ Len(ReadReg(Control)) = 12
  BY <1>4, <1>5, <1>6, IsASeq
<1>. QED
  BY <1>3, <1>4, <1>5, <1>6, <1>8

\* The word of REG_PBCORE says what it was made of.
LEMMA CoreWordFacts ==
    ASSUME NEW p \in Port, NEW b \in Byte, NEW load \in {0, 1}
    PROVE  /\ CoreWord(p, b, load) \in Nat
           /\ LoadFlag(CoreWord(p, b, load)) = load
           /\ CoreWord(p, b, load) \div 4 % 2 = p /\ CoreWord(p, b, load) % 4 = b
BY DEF CoreWord, LoadFlag, Port, Byte

LEMMA SetupFacts ==
    /\ SetupXfer(DataRam) \in Seq(Transfer) /\ Len(SetupXfer(DataRam)) = 3
    /\ \A i \in 1 .. 3 : Harmless(SetupXfer(DataRam)[i])
<1>1. DataRam \in Nat /\ DataRam \in 0 .. 7
  BY DEF DataRam
<1>. DEFINE on == ControlByte(TRUE)  off == ControlByte(FALSE)  x == Out(<<DataRam>>)
<1>2. on \in Transfer /\ off \in Transfer /\ x \in Transfer
  BY <1>1, TransferTypes
<1>3. Harmless(on) /\ Harmless(off) /\ Harmless(x)
  <2>1. on.pipe = "EP1OUT" /\ off.pipe = "EP1OUT"
    BY TransferTypes, Zenon
  <2>2. Len(x.data) = 1 /\ x.data[1] = DataRam
    BY <1>1, TransferTypes, Zenon
  <2>. HIDE DEF on, off, x
  <2>. QED
    BY <1>1, <1>2, <2>1, <2>2 DEF Harmless
<1>4. SetupXfer(DataRam) = <<on, x, off>>
  BY Zenon DEF SetupXfer
<1>. HIDE DEF on, off, x
<1>. QED
  BY <1>2, <1>3, <1>4

\* A piece is not empty, and its bytes are those of the data.
LEMMA PiecesFacts ==
    ASSUME NEW data \in Seq(Byte)
    PROVE  /\ Pieces(data) \in Seq(Transfer)
           /\ \A i \in 1 .. Len(Pieces(data)) : Harmless(Pieces(data)[i])
<1>1. PICK l \in Nat : l = Len(data)
  BY LenProperties
<1>2. PICK m \in Nat : m = (l + Block - 1) \div Block /\ m * Block <= l + Block - 1
  BY SMTT(30)
<1>. DEFINE lo(i) == (i - 1) * Block + 1
            hi(i) == IF i * Block < l THEN i * Block ELSE l
            piece(i) == Out(SubSeq(data, lo(i), hi(i)))
<1>3. ASSUME NEW i \in 1 .. m
      PROVE  piece(i) \in Transfer /\ Harmless(piece(i))
  <2>1. i * Block <= m * Block /\ i * Block \in Nat
    BY SMTT(30)
  <2>2. (i - 1) * Block = i * Block - Block /\ (i - 1) * Block \in Nat
    BY SMTT(30)
  <2>3. lo(i) \in Int /\ hi(i) \in Int /\ 1 <= lo(i) /\ lo(i) <= hi(i) /\ hi(i) <= l
    BY <1>2, <2>1, <2>2
  <2>. HIDE DEF lo, hi
  <2>4. \A j \in lo(i) .. hi(i) : data[j] \in Byte
    <3>1. ASSUME NEW j \in lo(i) .. hi(i)
          PROVE  j \in 1 .. l
      BY <2>3
    <3>. QED
      BY <1>1, <3>1, ElementOfSeq
  <2>. DEFINE t == SubSeq(data, lo(i), hi(i))
  <2>5. /\ t \in Seq(Byte)
        /\ Len(t) = IF lo(i) <= hi(i) THEN hi(i) - lo(i) + 1 ELSE 0
        /\ \A j \in 1 .. hi(i) - lo(i) + 1 : t[j] = data[lo(i) + j - 1]
    BY <2>3, <2>4, SubSeqProperties
  <2>. HIDE DEF t
  <2>6. Len(t) > 0 /\ t[1] \in Byte /\ t \in Seq(Nat)
    <3>1. 1 \in 1 .. hi(i) - lo(i) + 1 /\ lo(i) + 1 - 1 \in lo(i) .. hi(i)
      BY <2>3
    <3>2. Len(t) > 0 /\ t[1] \in Byte
      BY <2>3, <2>4, <2>5, <3>1
    <3>3. Byte \subseteq Nat
      BY DEF Byte
    <3>. QED
      BY <2>5, <3>2, <3>3, SeqMonotonic
  <2>7. Out(t) \in Transfer /\ Out(t).data = t
    BY <2>6 DEF Out, Transfer
  <2>8. Harmless(Out(t))
    BY <2>6, <2>7 DEF Harmless, Byte
  <2>. QED
    BY <2>7, <2>8 DEF t
<1>4. Pieces(data) = [i \in 1 .. m |-> piece(i)]
  BY <1>1, <1>2 DEF Pieces
<1>. HIDE DEF piece
<1>5. Pieces(data) \in Seq(Transfer) /\ Len(Pieces(data)) = m
  BY <1>3, <1>4, IsASeq
<1>. QED
  BY <1>3, <1>4, <1>5

LEMMA BlocksFacts ==
    ASSUME NEW m \in Nat
    PROVE  LET xs == Repeat(m, <<ControlByte(FALSE), In>>) \o <<In, In>>
           IN  xs \in Seq(Transfer) /\ \A i \in 1 .. Len(xs) : Harmless(xs[i])
<1>. DEFINE off == ControlByte(FALSE)
            Quieted == {x \in Transfer : Harmless(x)}
            ys == Repeat(m, <<off, In>>)
            zs == <<In, In>>
<1>1. off \in Quieted /\ In \in Quieted
  BY TransferTypes DEF Harmless
<1>. HIDE DEF off, Quieted
<1>2. Len(<<off, In>>) = 2 /\ <<off, In>>[1] = off /\ <<off, In>>[2] = In
  OBVIOUS
<1>3. \A i \in 1 .. m * 2 : ((i - 1) % 2) + 1 \in {1, 2}
  BY Z3
<1>4. ys \in Seq(Quieted)
  <2>1. ys = [i \in 1 .. m * 2 |-> <<off, In>>[((i - 1) % 2) + 1]]
    BY <1>2 DEF Repeat
  <2>2. \A i \in 1 .. m * 2 : <<off, In>>[((i - 1) % 2) + 1] \in Quieted
    BY <1>1, <1>2, <1>3
  <2>3. m * 2 \in Nat
    OBVIOUS
  <2>. DEFINE e(i) == <<off, In>>[((i - 1) % 2) + 1]
  <2>4. \A i \in 1 .. m * 2 : e(i) \in Quieted
    BY <2>2
  <2>5. [i \in 1 .. m * 2 |-> e(i)] \in Seq(Quieted)
    <3>. HIDE DEF e
    <3>. QED
      BY <2>3, <2>4, IsASeq
  <2>. QED
    BY <2>1, <2>5
<1>5. zs \in Seq(Quieted)
  BY <1>1
<1>. HIDE DEF ys, zs
<1>6. ys \o zs \in Seq(Quieted)
  BY <1>4, <1>5, ConcatProperties
<1>7. ys \o zs \in Seq(Transfer) /\ \A i \in 1 .. Len(ys \o zs) : Harmless((ys \o zs)[i])
  <2>1. Quieted \subseteq Transfer /\ \A x \in Quieted : Harmless(x)
    BY DEF Quieted
  <2>. QED
    BY <1>6, <2>1, SeqMonotonic, ElementOfSeq
<1>. QED
  BY <1>7, Zenon DEF ys, zs, off

LEMMA Shifted ==
    ASSUME NEW S, NEW f \in S \X S, NEW x \in S
    PROVE  Append(Tail(f), x) = <<f[2], x>> /\ Append(Tail(f), x) \in S \X S
<1>1. PICK a \in S, b \in S : f = <<a, b>>
  OBVIOUS
<1>2. Tail(f) = <<b>> /\ f[2] = b
  BY <1>1
<1>3. <<b>> \in Seq(S) /\ Len(<<b>>) = 1 /\ <<b>>[1] = b
      /\ <<b, x>> \in Seq(S) /\ Len(<<b, x>>) = 2 /\ <<b, x>>[1] = b /\ <<b, x>>[2] = x
  OBVIOUS
<1>4. /\ Append(<<b>>, x) \in Seq(S) /\ Len(Append(<<b>>, x)) = 2
      /\ Append(<<b>>, x)[1] = b /\ Append(<<b>>, x)[2] = x
  <2>1. 1 \in 1 .. Len(<<b>>) /\ Len(<<b>>) + 1 = 2
    BY <1>3
  <2>. QED
    BY <1>3, <2>1, AppendProperties
<1>5. Append(<<b>>, x) = <<b, x>>
  <2>1. \A i \in 1 .. 2 : Append(<<b>>, x)[i] = <<b, x>>[i]
    BY <1>3, <1>4
  <2>. QED
    BY <1>3, <1>4, <2>1, SeqEqual
<1>6. <<b, x>> \in S \X S
  OBVIOUS
<1>. QED
  BY <1>2, <1>5, <1>6

LEMMA NextBlockType ==
    ASSUME dev \in DevState
    PROVE  NextBlock \in Seq(Nat)
<1>. DEFINE count == IF dev.lead THEN Block - 1 ELSE Block
            line(i) == IF dev.line + i - 1 < Lines THEN dev.ram[dev.line + i - 1] ELSE Junk
            lines == [i \in 1 .. count |-> line(i)]
<1>1. count \in Nat
  OBVIOUS
<1>2. ASSUME NEW i \in 1 .. count
      PROVE  line(i) \in Nat
  <2>1. dev.line \in Nat /\ i \in Nat /\ i >= 1 /\ dev.ram \in [0 .. Lines - 1 -> Nat]
    BY <1>1 DEF DevState
  <2>2. CASE dev.line + i - 1 < Lines
    <3>1. dev.line + i - 1 \in 0 .. Lines - 1
      BY <2>1, <2>2
    <3>. QED
      BY <2>1, <2>2, <3>1
  <2>3. CASE ~(dev.line + i - 1 < Lines)
    BY <2>3 DEF Junk
  <2>. QED
    BY <2>2, <2>3
<1>. HIDE DEF count, line
<1>3. lines \in Seq(Nat)
  BY <1>1, <1>2, IsASeq
<1>4. <<Junk>> \in Seq(Nat)
  BY DEF Junk
<1>. HIDE DEF lines
<1>5. <<Junk>> \o lines \in Seq(Nat)
  BY <1>3, <1>4, ConcatProperties
<1>6. NextBlock = IF dev.lead THEN <<Junk>> \o lines ELSE lines
  BY Zenon DEF NextBlock, lines, count, line
<1>. QED
  BY <1>3, <1>5, <1>6

LEMMA ControlArrives ==
    ASSUME dev \in DevState, NEW x \in Transfer, x.pipe = "EP1OUT"
    PROVE  /\ Arrived(x) \in DevState
           /\ Arrived(x).enabled = x.enable
           /\ Arrived(x).addr = dev.addr /\ Arrived(x).core = dev.core
           /\ Arrived(x).fifo = dev.fifo
           /\ ~Loads(x)
<1>1. Arrived(x) = [dev EXCEPT !.enabled = x.enable]
  BY DEF Arrived
<1>2. x.enable \in BOOLEAN
  BY DEF Transfer
<1>3. ~Loads(x)
  BY DEF Loads
<1>. QED
  BY <1>1, <1>2, <1>3 DEF DevState

LEMMA AddressArrives ==
    ASSUME dev \in DevState, NEW x \in Transfer, x.pipe = "EP2OUT", dev.enabled,
           x.data[1] \in 0 .. 15
    PROVE  /\ Arrived(x) \in DevState
           /\ Arrived(x).enabled = dev.enabled
           /\ Arrived(x).addr = x.data[1] /\ Arrived(x).core = dev.core
           /\ Arrived(x).fifo = dev.fifo
           /\ ~Loads(x)
<1>1. Arrived(x) = [dev EXCEPT !.addr = x.data[1]]
  BY DEF Arrived
<1>2. ~Loads(x)
  BY DEF Loads
<1>. QED
  BY <1>1, <1>2 DEF DevState

LEMMA DataArrives ==
    ASSUME dev \in DevState, NEW x \in Transfer, x.pipe = "EP2OUT", ~dev.enabled,
           Len(x.data) > 0
    PROVE  /\ Arrived(x) \in DevState
           /\ Arrived(x).enabled = dev.enabled
           /\ Arrived(x).addr = dev.addr
           /\ Arrived(x).fifo = dev.fifo
           /\ dev.addr = Core => Arrived(x).core = x.data[1]
<1>1. Arrived(x) = Stored(x.data)
  BY DEF Arrived
<1>2. x.data \in Seq(Nat) /\ Len(x.data) \in Nat /\ x.data[1] \in Nat
  <2>1. x.data \in Seq(Nat)
    BY DEF Transfer
  <2>2. Len(x.data) \in Nat
    BY <2>1, LenProperties
  <2>3. 1 \in 1 .. Len(x.data)
    BY <2>2
  <2>. QED
    BY <2>1, <2>2, <2>3, ElementOfSeq
<1>3. CASE dev.addr = Core
  <2>1. Stored(x.data) = [dev EXCEPT !.core = x.data[1]]
    BY <1>3 DEF Stored, Core, RamAddress, DataRam
  <2>. QED
    BY <1>1, <1>2, <2>1 DEF DevState
<1>4. CASE dev.addr = RamAddress
  <2>1. Stored(x.data) = [dev EXCEPT !.line = x.data[1], !.lead = TRUE]
    BY <1>4 DEF Stored, Core, RamAddress, DataRam
  <2>2. \A l \in Nat, b \in BOOLEAN :
            LET d == [dev EXCEPT !.line = l, !.lead = b]
            IN  d \in DevState /\ d.enabled = dev.enabled /\ d.addr = dev.addr
                /\ d.fifo = dev.fifo
    BY DEF DevState
  <2>3. TRUE \in BOOLEAN
    OBVIOUS
  <2>4. /\ Stored(x.data) \in DevState /\ Stored(x.data).enabled = dev.enabled
        /\ Stored(x.data).addr = dev.addr /\ Stored(x.data).fifo = dev.fifo
    <3>. DEFINE w == x.data[1]
    <3>1. w \in Nat /\ Stored(x.data) = [dev EXCEPT !.line = w, !.lead = TRUE]
      BY <1>2, <2>1
    <3>. HIDE DEF w
    <3>. QED
      BY <2>2, <2>3, <3>1, Zenon
  <2>. QED
    BY <1>1, <1>4, <2>4 DEF Core, RamAddress
<1>5. CASE dev.addr = DataRam
  <2>. DEFINE cells == [l \in 0 .. Lines - 1 |->
                           IF l \in dev.line .. dev.line + Len(x.data) - 1
                           THEN x.data[l - dev.line + 1] ELSE dev.ram[l]]
  <2>1. Stored(x.data) = [dev EXCEPT !.ram = cells, !.line = dev.line + Len(x.data)]
    BY <1>5 DEF Stored, Core, RamAddress, DataRam
  <2>2. dev.line \in Nat /\ dev.ram \in [0 .. Lines - 1 -> Nat]
    BY DEF DevState
  <2>3. ASSUME NEW l \in 0 .. Lines - 1
        PROVE  (IF l \in dev.line .. dev.line + Len(x.data) - 1
                THEN x.data[l - dev.line + 1] ELSE dev.ram[l]) \in Nat
    <3>1. CASE l \in dev.line .. dev.line + Len(x.data) - 1
      <4>1. l - dev.line + 1 \in 1 .. Len(x.data)
        BY <1>2, <2>2, <3>1
      <4>. QED
        BY <1>2, <3>1, <4>1, ElementOfSeq
    <3>2. CASE ~(l \in dev.line .. dev.line + Len(x.data) - 1)
      BY <2>2, <3>2
    <3>. QED
      BY <3>1, <3>2
  <2>4. cells \in [0 .. Lines - 1 -> Nat] /\ dev.line + Len(x.data) \in Nat
    BY <1>2, <2>2, <2>3
  <2>. HIDE DEF cells
  <2>5. /\ Stored(x.data) \in DevState /\ Stored(x.data).enabled = dev.enabled
        /\ Stored(x.data).addr = dev.addr /\ Stored(x.data).fifo = dev.fifo
    BY <2>1, <2>4 DEF DevState
  <2>. QED
    BY <1>1, <1>5, <2>5 DEF Core, DataRam
<1>6. CASE dev.addr \notin {Core, RamAddress, DataRam}
  BY <1>1, <1>6 DEF Stored
<1>. QED
  BY <1>3, <1>4, <1>5, <1>6

LEMMA FetchArrives ==
    ASSUME dev \in DevState, status \in Byte, NEW x \in Transfer, x.pipe = "EP6IN"
    PROVE  /\ Arrived(x) \in DevState
           /\ Arrived(x).enabled = dev.enabled
           /\ Arrived(x).addr = dev.addr /\ Arrived(x).core = dev.core
           /\ dev.addr # DataRam => Arrived(x).fifo = <<dev.fifo[2], <<status>>>>
           /\ ~Loads(x)
<1>1. Arrived(x) = Fetched /\ ~Loads(x)
  BY DEF Arrived, Loads
<1>2. dev.fifo \in Seq(Nat) \X Seq(Nat) /\ dev.line \in Nat
  BY DEF DevState
<1>3. CASE dev.addr # DataRam
  <2>1. Fetched = [dev EXCEPT !.fifo = Append(Tail(dev.fifo), <<status>>)]
    BY <1>3 DEF Fetched
  <2>2. <<status>> \in Seq(Nat)
    BY DEF Byte
  <2>3. /\ Append(Tail(dev.fifo), <<status>>) \in Seq(Nat) \X Seq(Nat)
        /\ Append(Tail(dev.fifo), <<status>>) = <<dev.fifo[2], <<status>>>>
    <3>. DEFINE y == <<status>>  F == dev.fifo  T == Seq(Nat)
    <3>1. y \in T /\ F \in T \X T
      BY <1>2, <2>2
    <3>2. Append(Tail(F), y) \in T \X T /\ Append(Tail(F), y) = <<F[2], y>>
      <4>. HIDE DEF y, F, T
      <4>. QED
        BY <3>1, Shifted
    <3>. QED
      BY <3>2
  <2>. QED
    BY <1>1, <2>1, <2>3 DEF DevState
<1>4. CASE dev.addr = DataRam
  <2>. DEFINE f == Append(Tail(dev.fifo), NextBlock)
              l == dev.line + (IF dev.lead THEN Block - 1 ELSE Block)
  <2>1. Fetched = [dev EXCEPT !.fifo = f, !.lead = FALSE, !.line = l]
    BY <1>4 DEF Fetched
  <2>2. f \in Seq(Nat) \X Seq(Nat)
    BY <1>2, NextBlockType, Shifted
  <2>3. l \in Nat
    BY <1>2
  <2>. HIDE DEF f, l
  <2>4. \A b \in BOOLEAN :
            LET d == [dev EXCEPT !.fifo = f, !.lead = b, !.line = l]
            IN  d \in DevState /\ d.enabled = dev.enabled /\ d.addr = dev.addr
                /\ d.core = dev.core
    BY <2>2, <2>3 DEF DevState
  <2>5. FALSE \in BOOLEAN
    OBVIOUS
  <2>6. /\ Fetched \in DevState /\ Fetched.enabled = dev.enabled
        /\ Fetched.addr = dev.addr /\ Fetched.core = dev.core
    BY <2>1, <2>4, <2>5, Zenon
  <2>. QED
    BY <1>1, <1>4, <2>6
<1>. QED
  BY <1>3, <1>4

LEMMA HarmlessArrives ==
    ASSUME dev \in DevState, status \in Byte, NEW x, Harmless(x)
    PROVE  Arrived(x) \in DevState /\ ~Loads(x)
<1>1. x \in Transfer /\ (x.pipe = "EP2OUT" => Len(x.data) > 0 /\ x.data[1] \in 0 .. 7)
  BY DEF Harmless
<1>2. CASE x.pipe = "EP1OUT"
  BY <1>1, <1>2, ControlArrives
<1>3. CASE x.pipe = "EP2OUT" /\ dev.enabled
  <2>1. x.data[1] \in 0 .. 15
    BY <1>1, <1>3
  <2>. QED
    BY <1>1, <1>3, <2>1, AddressArrives
<1>4. CASE x.pipe = "EP2OUT" /\ ~dev.enabled
  <2>1. ~Loads(x)
    BY <1>1, <1>4 DEF Loads, LoadFlag
  <2>. QED
    BY <1>1, <1>4, <2>1, DataArrives
<1>5. CASE x.pipe = "EP6IN"
  BY <1>1, <1>5, FetchArrives
<1>6. x.pipe \in {"EP1OUT", "EP2OUT", "EP6IN"}
  BY <1>1 DEF Transfer
<1>. QED
  BY <1>2, <1>3, <1>4, <1>5, <1>6

\* The four transfers that write a register, one by one.
LEMMA RegisterArrives ==
    ASSUME dev \in DevState, NEW a \in 0 .. 3, NEW w \in Nat, NEW k \in 0 .. 3,
           Addressing(dev, a, k), NEW x, x = WriteReg(a, w)[k + 1]
    PROVE  /\ Arrived(x) \in DevState
           /\ Addressing(Arrived(x), a, k + 1)
           /\ Arrived(x).fifo = dev.fifo
           /\ k < 3 => ~Loads(x) /\ Arrived(x).core = dev.core
           /\ k = 3 => /\ x.data[1] = w
                       /\ a = Core => Arrived(x).core = w
                       /\ Loads(x) <=> (a = Core /\ LoadFlag(dev.core) = 0 /\ LoadFlag(w) = 1)
           /\ x # In
<1>1. /\ a \in Nat /\ a \in 0 .. 15
      /\ Out(<<a>>) \in Transfer /\ Out(<<a>>).data[1] = a
      /\ Out(<<a>>).pipe = "EP2OUT"
      /\ Out(<<w>>) \in Transfer /\ Out(<<w>>).data[1] = w
      /\ Out(<<w>>).pipe = "EP2OUT" /\ Len(Out(<<w>>).data) = 1
  BY TransferTypes
<1>2. In.pipe = "EP6IN"
  BY TransferTypes
<1>. DEFINE on == ControlByte(TRUE)  off == ControlByte(FALSE)
<1>3. /\ on \in Transfer /\ off \in Transfer /\ on.pipe = "EP1OUT" /\ off.pipe = "EP1OUT"
  BY TransferTypes, Zenon
<1>4. on.enable = TRUE /\ off.enable = FALSE
  BY DEF ControlByte
<1>5. /\ k = 0 => x = on
      /\ k = 1 => x = Out(<<a>>)
      /\ k = 2 => x = off
      /\ k = 3 => x = Out(<<w>>)
  <2>1. /\ WriteReg(a, w)[1] = on /\ WriteReg(a, w)[2] = Out(<<a>>)
        /\ WriteReg(a, w)[3] = off /\ WriteReg(a, w)[4] = Out(<<w>>)
    BY <1>1, WriteRegFacts, Zenon
  <2>. HIDE DEF on, off
  <2>. QED
    BY <2>1
<1>. HIDE DEF on, off
<1>6. CASE k = 0
  <2>1. x.pipe = "EP1OUT" /\ x.enable = TRUE /\ x \in Transfer
    BY <1>3, <1>4, <1>5, <1>6
  <2>2. /\ Arrived(x) \in DevState /\ Arrived(x).enabled = TRUE
        /\ Arrived(x).core = dev.core /\ Arrived(x).fifo = dev.fifo /\ ~Loads(x)
    BY <2>1, ControlArrives
  <2>. QED
    BY <1>2, <1>6, <2>1, <2>2 DEF Addressing
<1>7. CASE k = 1
  <2>1. dev.enabled
    BY <1>7 DEF Addressing
  <2>2. /\ Arrived(x) \in DevState /\ Arrived(x).enabled /\ Arrived(x).addr = a
        /\ Arrived(x).core = dev.core /\ Arrived(x).fifo = dev.fifo /\ ~Loads(x)
    <3>1. x \in Transfer /\ x.pipe = "EP2OUT" /\ x.data[1] = a /\ x.data[1] \in 0 .. 15
      BY <1>1, <1>5, <1>7
    <3>. QED
      BY <2>1, <3>1, AddressArrives
  <2>. QED
    BY <1>1, <1>2, <1>5, <1>7, <2>2 DEF Addressing
<1>8. CASE k = 2
  <2>1. x.pipe = "EP1OUT" /\ x.enable = FALSE /\ x \in Transfer
    BY <1>3, <1>4, <1>5, <1>8
  <2>2. dev.addr = a
    BY <1>8 DEF Addressing
  <2>3. /\ Arrived(x) \in DevState /\ ~Arrived(x).enabled /\ Arrived(x).addr = a
        /\ Arrived(x).core = dev.core /\ Arrived(x).fifo = dev.fifo /\ ~Loads(x)
    BY <2>1, <2>2, ControlArrives
  <2>. QED
    BY <1>2, <1>8, <2>1, <2>3 DEF Addressing
<1>9. CASE k = 3
  <2>1. ~dev.enabled /\ dev.addr = a
    BY <1>9 DEF Addressing
  <2>2. x \in Transfer /\ x.pipe = "EP2OUT" /\ x.data[1] = w /\ Len(x.data) > 0
    BY <1>1, <1>5, <1>9
  <2>3. /\ Arrived(x) \in DevState /\ ~Arrived(x).enabled /\ Arrived(x).addr = a
        /\ Arrived(x).fifo = dev.fifo /\ (a = Core => Arrived(x).core = w)
    BY <2>1, <2>2, DataArrives
  <2>4. Loads(x) <=> (a = Core /\ LoadFlag(dev.core) = 0 /\ LoadFlag(w) = 1)
    BY <2>1, <2>2 DEF Loads
  <2>. QED
    BY <1>2, <1>9, <2>2, <2>3, <2>4 DEF Addressing
<1>. QED
  BY <1>6, <1>7, <1>8, <1>9

\* The twelve transfers that read the register, one by one.
LEMMA ReadArrives ==
    ASSUME dev \in DevState, status \in Byte, NEW k \in 0 .. 11,
           Addressing(dev, Control, k % 4), NEW x, x = ReadReg(Control)[k + 1]
    PROVE  /\ Arrived(x) \in DevState /\ ~Loads(x)
           /\ Addressing(Arrived(x), Control, (k + 1) % 4)
           /\ k % 4 # 3 => x # In /\ Arrived(x).fifo = dev.fifo
           /\ k % 4 = 3 => x = In /\ Arrived(x).fifo = <<dev.fifo[2], <<status>>>>
<1>1. k + 1 \in 1 .. 12 /\ k % 4 \in 0 .. 3 /\ (k + 1) - 1 = k
  OBVIOUS
<1>2. x = ReadOnce(Control)[(k % 4) + 1] /\ Harmless(x)
  BY <1>1, ReadRegFacts
<1>3. Arrived(x) \in DevState /\ ~Loads(x)
  BY <1>2, HarmlessArrives
<1>4. CASE k % 4 # 3
  <2>. DEFINE j == k % 4
  <2>1. j \in 0 .. 2 /\ (k + 1) % 4 = j + 1
    BY <1>1, <1>4
  <2>2. Control \in 0 .. 3 /\ Control \in Nat /\ 0 \in Nat
    BY DEF Control
  <2>3. x = WriteReg(Control, 0)[j + 1]
    <3>1. /\ WriteReg(Control, 0)[1] = ReadOnce(Control)[1]
          /\ WriteReg(Control, 0)[2] = ReadOnce(Control)[2]
          /\ WriteReg(Control, 0)[3] = ReadOnce(Control)[3]
      BY <2>2, WriteRegFacts, ReadRegFacts, Zenon
    <3>. QED
      BY <1>2, <2>1, <3>1
  <2>4. Addressing(dev, Control, j) /\ j \in 0 .. 3
    BY <2>1
  <2>. HIDE DEF j
  <2>5. Addressing(Arrived(x), Control, j + 1) /\ Arrived(x).fifo = dev.fifo /\ x # In
    BY <2>2, <2>3, <2>4, RegisterArrives
  <2>. QED
    BY <1>3, <1>4, <2>1, <2>5
<1>5. CASE k % 4 = 3
  <2>1. x = In /\ (k + 1) % 4 = 0
    BY <1>1, <1>2, <1>5, ReadRegFacts
  <2>2. Addressing(Arrived(x), Control, 0)
    BY DEF Addressing
  <2>3. dev.addr # DataRam
    BY <1>5 DEF Addressing, Control, DataRam
  <2>4. In \in Transfer /\ In.pipe = "EP6IN"
    BY TransferTypes, Zenon
  <2>5. Arrived(In).fifo = <<dev.fifo[2], <<status>>>>
    BY <2>3, <2>4, FetchArrives
  <2>. QED
    BY <1>3, <1>5, <2>1, <2>2, <2>5
<1>. QED
  BY <1>4, <1>5

Quietly == {"read", "setup", "write", "blocks", "flush", "flush again"}

LEMMA WordOfCall ==
    ASSUME TypeInv, at \in {"word", "load"}
    PROVE  /\ call.port \in Port /\ call.data[1] \in Byte
           /\ To(call.port, call.data[1]) \in [port : Port, data : Byte]
<1>1. call.fn = "pb_outp"
  BY DEF TypeInv, Steps
<1>2. PICK b \in Byte : call.data = <<b>> /\ call.port \in Port
  BY <1>1 DEF TypeInv, CallType
<1>3. call.data[1] = b
  BY <1>2
<1>. QED
  BY <1>2, <1>3 DEF To

LEMMA TransfersType ==
    ASSUME TypeInv, at \in UsbSteps
    PROVE  /\ Transfers \in Seq(Transfer)
           /\ at \in Quietly => \A i \in 1 .. Len(Transfers) : Harmless(Transfers[i])
           /\ at = "word" =>
                 Transfers = WriteReg(Core, CoreWord(call.port, call.data[1], 0))
           /\ at = "load" =>
                 Transfers = WriteReg(Core, CoreWord(call.port, call.data[1], 1))
           /\ at = "address" => Transfers = WriteReg(RamAddress, call.port)
           /\ at = "read" => Transfers = ReadReg(Control)
<1>1. CASE at = "word"
  <2>1. Transfers = WriteReg(Core, CoreWord(call.port, call.data[1], 0))
    BY <1>1 DEF Transfers
  <2>2. Core \in Nat /\ CoreWord(call.port, call.data[1], 0) \in Nat
    BY <1>1, WordOfCall, CoreWordFacts DEF Core
  <2>3. WriteReg(Core, CoreWord(call.port, call.data[1], 0)) \in Seq(Transfer)
    BY <2>2, WriteRegFacts
  <2>. QED
    BY <1>1, <2>1, <2>3 DEF Quietly
<1>2. CASE at = "load"
  <2>1. Transfers = WriteReg(Core, CoreWord(call.port, call.data[1], 1))
    BY <1>2 DEF Transfers
  <2>2. Core \in Nat /\ CoreWord(call.port, call.data[1], 1) \in Nat
    BY <1>2, WordOfCall, CoreWordFacts DEF Core
  <2>3. WriteReg(Core, CoreWord(call.port, call.data[1], 1)) \in Seq(Transfer)
    BY <2>2, WriteRegFacts
  <2>. QED
    BY <1>2, <2>1, <2>3 DEF Quietly
<1>3. CASE at = "address"
  <2>1. Transfers = WriteReg(RamAddress, call.port)
    BY <1>3 DEF Transfers
  <2>2. RamAddress \in Nat /\ call.port \in Nat
    BY DEF RamAddress, TypeInv, CallType
  <2>3. WriteReg(RamAddress, call.port) \in Seq(Transfer)
    BY <2>2, WriteRegFacts
  <2>. QED
    BY <1>3, <2>1, <2>3 DEF Quietly
<1>4. CASE at = "setup"
  <2>1. Transfers = SetupXfer(DataRam)
    BY <1>4 DEF Transfers
  <2>. QED
    BY <1>4, <2>1, SetupFacts
<1>5. CASE at = "write"
  <2>1. Transfers = Pieces(call.data)
    BY <1>5 DEF Transfers
  <2>2. call.data \in Seq(Byte)
    BY <1>5 DEF TypeInv, Steps, CallType
  <2>. QED
    BY <1>5, <2>1, <2>2, PiecesFacts
<1>6. CASE at = "blocks"
  <2>. DEFINE m == NumXfers + 2 + (IF Excess = 0 THEN 0 ELSE 1)
              xs == Repeat(m, <<ControlByte(FALSE), In>>) \o <<In, In>>
  <2>1. Transfers = xs
    BY <1>6, Zenon DEF Transfers
  <2>2. m \in Nat
    <3>1. call.data \in Seq(Nat) /\ Len(call.data) = 1
      BY <1>6 DEF TypeInv, Steps, CallType
    <3>2. 1 \in 1 .. Len(call.data)
      BY <3>1
    <3>3. call.data[1] \in Nat
      BY <3>1, <3>2, ElementOfSeq
    <3>4. NumXfers \in Nat
      BY <3>3, SMTT(30) DEF NumXfers
    <3>. QED
      BY <3>4
  <2>3. xs \in Seq(Transfer) /\ \A i \in 1 .. Len(xs) : Harmless(xs[i])
    <3>. HIDE DEF m
    <3>. QED
      BY <2>2, BlocksFacts, Zenon
  <2>. HIDE DEF xs
  <2>. QED
    BY <1>6, <2>1, <2>3
<1>7. CASE at \in {"read", "flush", "flush again"}
  <2>1. Transfers = ReadReg(Control)
    BY <1>7 DEF Transfers
  <2>. QED
    BY <1>7, <2>1, ReadRegFacts
<1>. QED
  BY <1>1, <1>2, <1>3, <1>4, <1>5, <1>6, <1>7 DEF UsbSteps, RamSteps

\* The next transfer of a step, and those after it.
LEMMA NextTransfer ==
    ASSUME TypeInv, UsbSync, pending # <<>>
    PROVE  /\ at \in UsbSteps /\ result = 0
           /\ \E k \in 0 .. Len(Transfers) - 1 :
                 /\ Progress(k)
                 /\ k + 1 \in 1 .. Len(Transfers)
                 /\ k + 1 \in 0 .. Len(Transfers)
                 /\ Head(pending) = Transfers[k + 1]
                 /\ Tail(pending) = SubSeq(Transfers, (k + 1) + 1, Len(Transfers))
<1>1. at \in UsbSteps
  BY DEF UsbSync
<1>2. result = 0
  BY <1>1 DEF UsbSync, TypeInv, UsbType
<1>3. PICK k \in 0 .. Len(Transfers) :
          pending = SubSeq(Transfers, k + 1, Len(Transfers)) /\ Progress(k)
  BY <1>1, <1>2 DEF UsbSync
<1>4. Transfers \in Seq(Transfer)
  BY <1>1, TransfersType
<1>5. PICK m \in Nat : m = Len(Transfers)
  BY <1>4, LenProperties
<1>6. k # m
  BY <1>3, <1>4, <1>5, Suffix
<1>7. /\ k \in 0 .. m - 1 /\ k + 1 \in 1 .. m /\ k + 1 \in 0 .. m /\ (k + 1) + 1 = k + 2
  BY <1>3, <1>5, <1>6
<1>8. /\ Head(pending) = Transfers[k + 1]
      /\ Tail(pending) = SubSeq(Transfers, k + 2, Len(Transfers))
  BY <1>3, <1>4, <1>5, <1>6, Suffix
<1>. QED
  BY <1>1, <1>2, <1>3, <1>5, <1>7, <1>8

LEMMA TransfersStay ==
    ASSUME UNCHANGED <<call, at>>
    PROVE  Transfers' = Transfers
BY DEF Transfers, NumXfers, Excess

LEMMA InTransferTypes ==
    ASSUME TypeInv, InTransfer, UNCHANGED amccVars, dev' \in DevState,
           inbuf' \in Seq(Seq(Nat)), result' \in {0, -1}, LogType', got' \in BOOLEAN
    PROVE  TypeInv'
<1>1. Steps' /\ CallType' /\ Limits'
  BY DEF TypeInv, Steps, CallType, Limits, InTransfer, amccVars
<1>2. AmccType'
  BY DEF TypeInv, AmccType, Sending, InTransfer, amccVars
<1>3. PortType'
  BY DEF TypeInv, PortType, InTransfer, LogType
<1>4. UsbType'
  BY DEF UsbType
<1>. QED
  BY <1>1, <1>2, <1>3, <1>4 DEF TypeInv

\* What comes out is the byte of the call, and it comes out once.
Emits ==
    /\ at = "load" /\ ~got /\ got'
    /\ log' = Append(log, To(call.port, call.data[1]))

LEMMA WordArrives ==
    ASSUME TypeInv, at = "word", NEW k \in 0 .. 3, Progress(k),
           NEW x, x = Transfers[k + 1], Arrives(x), InTransfer
    PROVE  /\ dev' \in DevState /\ UNCHANGED <<got, log>>
           /\ Progress(k + 1)'
<1>. DEFINE w == CoreWord(call.port, call.data[1], 0)
<1>1. w \in Nat /\ LoadFlag(w) = 0
  BY WordOfCall, CoreWordFacts
<1>2. x = WriteReg(Core, w)[k + 1]
  BY TransfersType DEF UsbSteps
<1>. HIDE DEF w
<1>3. dev \in DevState /\ Core \in 0 .. 3 /\ Addressing(dev, Core, k) /\ ~got
  BY DEF TypeInv, UsbType, Core, Progress
<1>4. /\ Arrived(x) \in DevState /\ Addressing(Arrived(x), Core, k + 1)
      /\ k < 3 => ~Loads(x)
      /\ k = 3 => Arrived(x).core = w /\ ~Loads(x)
  BY <1>1, <1>2, <1>3, RegisterArrives
<1>5. ~Loads(x) /\ dev' = Arrived(x) /\ UNCHANGED <<got, log>> /\ at' = at
  BY <1>4 DEF Arrives, InTransfer
<1>6. k + 1 = 4 => LoadFlag(dev'.core) = 0
  BY <1>1, <1>4, <1>5
<1>. QED
  BY <1>3, <1>4, <1>5, <1>6 DEF Progress

LEMMA LoadArrives ==
    ASSUME TypeInv, at = "load", NEW k \in 0 .. 3, Progress(k),
           NEW x, x = Transfers[k + 1], Arrives(x), InTransfer
    PROVE  /\ dev' \in DevState /\ (UNCHANGED <<got, log>> \/ Emits)
           /\ Progress(k + 1)'
<1>. DEFINE w == CoreWord(call.port, call.data[1], 1)
<1>1. /\ w \in Nat /\ LoadFlag(w) = 1
      /\ w \div 4 % 2 = call.port /\ w % 4 = call.data[1]
  BY WordOfCall, CoreWordFacts
<1>2. x = WriteReg(Core, w)[k + 1]
  BY TransfersType DEF UsbSteps
<1>. HIDE DEF w
<1>3. /\ dev \in DevState /\ Core \in 0 .. 3 /\ Addressing(dev, Core, k) /\ ~got
      /\ LoadFlag(dev.core) = 0
  BY DEF TypeInv, UsbType, Core, Progress
<1>4. /\ Arrived(x) \in DevState /\ Addressing(Arrived(x), Core, k + 1)
      /\ k < 3 => ~Loads(x) /\ Arrived(x).core = dev.core
      /\ k = 3 => Loads(x) /\ x.data[1] = w
  BY <1>1, <1>2, <1>3, RegisterArrives
<1>5. dev' = Arrived(x) /\ at' = at
  BY DEF Arrives, InTransfer
<1>6. CASE k < 3
  <2>1. UNCHANGED <<got, log>> /\ LoadFlag(dev'.core) = 0
    BY <1>3, <1>4, <1>5, <1>6 DEF Arrives
  <2>2. ~got' /\ k + 1 # 4
    BY <1>3, <1>6, <2>1
  <2>. QED
    BY <1>4, <1>5, <2>1, <2>2 DEF Progress
<1>7. CASE k = 3
  <2>1. Delivered([port |-> x.data[1] \div 4 % 2, data |-> x.data[1] % 4], at = "load")
    BY <1>4, <1>7, Zenon DEF Arrives
  <2>2. got' /\ log' = Append(log, [port |-> x.data[1] \div 4 % 2, data |-> x.data[1] % 4])
    BY <2>1, Zenon DEF Delivered
  <2>3. log' = Append(log, To(call.port, call.data[1]))
    BY <1>1, <1>4, <1>7, <2>2 DEF To
  <2>4. Emits
    BY <1>3, <2>2, <2>3 DEF Emits
  <2>. QED
    BY <1>4, <1>5, <1>7, <2>2, <2>4 DEF Progress
<1>. QED
  BY <1>6, <1>7

LEMMA RamAddressArrives ==
    ASSUME TypeInv, at = "address", NEW k \in 0 .. 3, Progress(k),
           NEW x, x = Transfers[k + 1], Arrives(x), InTransfer
    PROVE  /\ dev' \in DevState /\ UNCHANGED <<got, log>>
           /\ Progress(k + 1)'
<1>1. x = WriteReg(RamAddress, call.port)[k + 1] /\ call.port \in Nat
  BY TransfersType DEF UsbSteps, RamSteps, TypeInv, CallType
<1>2. dev \in DevState /\ RamAddress \in 0 .. 3 /\ Addressing(dev, RamAddress, k)
      /\ RamAddress # Core
  BY DEF TypeInv, UsbType, RamAddress, Core, Progress
<1>3. /\ Arrived(x) \in DevState /\ Addressing(Arrived(x), RamAddress, k + 1)
      /\ ~Loads(x)
  BY <1>1, <1>2, RegisterArrives
<1>4. dev' = Arrived(x) /\ UNCHANGED <<got, log>> /\ at' = at
  BY <1>3 DEF Arrives, InTransfer
<1>. QED
  BY <1>3, <1>4 DEF Progress

LEMMA StatusArrives ==
    ASSUME TypeInv, at = "read", NEW k \in 0 .. 11, Progress(k),
           NEW x, x = Transfers[k + 1], Arrives(x), InTransfer,
           inbuf' = IF x = In THEN Append(inbuf, Head(dev.fifo)) ELSE inbuf
    PROVE  Progress(k + 1)'
<1>1. x = ReadReg(Control)[k + 1]
  BY TransfersType DEF UsbSteps
<1>2. /\ dev \in DevState /\ Addressing(dev, Control, k % 4)
      /\ k >= 4 => Fresh(dev.fifo[2])
      /\ k >= 8 => Fresh(dev.fifo[1])
      /\ status \in Byte /\ status \in seen /\ inbuf \in Seq(Seq(Nat))
  <2>1. call # NoCall
    BY DEF TypeInv, Steps
  <2>. QED
    BY <2>1 DEF TypeInv, UsbType, PortType, Progress
<1>3. /\ Arrived(x) \in DevState
      /\ Addressing(Arrived(x), Control, (k + 1) % 4)
      /\ k % 4 # 3 => x # In /\ Arrived(x).fifo = dev.fifo
      /\ k % 4 = 3 => x = In /\ Arrived(x).fifo = <<dev.fifo[2], <<status>>>>
  BY <1>1, <1>2, ReadArrives
<1>4. dev' = Arrived(x) /\ at' = at /\ seen' = seen
  BY DEF Arrives, InTransfer
<1>5. Fresh(<<status>>)
  BY <1>2 DEF Fresh
<1>6. CASE k % 4 # 3
  <2>1. /\ k + 1 >= 4 => k >= 4
        /\ k + 1 >= 8 => k >= 8
        /\ ~(k + 1 >= 12)
    BY <1>6
  <2>2. dev'.fifo = dev.fifo
    BY <1>3, <1>4, <1>6
  <2>3. Addressing(dev', Control, (k + 1) % 4)
    BY <1>3, <1>4
  <2>4. /\ k + 1 >= 4 => Fresh(dev'.fifo[2])
        /\ k + 1 >= 8 => Fresh(dev'.fifo[1])
    BY <1>2, <2>1, <2>2
  <2>. QED
    BY <1>4, <2>1, <2>3, <2>4 DEF Progress, Fresh
<1>7. CASE k % 4 = 3
  <2>1. /\ k + 1 >= 8 => k >= 4
        /\ k + 1 >= 12 => k >= 8
    BY <1>7
  <2>2. dev'.fifo[1] = dev.fifo[2] /\ dev'.fifo[2] = <<status>>
    BY <1>3, <1>4, <1>7
  <2>3. Addressing(dev', Control, (k + 1) % 4)
    BY <1>3, <1>4
  <2>4. /\ k + 1 >= 4 => Fresh(dev'.fifo[2])
        /\ k + 1 >= 8 => Fresh(dev'.fifo[1])
    BY <1>2, <1>5, <2>1, <2>2
  <2>5. Head(dev.fifo) = dev.fifo[1] /\ Head(dev.fifo) \in Seq(Nat)
    <3>1. dev.fifo \in Seq(Nat) \X Seq(Nat)
      BY <1>2 DEF DevState
    <3>. QED
      BY <3>1
  <2>6. inbuf' = Append(inbuf, Head(dev.fifo))
    BY <1>3, <1>7
  <2>7. Len(inbuf') > 0 /\ inbuf'[Len(inbuf')] = Head(dev.fifo)
    <3>. DEFINE T == Seq(Nat)  h == Head(dev.fifo)
    <3>1. inbuf \in Seq(T) /\ h \in T /\ inbuf' = Append(inbuf, h)
      BY <1>2, <2>5, <2>6
    <3>. HIDE DEF T, h
    <3>2. PICK m \in Nat : m = Len(inbuf)
      BY <3>1, LenProperties
    <3>3. Len(inbuf') = m + 1 /\ inbuf'[m + 1] = h
      BY <3>1, <3>2, AppendProperties
    <3>. QED
      BY <3>2, <3>3 DEF h
  <2>8. k + 1 >= 12 => Len(inbuf') > 0 /\ Fresh(inbuf'[Len(inbuf')])
    BY <1>2, <2>1, <2>5, <2>7
  <2>. QED
    BY <1>4, <2>3, <2>4, <2>8 DEF Progress, Fresh
<1>. QED
  BY <1>6, <1>7

LEMMA AnyArrives ==
    ASSUME TypeInv, at \in UsbSteps, NEW k \in 0 .. Len(Transfers) - 1, Progress(k),
           k + 1 \in 1 .. Len(Transfers),
           NEW x, x = Transfers[k + 1], Arrives(x), InTransfer
    PROVE  /\ dev' \in DevState /\ (UNCHANGED <<got, log>> \/ Emits)
           /\ at \in {"word", "load", "address"} => Progress(k + 1)'
           /\ at = "read" => k \in 0 .. 11
<1>1. at \in {"word", "load", "address"} => Len(Transfers) = 4
  <2>1. /\ Core \in Nat /\ RamAddress \in Nat /\ call.port \in Nat
        /\ at = "word" => CoreWord(call.port, call.data[1], 0) \in Nat
        /\ at = "load" => CoreWord(call.port, call.data[1], 1) \in Nat
    BY WordOfCall, CoreWordFacts DEF Core, RamAddress, TypeInv, CallType
  <2>2. ASSUME NEW a \in Nat, NEW w \in Nat
        PROVE  Len(WriteReg(a, w)) = 4
    BY WriteRegFacts
  <2>3. /\ at = "word" =>
              Transfers = WriteReg(Core, CoreWord(call.port, call.data[1], 0))
        /\ at = "load" =>
              Transfers = WriteReg(Core, CoreWord(call.port, call.data[1], 1))
        /\ at = "address" => Transfers = WriteReg(RamAddress, call.port)
    BY TransfersType
  <2>. QED
    BY <2>1, <2>2, <2>3
<1>2. at = "read" => Len(Transfers) = 12
  BY ReadRegFacts, TransfersType
<1>3. CASE at \in {"word", "load", "address"}
  <2>1. k \in 0 .. 3
    BY <1>1, <1>3
  <2>. QED
    BY <1>3, <2>1, WordArrives, LoadArrives, RamAddressArrives
<1>4. CASE at \in Quietly
  <2>1. Harmless(x)
    BY <1>4, TransfersType
  <2>2. dev \in DevState /\ status \in Byte
    BY DEF TypeInv, UsbType, PortType
  <2>3. Arrived(x) \in DevState /\ ~Loads(x)
    BY <2>1, <2>2, HarmlessArrives
  <2>4. dev' \in DevState /\ UNCHANGED <<got, log>>
    BY <2>3 DEF Arrives
  <2>5. ASSUME at = "read"
        PROVE  k \in 0 .. 11
    <3>1. Len(Transfers) - 1 = 11
      BY <1>2, <2>5
    <3>. QED
      BY <3>1
  <2>. QED
    BY <1>4, <2>4, <2>5 DEF Quietly
<1>. QED
  BY <1>3, <1>4 DEF UsbSteps, RamSteps, Quietly

LEMMA EmitsType ==
    ASSUME TypeInv, UNCHANGED <<got, log>> \/ Emits, UNCHANGED call
    PROVE  LogType' /\ got' \in BOOLEAN
<1>1. CASE UNCHANGED <<got, log>>
  BY <1>1 DEF TypeInv, PortType, LogType
<1>2. CASE Emits
  <2>1. To(call.port, call.data[1]) \in [port : 0 .. 9, data : 0 .. 9]
    <3>1. call.port \in Port /\ call.data[1] \in Byte
      BY <1>2, WordOfCall DEF Emits
    <3>. QED
      BY <3>1 DEF To, Port, Byte
  <2>2. log \in Seq([port : 0 .. 9, data : 0 .. 9])
    BY DEF TypeInv, PortType
  <2>3. LogType'
    BY <1>2, <2>1, <2>2 DEF Emits, LogType
  <2>4. got' \in BOOLEAN
    <3>1. got' = (got \/ TRUE) \/ got'
      BY <1>2, Zenon DEF Emits
    <3>2. got'
      BY <1>2, Zenon DEF Emits
    <3>. QED
      BY <3>2
  <2>. QED
    BY <2>3, <2>4
<1>. QED
  BY <1>1, <1>2

LEMMA TransferKeeps ==
    ASSUME TypeInv, UsbSync, OsUsbTransfer, UNCHANGED amccVars
    PROVE  /\ TypeInv' /\ UsbSync' /\ at \in UsbSteps
           /\ UNCHANGED <<got, log>> \/ Emits
<1>1. at \in UsbSteps /\ result = 0
  BY NextTransfer DEF OsUsbTransfer
<1>2. PICK k \in 0 .. Len(Transfers) - 1 :
          /\ Progress(k)
          /\ k + 1 \in 1 .. Len(Transfers)
          /\ k + 1 \in 0 .. Len(Transfers)
          /\ Head(pending) = Transfers[k + 1]
          /\ Tail(pending) = SubSeq(Transfers, (k + 1) + 1, Len(Transfers))
  BY NextTransfer DEF OsUsbTransfer
<1>. DEFINE x == Head(pending)
<1>3. /\ Arrives(x) /\ InTransfer /\ x = Transfers[k + 1]
      /\ inbuf' = IF x = In THEN Append(inbuf, Head(dev.fifo)) ELSE inbuf
      /\ pending' = Tail(pending) /\ result' = 0
  BY <1>2 DEF OsUsbTransfer
<1>. HIDE DEF x
<1>4. /\ dev' \in DevState /\ (UNCHANGED <<got, log>> \/ Emits)
      /\ at \in {"word", "load", "address"} => Progress(k + 1)'
      /\ at = "read" => k \in 0 .. 11
  BY <1>1, <1>2, <1>3, AnyArrives
<1>5. at' = at /\ call' = call /\ Transfers' = Transfers
  BY <1>3, TransfersStay DEF InTransfer
<1>6. Progress(k + 1)'
  <2>1. CASE at = "read"
    BY <1>2, <1>3, <1>4, <2>1, StatusArrives
  <2>2. CASE at \in Quietly \ {"read"}
    BY <1>5, <2>2 DEF Quietly, Progress
  <2>. QED
    BY <1>1, <1>4, <2>1, <2>2 DEF UsbSteps, RamSteps, Quietly
<1>7. UsbSync'
  <2>1. pending' = SubSeq(Transfers', (k + 1) + 1, Len(Transfers'))
    BY <1>2, <1>3, <1>5
  <2>2. k + 1 \in 0 .. Len(Transfers')
    BY <1>2, <1>5
  <2>. QED
    <3>1. \E j \in 0 .. Len(Transfers') :
              pending' = SubSeq(Transfers', j + 1, Len(Transfers')) /\ Progress(j)'
      BY <1>6, <2>1, <2>2
    <3>2. at' \in UsbSteps /\ result' # -1
      BY <1>1, <1>3, <1>5
    <3>. QED
      BY <3>1, <3>2 DEF UsbSync
<1>8. inbuf' \in Seq(Seq(Nat))
  <2>1. dev.fifo \in Seq(Nat) \X Seq(Nat) /\ inbuf \in Seq(Seq(Nat))
    BY DEF TypeInv, UsbType, DevState
  <2>2. Head(dev.fifo) \in Seq(Nat)
    BY <2>1
  <2>. DEFINE T == Seq(Nat)  h == Head(dev.fifo)
  <2>3. inbuf \in Seq(T) /\ h \in T /\ inbuf' \in {inbuf, Append(inbuf, h)}
    BY <1>3, <2>1, <2>2
  <2>4. inbuf' \in Seq(T)
    <3>. HIDE DEF T, h
    <3>. QED
      BY <2>3, AppendProperties
  <2>. QED
    BY <2>4
<1>9. LogType' /\ got' \in BOOLEAN
  BY <1>4, <1>5, EmitsType
<1>10. TypeInv'
  BY <1>3, <1>4, <1>8, <1>9, InTransferTypes
<1>. QED
  BY <1>1, <1>4, <1>7, <1>10

LEMMA FailureKeeps ==
    ASSUME TypeInv, UsbSync, OsUsbTransferFails, UNCHANGED amccVars
    PROVE  /\ TypeInv' /\ UsbSync' /\ at \in UsbSteps
           /\ UNCHANGED <<got, log>> \/ Emits
<1>1. at \in UsbSteps /\ result = 0
  BY NextTransfer DEF OsUsbTransferFails
<1>2. PICK k \in 0 .. Len(Transfers) - 1 :
          /\ Progress(k)
          /\ k + 1 \in 1 .. Len(Transfers)
          /\ Head(pending) = Transfers[k + 1]
  BY NextTransfer DEF OsUsbTransferFails
<1>. DEFINE x == Head(pending)
<1>3. /\ Arrives(x) \/ UNCHANGED <<dev, got, log>>
      /\ InTransfer /\ x = Transfers[k + 1]
      /\ inbuf' = inbuf /\ pending' = <<>> /\ result' = -1
  BY <1>2 DEF OsUsbTransferFails
<1>. HIDE DEF x
<1>4. dev \in DevState /\ inbuf \in Seq(Seq(Nat))
  BY DEF TypeInv, UsbType
<1>5. dev' \in DevState /\ (UNCHANGED <<got, log>> \/ Emits)
  <2>1. CASE Arrives(x)
    BY <1>1, <1>2, <1>3, <2>1, AnyArrives
  <2>2. CASE UNCHANGED <<dev, got, log>>
    BY <1>4, <2>2
  <2>. QED
    BY <1>3, <2>1, <2>2
<1>6. LogType' /\ got' \in BOOLEAN
  BY <1>3, <1>5, EmitsType DEF InTransfer
<1>7. TypeInv'
  BY <1>3, <1>4, <1>5, <1>6, InTransferTypes
<1>8. UsbSync'
  BY <1>1, <1>3 DEF UsbSync, InTransfer
<1>. QED
  BY <1>1, <1>5, <1>7, <1>8

\* At the end of a step that has not failed, all its transfers have arrived.
LEMMA StepOver ==
    ASSUME TypeInv, UsbSync, at \in UsbSteps, pending = <<>>, result = 0
    PROVE  /\ Progress(Len(Transfers))
           /\ at \in {"word", "load"} => Len(Transfers) = 4
           /\ at = "read" => Len(Transfers) = 12
<1>1. PICK k \in 0 .. Len(Transfers) :
          pending = SubSeq(Transfers, k + 1, Len(Transfers)) /\ Progress(k)
  BY DEF UsbSync
<1>2. Transfers \in Seq(Transfer)
  BY TransfersType
<1>3. k = Len(Transfers)
  BY <1>1, <1>2, Suffix
<1>4. /\ Core \in Nat /\ (\A a \in Nat, w \in Nat : Len(WriteReg(a, w)) = 4)
      /\ at = "word" => CoreWord(call.port, call.data[1], 0) \in Nat
      /\ at = "load" => CoreWord(call.port, call.data[1], 1) \in Nat
  BY WordOfCall, CoreWordFacts, WriteRegFacts DEF Core
<1>5. /\ at = "word" => Transfers = WriteReg(Core, CoreWord(call.port, call.data[1], 0))
      /\ at = "load" => Transfers = WriteReg(Core, CoreWord(call.port, call.data[1], 1))
      /\ at = "read" => Transfers = ReadReg(Control)
  BY TransfersType
<1>6. at \in {"word", "load"} => Len(Transfers) = 4
  BY <1>4, <1>5
<1>. QED
  BY <1>1, <1>3, <1>5, <1>6, ReadRegFacts

LEMMA StartsSync ==
    ASSUME at' \in UsbSteps, NEW xs \in Seq(Transfer), Starts(xs), Transfers' = xs,
           Progress(0)'
    PROVE  UsbSync'
<1>1. SubSeq(xs, 0 + 1, Len(xs)) = xs /\ Len(xs) \in Nat
  BY SubSeqFull, LenProperties
<1>2. 0 \in 0 .. Len(xs)
  BY <1>1
<1>3. pending' = SubSeq(Transfers', 0 + 1, Len(Transfers')) /\ result' # -1
  BY <1>1 DEF Starts
<1>4. \E k \in 0 .. Len(Transfers') :
          pending' = SubSeq(Transfers', k + 1, Len(Transfers')) /\ Progress(k)'
  BY <1>2, <1>3
<1>. QED
  BY <1>3, <1>4 DEF UsbSync

\* From one step of a call to the next.
LEMMA UsbGoes ==
    ASSUME TypeInv, at \in UsbSteps, NEW l \in UsbSteps, Goto(l), Keep, NEW xs, Starts(xs),
           trust' \in BOOLEAN, UNCHANGED amccVars, Steps'
    PROVE  TypeInv'
<1>1. CallType' /\ PortType'
  <2>1. l # "idle" /\ at # "idle" /\ Kept
    BY DEF Kept, Keep, UsbSteps, RamSteps
  <2>. QED
    BY <2>1, GotoTypes
<1>2. at' \in UsbSteps /\ at' = l
  BY DEF Goto
<1>3. AmccType'
  BY <1>2 DEF TypeInv, AmccType, amccVars, UsbSteps, RamSteps
<1>4. Limits'
  BY <1>2 DEF TypeInv, Limits, amccVars, UsbSteps, RamSteps
<1>5. UsbType'
  <2>1. <<>> \in Seq(Seq(Nat))
    OBVIOUS
  <2>. QED
    BY <2>1 DEF TypeInv, UsbType, Keep, Starts
<1>. QED
  BY <1>1, <1>3, <1>4, <1>5 DEF TypeInv

LEMMA UsbReturns ==
    ASSUME TypeInv, at \in UsbSteps, NEW value \in {-1, 0} \cup Byte, Return(value),
           UNCHANGED <<dev, got, log, trust>>, Starts(<<>>), UNCHANGED amccVars
    PROVE  TypeInv' /\ UsbSync'
<1>1. Steps' /\ CallType' /\ PortType'
  BY ReturnTypes DEF Kept, TypeInv, PortType
<1>2. at' = "idle"
  BY DEF Return
<1>3. AmccType'
  BY <1>2 DEF TypeInv, AmccType, amccVars
<1>4. Limits'
  BY <1>2 DEF TypeInv, Limits, amccVars
<1>5. UsbType'
  <2>1. <<>> \in Seq(Seq(Nat))
    OBVIOUS
  <2>. QED
    BY <1>2, <2>1 DEF TypeInv, UsbType, Starts, UsbSteps, RamSteps
<1>6. UsbSync'
  BY <1>2 DEF UsbSync, Starts, UsbSteps, RamSteps
<1>. QED
  BY <1>1, <1>3, <1>4, <1>5, <1>6 DEF TypeInv

LEMMA LoadCoreKeeps ==
    ASSUME TypeInv, UsbSync, LoadCore, UNCHANGED amccVars
    PROVE  TypeInv' /\ UsbSync'
<1>1. at = "word" /\ at \in UsbSteps /\ pending = <<>> /\ result = 0
  BY DEF LoadCore, Over, UsbSteps
<1>. DEFINE xs == WriteReg(Core, CoreWord(call.port, call.data[1], 1))
<1>2. Goto("load") /\ Starts(xs) /\ Keep /\ UNCHANGED trust
  BY Zenon DEF LoadCore, Then
<1>3. Steps'
  BY <1>1, <1>2 DEF TypeInv, Steps, Goto, AmccSteps, OldSteps, UsbSteps, RamSteps
<1>4. TypeInv'
  <2>1. "load" \in UsbSteps /\ trust' \in BOOLEAN
    BY <1>2 DEF UsbSteps, TypeInv, PortType
  <2>. QED
    BY <1>1, <1>2, <1>3, <2>1, UsbGoes
<1>5. Progress(4)
  BY <1>1, StepOver
<1>6. Progress(0)'
  BY <1>1, <1>2, <1>5 DEF Progress, Goto, Keep, Addressing
<1>7. xs \in Seq(Transfer)
  <2>1. Core \in Nat /\ CoreWord(call.port, call.data[1], 1) \in Nat
    BY <1>1, WordOfCall, CoreWordFacts DEF Core
  <2>. QED
    BY <2>1, WriteRegFacts
<1>8. Transfers' = xs /\ at' \in UsbSteps
  BY <1>2 DEF Goto, Transfers, UsbSteps
<1>. QED
  BY <1>2, <1>4, <1>6, <1>7, <1>8, StartsSync

LEMMA UsbOutpReturnsKeeps ==
    ASSUME TypeInv, UsbSync, UsbOutpReturns, UNCHANGED amccVars
    PROVE  TypeInv' /\ UsbSync'
<1>1. at \in UsbSteps /\ result \in {-1, 0}
  BY DEF UsbOutpReturns, Over, UsbSteps, TypeInv, UsbType
<1>2. Return(result) /\ Starts(<<>>) /\ UNCHANGED <<dev, got, log, trust>>
  BY DEF UsbOutpReturns, Answers, Keep
<1>. QED
  BY <1>1, <1>2, UsbReturns

\* The value that usb_read_reg returns was fetched during the call.
LEMMA UsbReadRegReturnsKeeps ==
    ASSUME TypeInv, UsbSync, UsbReadRegReturns, UNCHANGED amccVars
    PROVE  TypeInv' /\ UsbSync' /\ ReadIsFresh'
<1>. DEFINE value == IF result < 0 THEN result ELSE inbuf[Len(inbuf)][1]
<1>1. at = "read" /\ at \in UsbSteps /\ pending = <<>> /\ result \in {-1, 0}
  BY DEF UsbReadRegReturns, Over, UsbSteps, TypeInv, UsbType
<1>2. Return(value) /\ Starts(<<>>) /\ UNCHANGED <<dev, got, log, trust>>
  BY DEF UsbReadRegReturns, Answers, Keep
<1>3. value = -1 \/ value \in seen
  <2>1. CASE result = 0
    <3>1. Progress(12)
      BY <1>1, <2>1, StepOver
    <3>2. Fresh(inbuf[Len(inbuf)])
      BY <1>1, <3>1 DEF Progress
    <3>3. inbuf[Len(inbuf)][1] \in seen
      BY <3>2 DEF Fresh
    <3>. QED
      BY <2>1, <3>3
  <2>2. CASE result = -1
    BY <2>2
  <2>. QED
    BY <1>1, <2>1, <2>2
<1>. HIDE DEF value
<1>4. value \in {-1, 0} \cup Byte
  BY <1>3 DEF TypeInv, PortType
<1>5. TypeInv' /\ UsbSync'
  BY <1>1, <1>2, <1>4, UsbReturns
<1>6. ReadIsFresh'
  <2>1. ret'.value = value /\ seen' = seen
    BY <1>2 DEF Return
  <2>. QED
    BY <1>3, <2>1 DEF ReadIsFresh
<1>. QED
  BY <1>5, <1>6

\* The steps of usb_write_ram and usb_read_ram.
LEMMA RamGoes ==
    ASSUME TypeInv, at \in RamSteps, NEW l \in RamSteps \ {"address"}, Goto(l), Keep,
           NEW xs \in Seq(Transfer), Starts(xs), Transfers' = xs,
           trust' \in BOOLEAN, UNCHANGED amccVars, Steps'
    PROVE  TypeInv' /\ UsbSync'
<1>1. at \in UsbSteps /\ l \in UsbSteps /\ at' = l
  BY DEF UsbSteps, Goto
<1>2. TypeInv'
  BY <1>1, UsbGoes
<1>3. Progress(0)'
  BY <1>1 DEF Progress, RamSteps
<1>. QED
  BY <1>1, <1>2, <1>3, StartsSync

LEMMA IgnoringTrust ==
    ASSUME TypeInv, NEW l, NEW xs, Ignoring(l, xs)
    PROVE  trust' \in BOOLEAN
BY TrustType DEF Ignoring, TypeInv, PortType

LEMMA SetupRamKeeps ==
    ASSUME TypeInv, SetupRam, UNCHANGED amccVars
    PROVE  TypeInv' /\ UsbSync'
<1>1. at = "address" /\ Ignoring("setup", SetupXfer(DataRam))
  BY DEF SetupRam, Over
<1>2. Goto("setup") /\ Starts(SetupXfer(DataRam)) /\ Keep /\ trust' \in BOOLEAN
  BY <1>1, IgnoringTrust DEF Ignoring
<1>3. Steps'
  BY <1>1, <1>2 DEF TypeInv, Steps, Goto, AmccSteps, OldSteps, UsbSteps, RamSteps
<1>4. Transfers' = SetupXfer(DataRam)
  BY <1>2 DEF Goto, Transfers
<1>5. at \in RamSteps /\ "setup" \in RamSteps \ {"address"}
  BY <1>1 DEF RamSteps
<1>. QED
  BY <1>2, <1>3, <1>4, <1>5, SetupFacts, RamGoes

LEMMA WriteBlocksKeeps ==
    ASSUME TypeInv, WriteBlocks, UNCHANGED amccVars
    PROVE  TypeInv' /\ UsbSync'
<1>1. at = "setup" /\ call.fn = "usb_write_ram" /\ Ignoring("write", Pieces(call.data))
  BY DEF WriteBlocks, Over
<1>2. Goto("write") /\ Starts(Pieces(call.data)) /\ Keep /\ trust' \in BOOLEAN
  BY <1>1, IgnoringTrust DEF Ignoring
<1>3. Steps'
  BY <1>1, <1>2 DEF TypeInv, Steps, Goto, AmccSteps, OldSteps, UsbSteps, RamSteps
<1>4. Transfers' = Pieces(call.data)
  BY <1>2 DEF Goto, Transfers
<1>5. at \in RamSteps /\ "write" \in RamSteps \ {"address"}
  BY <1>1 DEF RamSteps
<1>6. Pieces(call.data) \in Seq(Transfer)
  BY <1>1, PiecesFacts DEF TypeInv, CallType
<1>. QED
  BY <1>2, <1>3, <1>4, <1>5, <1>6, RamGoes

LEMMA WriteRamReturnsKeeps ==
    ASSUME TypeInv, WriteRamReturns, UNCHANGED amccVars
    PROVE  TypeInv' /\ UsbSync'
<1>1. at \in UsbSteps /\ result \in {-1, 0}
  BY DEF WriteRamReturns, Over, UsbSteps, RamSteps, TypeInv, UsbType
<1>2. Return(result) /\ Starts(<<>>) /\ UNCHANGED <<dev, got, log, trust>>
  BY DEF WriteRamReturns
<1>. QED
  BY <1>1, <1>2, UsbReturns

LEMMA ReadBlocksKeeps ==
    ASSUME TypeInv, ReadBlocks, UNCHANGED amccVars
    PROVE  TypeInv' /\ UsbSync'
<1>. DEFINE m == NumXfers + 2 + (IF Excess = 0 THEN 0 ELSE 1)
            xs == Repeat(m, <<ControlByte(FALSE), In>>) \o <<In, In>>
<1>1. at = "setup" /\ call.fn = "usb_read_ram" /\ Ignoring("blocks", xs)
  BY Zenon DEF ReadBlocks, Over
<1>2. m \in Nat
  <2>1. call.data \in Seq(Nat) /\ Len(call.data) = 1
    BY <1>1 DEF TypeInv, CallType
  <2>2. 1 \in 1 .. Len(call.data)
    BY <2>1
  <2>3. call.data[1] \in Nat
    BY <2>1, <2>2, ElementOfSeq
  <2>4. NumXfers \in Nat
    BY <2>3, SMTT(30) DEF NumXfers
  <2>. QED
    BY <2>4
<1>3. xs \in Seq(Transfer)
  <2>. HIDE DEF m
  <2>. QED
    BY <1>2, BlocksFacts, Zenon
<1>4. at' = "blocks" => Transfers' = (Repeat(m, <<ControlByte(FALSE), In>>) \o <<In, In>>)'
  BY Zenon DEF Transfers
<1>5. call' = call => (Repeat(m, <<ControlByte(FALSE), In>>) \o <<In, In>>)' = xs
  BY Zenon DEF NumXfers, Excess
<1>. HIDE DEF m, xs
<1>6. Goto("blocks") /\ Starts(xs) /\ Keep /\ trust' \in BOOLEAN
  BY <1>1, IgnoringTrust DEF Ignoring
<1>7. Steps'
  BY <1>1, <1>6 DEF TypeInv, Steps, Goto, AmccSteps, OldSteps, UsbSteps, RamSteps
<1>8. Transfers' = xs
  BY <1>4, <1>5, <1>6, Zenon DEF Goto
<1>9. at \in RamSteps /\ "blocks" \in RamSteps \ {"address"}
  BY <1>1 DEF RamSteps
<1>. QED
  BY <1>3, <1>6, <1>7, <1>8, <1>9, RamGoes

LEMMA FlushReadsKeeps ==
    ASSUME TypeInv, FlushReads, UNCHANGED amccVars
    PROVE  TypeInv' /\ UsbSync'
<1>1. at = "blocks" /\ Goto("flush") /\ Starts(ReadReg(Control)) /\ Keep
  BY DEF FlushReads, Over
<1>2. trust' \in BOOLEAN
  BY TrustType DEF FlushReads, TypeInv, PortType
<1>3. Steps'
  BY <1>1 DEF TypeInv, Steps, Goto, AmccSteps, OldSteps, UsbSteps, RamSteps
<1>4. Transfers' = ReadReg(Control)
  BY <1>1 DEF Goto, Transfers
<1>5. at \in RamSteps /\ "flush" \in RamSteps \ {"address"}
  BY <1>1 DEF RamSteps
<1>. QED
  BY <1>1, <1>2, <1>3, <1>4, <1>5, ReadRegFacts, RamGoes

LEMMA FlushAgainKeeps ==
    ASSUME TypeInv, FlushAgain, UNCHANGED amccVars
    PROVE  TypeInv' /\ UsbSync'
<1>1. at = "flush" /\ Goto("flush again") /\ Starts(ReadReg(Control)) /\ Keep
  BY DEF FlushAgain, Over, Then
<1>2. trust' \in BOOLEAN
  BY DEF FlushAgain, Then, TypeInv, PortType
<1>3. Steps'
  BY <1>1 DEF TypeInv, Steps, Goto, AmccSteps, OldSteps, UsbSteps, RamSteps
<1>4. Transfers' = ReadReg(Control)
  BY <1>1 DEF Goto, Transfers
<1>5. at \in RamSteps /\ "flush again" \in RamSteps \ {"address"}
  BY <1>1 DEF RamSteps
<1>. QED
  BY <1>1, <1>2, <1>3, <1>4, <1>5, ReadRegFacts, RamGoes

LEMMA ReadRamReturnsKeeps ==
    ASSUME TypeInv, ReadRamReturns, UNCHANGED amccVars
    PROVE  TypeInv' /\ UsbSync'
<1>1. at \in UsbSteps
  BY DEF ReadRamReturns, Over, UsbSteps, RamSteps
<1>2. /\ Return(-1) \/ Return(0)
      /\ Starts(<<>>) /\ UNCHANGED <<dev, got, log, trust>>
  BY DEF ReadRamReturns, Answers, Keep
<1>. QED
  BY <1>1, <1>2, UsbReturns

LEMMA UsbBegins ==
    ASSUME TypeInv, NEW fn \in Functions \ {"none"}, NEW port \in Nat, NEW data \in Seq(Nat),
           NEW first \in {"word", "read", "address"}, NEW xs \in Seq(Transfer),
           CallUsb(fn, port, data, first, xs), UNCHANGED amccVars,
           fn = "pb_outp" => port \in Port /\ \E b \in Byte : data = <<b>>,
           fn = "usb_write_ram" => data \in Seq(Byte),
           fn = "usb_read_ram" => Len(data) = 1,
           first = "word" <=> fn = "pb_outp",
           first = "read" <=> fn = "usb_read_reg",
           first = "address" <=> fn \in {"usb_write_ram", "usb_read_ram"},
           Transfers' = xs
    PROVE  TypeInv' /\ UsbSync'
<1>1. Begin(fn, port, data, first) /\ Starts(xs) /\ UNCHANGED dev /\ board = "usb"
  BY DEF CallUsb
<1>2. CallType' /\ PortType'
  BY <1>1, BeginTypes
<1>3. at' = first /\ call' = [fn |-> fn, port |-> port, data |-> data] /\ board' = board
      /\ at' \in UsbSteps
  BY <1>1 DEF Begin, UsbSteps, RamSteps
<1>4. Steps'
  <2>1. call'.fn = fn /\ call' # NoCall
    BY <1>3 DEF NoCall
  <2>. QED
    BY <1>1, <1>3, <2>1 DEF Steps, AmccSteps, OldSteps, UsbSteps, RamSteps
<1>5. AmccType'
  BY <1>3 DEF TypeInv, AmccType, amccVars
<1>6. Limits'
  BY <1>3 DEF TypeInv, Limits, amccVars
<1>7. UsbType'
  <2>1. <<>> \in Seq(Seq(Nat))
    OBVIOUS
  <2>. QED
    BY <1>1, <2>1 DEF TypeInv, UsbType, Starts
<1>8. Progress(0)'
  <2>1. first = "word" => ~got'
    BY <1>1 DEF Begin
  <2>. QED
    BY <1>3, <2>1 DEF Progress, Addressing
<1>9. UsbSync'
  BY <1>1, <1>3, <1>8, StartsSync
<1>. QED
  BY <1>2, <1>4, <1>5, <1>6, <1>7, <1>9 DEF TypeInv

LEMMA UsbOutpKeeps ==
    ASSUME TypeInv, UsbOutp, UNCHANGED amccVars
    PROVE  TypeInv' /\ UsbSync'
<1>1. PICK p \in Port, b \in Byte :
          CallUsb("pb_outp", p, <<b>>, "word", WriteReg(Core, CoreWord(p, b, 0)))
  BY DEF UsbOutp
<1>. DEFINE xs == WriteReg(Core, CoreWord(p, b, 0))
<1>2. p \in Nat /\ <<b>> \in Seq(Nat) /\ <<b>>[1] = b
  BY DEF Port, Byte
<1>3. xs \in Seq(Transfer)
  BY CoreWordFacts, WriteRegFacts DEF Core
<1>4. Transfers' = xs
  <2>1. call'.port = p /\ call'.data = <<b>> /\ at' = "word"
    BY <1>1 DEF CallUsb, Begin
  <2>. QED
    BY <1>2, <2>1 DEF Transfers
<1>. DEFINE data == <<b>>
<1>5. /\ CallUsb("pb_outp", p, data, "word", xs) /\ data \in Seq(Nat)
      /\ \E c \in Byte : data = <<c>>
  BY <1>1, <1>2
<1>. HIDE DEF xs, data
<1>6. "pb_outp" \in Functions \ {"none"} /\ "word" \in {"word", "read", "address"}
  BY DEF Functions
<1>. QED
  BY <1>2, <1>3, <1>4, <1>5, <1>6, UsbBegins

LEMMA UsbReadRegKeeps ==
    ASSUME TypeInv, UsbReadReg, UNCHANGED amccVars
    PROVE  TypeInv' /\ UsbSync'
<1>1. CallUsb("usb_read_reg", 0, <<>>, "read", ReadReg(Control))
  BY DEF UsbReadReg
<1>2. ReadReg(Control) \in Seq(Transfer) /\ <<>> \in Seq(Nat)
  BY ReadRegFacts
<1>3. Transfers' = ReadReg(Control)
  BY <1>1 DEF CallUsb, Begin, Transfers
<1>. QED
  BY <1>1, <1>2, <1>3, UsbBegins DEF Functions

LEMMA UsbWriteRamKeeps ==
    ASSUME TypeInv, UsbWriteRam, UNCHANGED amccVars
    PROVE  TypeInv' /\ UsbSync'
<1>1. PICK r \in Ranges : CallUsb("usb_write_ram", r.start, Pattern(r.length), "address",
                                  WriteReg(RamAddress, r.start))
  BY DEF UsbWriteRam
<1>2. r.start \in Nat /\ r.length \in Nat /\ RamAddress \in Nat
  BY DEF RamAddress
<1>3. WriteReg(RamAddress, r.start) \in Seq(Transfer)
  BY <1>2, WriteRegFacts
<1>4. Pattern(r.length) \in Seq(Byte)
  <2>. DEFINE line(k) == 1 + ((calls + k) % 2)
  <2>1. \A k \in 1 .. r.length : line(k) \in Byte
    BY <1>2 DEF TypeInv, PortType, Byte
  <2>2. [k \in 1 .. r.length |-> line(k)] \in Seq(Byte)
    <3>. HIDE DEF line
    <3>. QED
      BY <1>2, <2>1, IsASeq
  <2>. QED
    BY <2>2 DEF Pattern
<1>5. Pattern(r.length) \in Seq(Nat)
  <2>1. Byte \subseteq Nat
    BY DEF Byte
  <2>. QED
    BY <1>4, <2>1, SeqMonotonic
<1>6. Transfers' = WriteReg(RamAddress, r.start)
  BY <1>1 DEF CallUsb, Begin, Transfers
<1>. QED
  BY <1>1, <1>2, <1>3, <1>4, <1>5, <1>6, UsbBegins DEF Functions

LEMMA UsbReadRamKeeps ==
    ASSUME TypeInv, UsbReadRam, UNCHANGED amccVars
    PROVE  TypeInv' /\ UsbSync'
<1>1. PICK r \in Ranges : CallUsb("usb_read_ram", r.start, <<r.length>>, "address",
                                  WriteReg(RamAddress, r.start))
  BY DEF UsbReadRam
<1>2. r.start \in Nat /\ r.length \in Nat /\ RamAddress \in Nat
  BY DEF RamAddress
<1>3. WriteReg(RamAddress, r.start) \in Seq(Transfer)
  BY <1>2, WriteRegFacts
<1>4. <<r.length>> \in Seq(Nat) /\ Len(<<r.length>>) = 1
  BY <1>2
<1>5. Transfers' = WriteReg(RamAddress, r.start)
  BY <1>1 DEF CallUsb, Begin, Transfers
<1>. DEFINE data == <<r.length>>
<1>6. /\ CallUsb("usb_read_ram", r.start, data, "address", WriteReg(RamAddress, r.start))
      /\ data \in Seq(Nat) /\ Len(data) = 1
  BY <1>1, <1>4
<1>. HIDE DEF data
<1>7. "usb_read_ram" \in Functions \ {"none"} /\ "address" \in {"word", "read", "address"}
  BY DEF Functions
<1>. QED
  BY <1>2, <1>3, <1>5, <1>6, <1>7, UsbBegins

-----------------------------------------------------------------------------
(* The types: what all boards have in common.                              *)

LEMMA InpUnsupportedKeeps ==
    ASSUME TypeInv, UsbSync, InpUnsupported
    PROVE  TypeInv' /\ UsbSync'
<1>1. /\ Begin("pb_inp", 0, <<>>, "unsupported") /\ board \in {"usb", "amcc_old"}
      /\ UNCHANGED amccVars /\ UNCHANGED usbVars
  BY DEF InpUnsupported
<1>2. CallType' /\ PortType'
  <2>1. <<>> \in Seq(Nat)
    OBVIOUS
  <2>. QED
    BY <1>1, <2>1, BeginTypes DEF Functions
<1>3. /\ at' = "unsupported" /\ call'.fn = "pb_inp" /\ call' # NoCall
      /\ board' \in {"usb", "amcc_old"}
  BY <1>1 DEF Begin, NoCall
<1>4. Steps'
  BY <1>3 DEF Steps, Functions, AmccSteps, OldSteps, UsbSteps, RamSteps
<1>5. AmccType' /\ Limits'
  BY <1>1, <1>3 DEF TypeInv, AmccType, Limits, amccVars
<1>6. UsbType'
  BY <1>1, <1>3 DEF TypeInv, UsbType, usbVars, UsbSteps, RamSteps
<1>7. UsbSync'
  <2>1. at = "idle"
    BY <1>1 DEF TypeInv, Steps, Begin
  <2>. QED
    BY <1>1, <1>3, <2>1 DEF UsbSync, usbVars, UsbSteps, RamSteps
<1>. QED
  BY <1>2, <1>4, <1>5, <1>6, <1>7 DEF TypeInv

LEMMA RefuseInpKeeps ==
    ASSUME TypeInv, UsbSync, RefuseInp
    PROVE  TypeInv' /\ UsbSync'
<1>1. at = "unsupported" /\ Return(-1) /\ UNCHANGED <<got, log, trust>>
      /\ UNCHANGED amccVars /\ UNCHANGED usbVars
  BY DEF RefuseInp
<1>2. Steps' /\ CallType' /\ PortType'
  BY <1>1, ReturnTypes DEF Kept, TypeInv, PortType
<1>3. at' = "idle"
  BY <1>1 DEF Return
<1>4. AmccType' /\ Limits'
  BY <1>1, <1>3 DEF TypeInv, AmccType, Limits, amccVars
<1>5. UsbType' /\ UsbSync'
  BY <1>1, <1>3 DEF TypeInv, UsbType, UsbSync, usbVars, UsbSteps, RamSteps
<1>. QED
  BY <1>2, <1>4, <1>5 DEF TypeInv

LEMMA StatusChangeKeeps ==
    ASSUME TypeInv, UsbSync, StatusChange, UNCHANGED amccVars, UNCHANGED usbVars
    PROVE  TypeInv' /\ UsbSync'
<1>1. /\ UNCHANGED <<board, call, at, calls, ret, got, log, failed, trust>>
      /\ status' \in Byte /\ seen' = seen \cup {status'}
  BY DEF StatusChange
<1>2. Steps' /\ CallType' /\ Limits' /\ PortType'
  <2>1. Steps' /\ CallType'
    BY <1>1 DEF TypeInv, Steps, CallType
  <2>2. Limits'
    BY <1>1 DEF TypeInv, Limits, amccVars
  <2>3. PortType'
    BY <1>1 DEF TypeInv, PortType
  <2>. QED
    BY <2>1, <2>2, <2>3
<1>3. AmccType'
  BY <1>1 DEF TypeInv, AmccType, Sending, amccVars
<1>4. UsbType'
  BY <1>1 DEF TypeInv, UsbType, usbVars
<1>5. ASSUME NEW k \in 0 .. Len(Transfers), Progress(k)
      PROVE  Progress(k)'
  <2>1. \A b : Fresh(b) => \E s \in seen' : b = <<s>>
    BY <1>1 DEF Fresh
  <2>2. dev' = dev /\ inbuf' = inbuf /\ at' = at /\ got' = got
    BY <1>1 DEF usbVars
  <2>. QED
    BY <1>5, <2>1, <2>2 DEF Progress, Fresh
<1>6. Transfers' = Transfers /\ UNCHANGED <<pending, result, at>>
  BY <1>1, TransfersStay DEF usbVars
<1>7. UsbSync'
  BY <1>5, <1>6 DEF UsbSync
<1>. QED
  BY <1>2, <1>3, <1>4, <1>7 DEF TypeInv

-----------------------------------------------------------------------------
(* AMCC: the handshake.                                                    *)

LEMMA Trusting ==
    ASSUME TypeInv, NEW hazard \in Voids, Distrusted(hazard)
    PROVE  ~trust'
BY DEF Distrusted

\* The fields that the clearing of XFER changes, and those that it leaves.
LEMMA ClearedFields ==
    ASSUME TypeInv
    PROVE  /\ Cleared.out = NoWord /\ ~Cleared.ack
           /\ Cleared.word = chip.word /\ Cleared.role = chip.role
           /\ Cleared.port = chip.port /\ Cleared.recv = chip.recv
           /\ Cleared.reading <=> chip.reading
           /\ Cleared.ready <=> chip.ready
           /\ Cleared.incoming = chip.incoming /\ Cleared.tag = chip.tag
<1>1. \A t \in BOOLEAN, a \in BOOLEAN :
          LET c == [chip EXCEPT !.out = NoWord, !.taken = t, !.ack = a]
          IN  /\ c.out = NoWord /\ (c.ack <=> a)
              /\ c.word = chip.word /\ c.role = chip.role
              /\ c.port = chip.port /\ c.recv = chip.recv
              /\ c.reading <=> chip.reading
              /\ c.ready <=> chip.ready
              /\ c.incoming = chip.incoming /\ c.tag = chip.tag
  BY DEF TypeInv, AmccType, ChipState
<1>2. FALSE \in BOOLEAN
  OBVIOUS
<1>. QED
  BY <1>1, <1>2, Zenon DEF Cleared

LEMMA AmccOutpSync ==
    ASSUME TypeInv, Handshake, AmccOutp
    PROVE  Handshake' /\ ~got'
<1>1. at = "idle"
  BY DEF AmccOutp, Begin, TypeInv, Steps
<1>2. /\ at' = "clear" /\ half' = "address" /\ chip' = chip /\ call'.fn = "pb_outp"
  BY DEF AmccOutp, Begin
<1>3. ~got'
  BY Zenon DEF AmccOutp, Begin
<1>. QED
  BY <1>1, <1>2, <1>3 DEF Handshake, Settled, Waiting, Asleep

LEMMA AmccInpSync ==
    ASSUME TypeInv, Handshake, AmccInp
    PROVE  Handshake'
<1>1. at = "idle"
  BY DEF AmccInp, Begin, TypeInv, Steps
<1>2. at' = "clear" /\ half' = "address" /\ chip' = chip /\ call'.fn = "pb_inp"
  BY DEF AmccInp, Begin
<1>. QED
  BY <1>1, <1>2 DEF Handshake, Settled, Waiting, Asleep

LEMMA ClearXferSync ==
    ASSUME TypeInv, Handshake, ClearXfer
    PROVE  Handshake'
<1>1. /\ at = "clear" /\ half \in {"address", "data"} /\ at' = "send"
      /\ start' = chip.recv /\ chip' = Cleared
      /\ UNCHANGED <<todo, half, got, call, seen>>
  BY DEF ClearXfer, Goto, TypeInv, AmccType
<1>2. Settled /\ Waiting
  BY <1>1 DEF Handshake
<1>. QED
  BY <1>1, <1>2, ClearedFields DEF Handshake, Settled, Waiting, Asleep

\* The call of pb_outp has its byte at the port when it ends.
LEMMA OutpEndsSync ==
    ASSUME TypeInv, Handshake, OutpEnds
    PROVE  Handshake' /\ got
<1>1. /\ at = "clear" /\ half = "over" /\ call.fn = "pb_outp" /\ at' = "idle"
      /\ chip' = Cleared /\ seen' = seen
  BY DEF OutpEnds, Return
<1>2. Settled /\ Done /\ got /\ (chip.ready => chip.incoming \in seen)
  BY <1>1 DEF Handshake
<1>3. Head(todo).port # ReadCycle
  BY <1>1 DEF TypeInv, AmccType, CallType, Sending, To, Port, ReadCycle
<1>. QED
  BY <1>1, <1>2, <1>3, ClearedFields DEF Handshake, Settled, Done, Asleep

LEMMA InpGoesOnSync ==
    ASSUME TypeInv, Handshake, InpGoesOn
    PROVE  Handshake'
<1>1. /\ at = "clear" /\ half = "over" /\ call.fn = "pb_inp" /\ half' = "address"
      /\ chip' = Cleared /\ seen' = seen /\ call' = call
      /\ at' = IF Len(todo) = 1 THEN "await" ELSE "clear"
  BY DEF InpGoesOn, Goto
<1>2. Settled /\ Done /\ (chip.ready => chip.incoming \in seen)
  BY <1>1 DEF Handshake
<1>3. IF Len(todo) = 1 THEN Head(todo).port = ReadCycle ELSE Head(todo).port # ReadCycle
  BY <1>1 DEF TypeInv, AmccType, Sending, To, ReadAddress, ReadCycle
<1>. QED
  BY <1>1, <1>2, <1>3, ClearedFields DEF Handshake, Settled, Waiting, Done, Asleep

LEMMA SendWordSync ==
    ASSUME TypeInv, Handshake, SendWord
    PROVE  Handshake'
<1>1. /\ at = "send" /\ half \in {"address", "data"} /\ at' = "poll"
      /\ UNCHANGED <<todo, half, start, got, call, seen>>
  BY DEF SendWord, Goto, TypeInv, AmccType
<1>2. Head(todo)[IF half = "address" THEN "port" ELSE "data"] = Sent
  BY DEF Sent
<1>3. /\ chip'.out = Sent /\ ~chip'.taken
      /\ chip'.word = chip.word /\ chip'.role = chip.role
      /\ chip'.port = chip.port /\ chip'.recv = chip.recv
      /\ chip'.reading <=> chip.reading
      /\ chip'.ready <=> chip.ready
      /\ chip'.ack <=> chip.ack
      /\ chip'.incoming = chip.incoming
  <2>1. \A t \in BOOLEAN : LET c == [chip EXCEPT !.out = Sent, !.taken = t]
                           IN  /\ c.out = Sent /\ (c.taken <=> t)
                               /\ c.word = chip.word /\ c.role = chip.role
                               /\ c.port = chip.port /\ c.recv = chip.recv
                               /\ c.reading <=> chip.reading
                               /\ c.ready <=> chip.ready
                               /\ c.ack <=> chip.ack
                               /\ c.incoming = chip.incoming
    BY DEF TypeInv, AmccType, ChipState
  <2>2. FALSE \in BOOLEAN
    OBVIOUS
  <2>3. chip' = [chip EXCEPT !.out = Sent, !.taken = FALSE]
    BY <1>2, Zenon DEF SendWord
  <2>. QED
    BY <2>1, <2>2, <2>3, Zenon
<1>4. Waiting /\ chip.word = NoWord /\ start = chip.recv /\ ~chip.ack
  BY <1>1 DEF Handshake
<1>. QED
  BY <1>1, <1>3, <1>4 DEF Handshake, Waiting, Asleep, Sent

LEMMA PollWordSync ==
    ASSUME TypeInv, Handshake, PollWord, "late" \in Voids, trust'
    PROVE  Handshake'
<1>1. /\ at = "poll" /\ half \in {"address", "data"} /\ chip' = chip
      /\ UNCHANGED <<todo, start, got, call, seen>>
  BY DEF PollWord, Goto, TypeInv, AmccType
<1>2. CASE chip.recv # start
  <2>1. half' = Following /\ at' = "clear"
    BY <1>2 DEF PollWord, Goto
  <2>2. CASE half = "address"
    BY <1>1, <1>2, <2>1, <2>2 DEF Handshake, Following, Settled, Waiting, Asleep
  <2>3. CASE half = "data"
    BY <1>1, <1>2, <2>1, <2>3 DEF Handshake, Following, Settled, Done, Asleep
  <2>. QED
    BY <1>1, <2>2, <2>3
<1>3. CASE chip.recv = start
  <2>1. ~Distrusted("late")
    BY Trusting
  <2>2. half' = half /\ at' = "poll"
    BY <1>3, <2>1 DEF PollWord, Goto
  <2>. QED
    BY <1>1, <1>3, <2>2 DEF Handshake, Settled, Waiting, Asleep, Done, Sent
<1>. QED
  BY <1>2, <1>3

LEMMA AwaitByteSync ==
    ASSUME TypeInv, Handshake, AwaitByte, "late" \in Voids, trust'
    PROVE  Handshake'
<1>1. /\ at = "await" /\ call.fn = "pb_inp" /\ UNCHANGED <<todo, half>>
      /\ Settled /\ chip.role = "address" /\ (chip.reading <=> ~chip.ready) /\ ~chip.ack
      /\ chip.ready => chip.incoming \in seen
  BY DEF AwaitByte, Handshake, TypeInv, Steps
<1>2. CASE chip.ready
  <2>1. chip' = [chip EXCEPT !.ack = ~@] /\ start' = chip.incoming /\ at' = "release"
        /\ UNCHANGED <<seen, call>>
    BY <1>2 DEF AwaitByte, Goto
  <2>2. /\ chip'.out = chip.out /\ (chip'.taken <=> chip.taken)
        /\ chip'.word = chip.word /\ chip'.role = chip.role
        /\ chip'.reading <=> chip.reading
        /\ chip'.incoming = chip.incoming
    BY <2>1 DEF TypeInv, AmccType, ChipState
  <2>. QED
    BY <1>1, <1>2, <2>1, <2>2 DEF Handshake, Settled
<1>3. CASE ~chip.ready
  <2>1. ~Distrusted("late")
    BY Trusting
  <2>2. at' = "await" /\ UNCHANGED <<chip, start, seen, call>>
    BY <1>3, <2>1 DEF AwaitByte, Failed, Goto
  <2>. QED
    BY <1>1, <1>3, <2>2 DEF Handshake, Settled
<1>. QED
  BY <1>2, <1>3

\* The byte that pb_inp returns was a status during the call.
LEMMA AwaitReleaseSync ==
    ASSUME TypeInv, Handshake, AwaitRelease, "late" \in Voids, trust'
    PROVE  Handshake' /\ ReadIsFresh'
<1>1. /\ at = "release" /\ call # NoCall /\ UNCHANGED <<todo, half, start, chip>>
      /\ Settled /\ chip.role = "address" /\ ~chip.reading /\ start \in seen
      /\ chip.ready => chip.incoming \in seen
      /\ call.fn = "pb_inp"
  BY DEF AwaitRelease, Handshake, TypeInv, Steps
<1>2. CASE ~chip.ready
  <2>1. at' = "idle" /\ seen' = seen /\ ret'.value = start
    BY <1>2 DEF AwaitRelease, Return
  <2>. QED
    BY <1>1, <1>2, <2>1 DEF Handshake, Settled, Asleep, ReadIsFresh
<1>3. CASE chip.ready
  <2>1. ~Distrusted("late")
    BY Trusting
  <2>2. at' = "release" /\ UNCHANGED <<seen, call>>
    BY <1>3, <2>1 DEF AwaitRelease, Failed, Goto
  <2>. QED
    BY <1>1, <1>3, <2>2 DEF Handshake, Settled, ReadIsFresh
<1>. QED
  BY <1>2, <1>3

\* Only a word that is being polled for is one to take or to act upon.
LEMMA ActedUpon ==
    ASSUME TypeInv, Handshake, board = "amcc",
           ~Settled
    PROVE  at = "send" \/ (at = "poll" /\ chip.recv = start)
<1>1. at \in {"idle", "clear", "send", "poll", "await", "release"}
  BY DEF TypeInv, Steps, AmccSteps, OldSteps, UsbSteps, RamSteps
<1>2. at = "clear" => half \in {"address", "data", "over"}
  BY DEF TypeInv, AmccType
<1>. QED
  BY <1>1, <1>2 DEF Handshake

LEMMA ChipTakeSync ==
    ASSUME TypeInv, Handshake, board = "amcc", ChipTake
    PROVE  Handshake'
<1>1. /\ chip.out # NoWord /\ ~chip.taken /\ chip.word = NoWord
      /\ chip' = [chip EXCEPT !.word = chip.out, !.taken = TRUE]
      /\ UNCHANGED <<call, at, seen, got, todo, half, start>>
  BY DEF ChipTake, Quiet, locals
<1>2. at = "poll" /\ chip.recv = start
  <2>1. ~Settled
    BY <1>1 DEF Settled
  <2>. QED
    BY <1>1, <2>1, ActedUpon DEF Handshake
<1>3. /\ chip'.out = chip.out /\ chip'.taken /\ chip'.word = chip.out
      /\ chip'.role = chip.role /\ chip'.port = chip.port /\ chip'.recv = chip.recv
      /\ chip'.reading <=> chip.reading
      /\ chip'.ready <=> chip.ready
      /\ chip'.ack <=> chip.ack
      /\ chip'.incoming = chip.incoming
  <2>1. \A t \in BOOLEAN : LET c == [chip EXCEPT !.word = chip.out, !.taken = t]
                           IN  /\ c.out = chip.out /\ (c.taken <=> t) /\ c.word = chip.out
                               /\ c.role = chip.role /\ c.port = chip.port
                               /\ c.recv = chip.recv
                               /\ c.reading <=> chip.reading
                               /\ c.ready <=> chip.ready
                               /\ c.ack <=> chip.ack
                               /\ c.incoming = chip.incoming
    BY DEF TypeInv, AmccType, ChipState
  <2>2. TRUE \in BOOLEAN
    OBVIOUS
  <2>. QED
    BY <1>1, <2>1, <2>2, Zenon
<1>4. Waiting /\ chip.out = Sent /\ ~chip.ack
  BY <1>2 DEF Handshake
<1>. QED
  BY <1>1, <1>2, <1>3, <1>4 DEF Handshake, Waiting, Asleep, Sent

\* The second word makes the byte come out that the call has asked for, and not
\* for a second time.
LEMMA ChipToggleSync ==
    ASSUME TypeInv, Handshake, board = "amcc", ChipToggle
    PROVE  /\ Handshake'
           /\ \/ UNCHANGED <<got, log>>
              \/ /\ call.fn = "pb_outp" /\ ~got /\ got'
                 /\ log' = Append(log, To(call.port, call.data[1]))
<1>1. /\ chip.word # NoWord
      /\ UNCHANGED <<call, at, seen, todo, half, start>>
  BY DEF ChipToggle, Quiet, locals
<1>2. at = "poll" /\ chip.recv = start
  <2>1. ~Settled
    BY <1>1 DEF Settled
  <2>. QED
    BY <1>1, <2>1, ActedUpon DEF Handshake
<1>3. /\ Waiting /\ chip.out = Sent /\ ~chip.ack /\ chip.taken /\ chip.word = Sent
      /\ half \in {"address", "data"} /\ chip.recv \in {0, 1}
      /\ chip.ready => chip.incoming \in seen
  BY <1>1, <1>2 DEF Handshake, TypeInv, AmccType, ChipState
<1>. DEFINE done == [chip EXCEPT !.word = NoWord, !.recv = 1 - @,
                                 !.role = IF @ = "address" THEN "data" ELSE "address"]
<1>4. /\ done.word = NoWord /\ done.recv = 1 - chip.recv
      /\ done.role = (IF chip.role = "address" THEN "data" ELSE "address")
      /\ done.out = chip.out /\ done.port = chip.port
      /\ done.taken <=> chip.taken
      /\ done.reading <=> chip.reading
      /\ done.ready <=> chip.ready
      /\ done.ack <=> chip.ack
      /\ done.incoming = chip.incoming
      /\ DOMAIN done = {"out", "taken", "word", "role", "port", "recv", "reading", "ready",
                        "ack", "incoming", "tag", "bits", "counter", "high"}
  BY DEF TypeInv, AmccType, ChipState
<1>5. \/ /\ chip.role = "address"
         /\ chip' = [done EXCEPT !.port = chip.word]
         /\ UNCHANGED <<got, log>>
      \/ /\ chip.role = "data" /\ chip.port \in {ReadAddress, ReadCycle}
         /\ chip' = IF chip.port = ReadCycle THEN [done EXCEPT !.reading = TRUE] ELSE done
         /\ UNCHANGED <<got, log>>
      \/ /\ chip.role = "data" /\ chip.port \notin {ReadAddress, ReadCycle}
         /\ chip' = done
         /\ Delivered([port |-> chip.port, data |-> chip.word], Mine)
  BY DEF ChipToggle
<1>. HIDE DEF done
<1>6. call.fn \in {"pb_outp", "pb_inp"}
  BY <1>2 DEF TypeInv, Steps, AmccSteps
<1>7. CASE half = "address"
  <2>1. chip' = [done EXCEPT !.port = chip.word] /\ UNCHANGED <<got, log>>
    BY <1>3, <1>5, <1>7 DEF Waiting
  <2>2. /\ chip'.word = NoWord /\ chip'.recv = 1 - chip.recv /\ chip'.role = "data"
        /\ chip'.taken
        /\ ~chip'.reading /\ ~chip'.ready /\ ~chip'.ack
        /\ chip'.incoming = chip.incoming /\ chip'.port = Head(todo).port
    BY <1>3, <1>4, <1>7, <2>1 DEF Waiting, Asleep, Sent
  <2>3. Handshake'
    <3>1. chip'.recv # start'
      BY <1>1, <1>2, <1>3, <2>2
    <3>. QED
      BY <1>1, <1>2, <1>7, <2>1, <2>2, <3>1 DEF Handshake, Settled, Asleep
  <2>. QED
    BY <2>1, <2>3
<1>8. CASE half = "data" /\ call.fn = "pb_outp"
  <2>1. /\ Head(todo).port \notin {ReadAddress, ReadCycle}
        /\ Head(todo).port = call.port /\ Head(todo).data = call.data[1]
    BY <1>2, <1>8 DEF TypeInv, AmccType, CallType, Sending, To, Port, ReadAddress, ReadCycle
  <2>2. /\ chip' = done
        /\ Delivered([port |-> chip.port, data |-> chip.word], Mine)
    BY <1>3, <1>5, <1>8, <2>1 DEF Waiting
  <2>3. ~got
    BY <1>2, <1>8 DEF Handshake
  <2>4. got' /\ log' = Append(log, To(call.port, call.data[1]))
    <3>1. Mine
      BY <1>2, <1>8 DEF Mine
    <3>2. got' /\ log' = Append(log, [port |-> chip.port, data |-> chip.word])
      BY <2>2, <3>1, Zenon DEF Delivered
    <3>3. chip.port = call.port /\ chip.word = call.data[1]
      BY <1>3, <1>8, <2>1 DEF Waiting, Sent
    <3>. QED
      BY <3>2, <3>3 DEF To
  <2>5. Handshake'
    <3>1. chip'.recv # start' /\ chip'.word = NoWord /\ chip'.taken /\ chip'.role = "address"
          /\ ~chip'.reading /\ ~chip'.ready /\ ~chip'.ack
      BY <1>1, <1>2, <1>3, <1>4, <1>8, <2>2 DEF Waiting, Asleep
    <3>. QED
      BY <1>1, <1>2, <1>8, <2>1, <2>4, <3>1 DEF Handshake, Settled, Done, Asleep
  <2>. QED
    BY <1>8, <2>3, <2>4, <2>5
<1>9. CASE half = "data" /\ call.fn = "pb_inp"
  <2>1. Head(todo).port \in {ReadAddress, ReadCycle}
    BY <1>2, <1>9 DEF TypeInv, AmccType, Sending, To, ReadAddress, ReadCycle
  <2>2. /\ chip' = IF chip.port = ReadCycle THEN [done EXCEPT !.reading = TRUE] ELSE done
        /\ UNCHANGED <<got, log>>
    BY <1>3, <1>5, <1>9, <2>1 DEF Waiting
  <2>3. /\ chip'.word = NoWord /\ chip'.recv = 1 - chip.recv /\ chip'.role = "address"
        /\ chip'.taken /\ ~chip'.ready /\ ~chip'.ack
        /\ chip'.reading <=> chip.port = ReadCycle
    <3>1. LET c == [done EXCEPT !.reading = TRUE]
          IN  /\ c.word = done.word /\ c.recv = done.recv /\ c.role = done.role
              /\ c.taken <=> done.taken
              /\ c.ready <=> done.ready
              /\ c.ack <=> done.ack
              /\ c.reading
      BY <1>4, Zenon
    <3>2. /\ done.word = NoWord /\ done.recv = 1 - chip.recv /\ done.role = "address"
          /\ done.taken /\ ~done.ready /\ ~done.ack /\ ~done.reading
      BY <1>3, <1>4, <1>9 DEF Waiting, Asleep
    <3>. QED
      BY <2>2, <3>1, <3>2, Zenon
  <2>4. Handshake'
    <3>1. chip'.recv # start' /\ chip.port = Head(todo).port
      BY <1>1, <1>2, <1>3, <1>9, <2>3 DEF Waiting
    <3>. QED
      BY <1>1, <1>2, <1>9, <2>3, <3>1 DEF Handshake, Settled, Done, Asleep
  <2>. QED
    BY <2>2, <2>4
<1>. QED
  BY <1>3, <1>6, <1>7, <1>8, <1>9

LEMMA ChipReadySync ==
    ASSUME TypeInv, Handshake, board = "amcc", ChipReady
    PROVE  Handshake'
<1>1. /\ chip.reading /\ ~chip.ready
      /\ chip' = [chip EXCEPT !.reading = FALSE, !.ready = TRUE, !.incoming = status]
      /\ UNCHANGED <<call, at, seen, got, todo, half, start>>
  BY DEF ChipReady, Quiet, locals
<1>2. /\ chip'.out = chip.out /\ (chip'.taken <=> chip.taken) /\ chip'.word = chip.word
      /\ chip'.role = chip.role /\ chip'.port = chip.port /\ chip'.recv = chip.recv
      /\ ~chip'.reading /\ chip'.ready
      /\ chip'.ack <=> chip.ack
      /\ chip'.incoming = status
  <2>1. \A t \in BOOLEAN, u \in BOOLEAN :
            LET c == [chip EXCEPT !.reading = t, !.ready = u, !.incoming = status]
            IN  /\ c.out = chip.out /\ (c.taken <=> chip.taken) /\ c.word = chip.word
                /\ c.role = chip.role /\ c.port = chip.port /\ c.recv = chip.recv
                /\ c.reading <=> t
                /\ c.ready <=> u
                /\ c.ack <=> chip.ack
                /\ c.incoming = status
    BY DEF TypeInv, AmccType, ChipState
  <2>2. TRUE \in BOOLEAN /\ FALSE \in BOOLEAN
    OBVIOUS
  <2>. QED
    BY <1>1, <2>1, <2>2, Zenon
<1>3. at # "idle" /\ status \in seen
  <2>1. at # "idle"
    BY <1>1 DEF Handshake, Asleep
  <2>. QED
    BY <2>1 DEF TypeInv, Steps, PortType
<1>4. at = "clear" => half \in {"address", "data", "over"}
  BY DEF TypeInv, AmccType
<1>. QED
  BY <1>1, <1>2, <1>3, <1>4 DEF Handshake, Settled, Waiting, Done, Asleep, Sent

LEMMA ChipReleaseSync ==
    ASSUME TypeInv, Handshake, board = "amcc", ChipRelease
    PROVE  Handshake'
<1>1. /\ chip.ready /\ chip.ack
      /\ chip' = [chip EXCEPT !.ready = FALSE]
      /\ UNCHANGED <<call, at, seen, got, todo, half, start>>
  BY DEF ChipRelease, Quiet, locals
<1>2. /\ chip'.out = chip.out /\ (chip'.taken <=> chip.taken) /\ chip'.word = chip.word
      /\ chip'.role = chip.role
      /\ chip'.reading <=> chip.reading
      /\ ~chip'.ready
  <2>1. \A t \in BOOLEAN : LET c == [chip EXCEPT !.ready = t]
                           IN  /\ c.out = chip.out /\ (c.taken <=> chip.taken)
                               /\ c.word = chip.word /\ c.role = chip.role
                               /\ c.reading <=> chip.reading
                               /\ c.ready <=> t
    BY DEF TypeInv, AmccType, ChipState
  <2>2. FALSE \in BOOLEAN
    OBVIOUS
  <2>. QED
    BY <1>1, <2>1, <2>2, Zenon
<1>3. at = "release"
  <2>1. at \in {"idle", "clear", "send", "poll", "await", "release"}
    BY DEF TypeInv, Steps, AmccSteps, OldSteps, UsbSteps, RamSteps
  <2>2. at = "clear" => half \in {"address", "data", "over"}
    BY DEF TypeInv, AmccType
  <2>. QED
    BY <1>1, <2>1, <2>2 DEF Handshake, Waiting, Asleep
<1>. QED
  BY <1>1, <1>2, <1>3 DEF Handshake, Settled

-----------------------------------------------------------------------------
(* Older AMCC boards: the nibbles.                                         *)

LEMMA NibbleOf ==
    /\ Expected[1] = 7 /\ Expected[2] = 0 /\ Expected[3] = 1 /\ Expected[4] = 2
    /\ Expected[5] = 7
    /\ Nibbles[1][1] = 3 /\ Nibbles[1][2] = 0
    /\ Nibbles[2][1] = 0 /\ Nibbles[2][2] = call.port
    /\ Nibbles[3][1] = 1 /\ Nibbles[3][2] = call.data[1] \div 2
    /\ Nibbles[4][1] = 2 /\ Nibbles[4][2] = call.data[1] % 2
BY DEF Expected, Nibbles

\* What a step of the code leaves to the controller.
LEMMA CountsStay ==
    ASSUME Counts, UNCHANGED <<call, at, got, failed, nibble, chip>>
    PROVE  Counts'
<1>1. Nibbles' = Nibbles
  BY DEF Nibbles
<1>. QED
  BY <1>1 DEF Counts, CountedFirst, Counted, Counting

\* What the value of a pb_outp says of it.
LEMMA ReturnFails ==
    ASSUME call.fn = "pb_outp", NEW value, Return(value)
    PROVE  /\ at' = "idle"
           /\ value < 0 => failed'
           /\ ~(value < 0) => ~failed'
<1>1. failed' = (value < 0) /\ at' = "idle"
  BY Zenon DEF Return
<1>. QED
  BY <1>1, Zenon

LEMMA OldOutpSync ==
    ASSUME TypeInv, Counts, OldOutp
    PROVE  Counts' /\ ~got'
<1>1. at = "idle" /\ at' = "resync" /\ failed' = failed /\ chip' = chip
  BY DEF OldOutp, Begin, TypeInv, Steps
<1>2. ~got'
  BY Zenon DEF OldOutp, Begin
<1>. QED
  BY <1>1, <1>2 DEF Counts

LEMMA OldResyncSync ==
    ASSUME TypeInv, Counts, OldResync
    PROVE  Counts'
<1>1. /\ at = "resync" /\ nibble = 0 /\ ~got
      /\ UNCHANGED <<chip, nibble, got, failed>>
      /\ ~failed => chip.counter = 7 /\ chip.tag = NoWord
  BY DEF OldResync, Goto, TypeInv, AmccType, Counts
<1>2. \/ chip.counter = 7 /\ at' = "nibble"
      \/ chip.counter # 7 /\ at' = "advance"
  BY <1>1, NibbleOf DEF OldResync, Goto
<1>. QED
  BY <1>1, <1>2 DEF Counts

LEMMA OldAdvanceSync ==
    ASSUME TypeInv, Counts, OldAdvance
    PROVE  Counts'
<1>1. at = "advance" /\ failed /\ ~got /\ call.fn = "pb_outp"
  BY DEF OldAdvance, Counts, TypeInv, Steps, OldSteps
<1>2. CASE Goto("resync")
  BY <1>1, <1>2 DEF OldAdvance, Goto, Counts
<1>3. CASE Return(-3)
  <2>1. failed' /\ at' = "idle"
    <3>1. -3 < 0
      OBVIOUS
    <3>. QED
      BY <1>1, <1>3, <3>1, ReturnFails
  <2>. QED
    BY <2>1 DEF Counts
<1>. QED
  BY <1>2, <1>3 DEF OldAdvance

LEMMA OldNibbleSync ==
    ASSUME TypeInv, Counts, OldNibble
    PROVE  Counts'
<1>1. /\ at = "nibble" /\ nibble \in 0 .. 3 /\ nibble' = nibble + 1 /\ at' = "count"
      /\ UNCHANGED <<call, got, failed>>
      /\ chip' = [chip EXCEPT !.tag = Nibbles[nibble + 1][1], !.bits = Nibbles[nibble + 1][2]]
  BY DEF OldNibble, Goto, TypeInv, AmccType
<1>2. /\ chip'.tag = Nibbles[nibble + 1][1] /\ chip'.bits = Nibbles[nibble + 1][2]
      /\ chip'.counter = chip.counter /\ chip'.port = chip.port /\ chip'.high = chip.high
  BY <1>1 DEF TypeInv, AmccType, ChipState
<1>3. Nibbles' = Nibbles
  BY <1>1 DEF Nibbles
<1>4. CASE nibble = 0
  <2>1. chip'.tag = 3 /\ nibble' = 1
    BY <1>1, <1>2, <1>4, NibbleOf
  <2>. QED
    BY <1>1, <1>2, <1>4, <2>1 DEF Counts, CountedFirst, NoWord
<1>5. CASE nibble = 1
  <2>1. chip'.tag = 0 /\ chip'.bits = Nibbles[2][2] /\ nibble' = 2 /\ chip.counter = 0 /\ ~got
    BY <1>1, <1>2, <1>5, NibbleOf DEF Counts, CountedFirst
  <2>2. Counting(2)'
    BY <1>1, <1>2, <1>3, <2>1, NibbleOf DEF Counting
  <2>. QED
    BY <1>1, <2>1, <2>2 DEF Counts, NoWord
<1>6. CASE nibble = 2
  <2>1. chip'.tag = 1 /\ chip'.bits = Nibbles[3][2] /\ nibble' = 3 /\ Counting(3)
    BY <1>1, <1>2, <1>6, NibbleOf DEF Counts
  <2>2. Counting(3)'
    BY <1>1, <1>2, <1>3, <2>1, NibbleOf DEF Counting
  <2>. QED
    BY <1>1, <2>1, <2>2 DEF Counts, NoWord
<1>7. CASE nibble = 3
  <2>1. chip'.tag = 2 /\ chip'.bits = Nibbles[4][2] /\ nibble' = 4 /\ Counting(4)
    BY <1>1, <1>2, <1>7, NibbleOf DEF Counts
  <2>2. Counting(4)'
    BY <1>1, <1>2, <1>3, <2>1, NibbleOf DEF Counting
  <2>. QED
    BY <1>1, <2>1, <2>2 DEF Counts, NoWord
<1>. QED
  BY <1>1, <1>4, <1>5, <1>6, <1>7

\* The call succeeds only once its byte has come out.
LEMMA OldCountSync ==
    ASSUME TypeInv, Counts, OldCount
    PROVE  Counts' /\ (Return(0) => got)
<1>1. /\ at = "count" /\ nibble \in 1 .. 4 /\ call.fn = "pb_outp"
      /\ UNCHANGED <<chip, nibble, got>>
  BY DEF OldCount, TypeInv, AmccType, Steps, OldSteps
<1>2. Counting(2) => chip.counter = 0
  BY NibbleOf DEF Counting
<1>3. Counting(3) => chip.counter = 1
  BY NibbleOf DEF Counting
<1>4. Counting(4) => chip.counter = 2
  BY NibbleOf DEF Counting
<1>5. CASE chip.counter = Expected[nibble + 1] /\ nibble = 4
  <2>1. Counted
    BY <1>1, <1>4, <1>5, NibbleOf DEF Counts
  <2>2. at' = "idle"
    BY <1>5 DEF OldCount, Return
  <2>. QED
    BY <1>1, <2>1, <2>2 DEF Counts, Counted
<1>6. CASE chip.counter = Expected[nibble + 1] /\ nibble # 4
  <2>1. at' = "nibble" /\ call' = call /\ failed' = failed
    BY <1>6 DEF OldCount, Goto
  <2>2. Nibbles' = Nibbles
    BY <2>1 DEF Nibbles
  <2>3. ~Return(0)
    BY <2>1 DEF Return
  <2>4. CASE nibble = 1
    BY <1>1, <1>6, <2>1, <2>3, <2>4, NibbleOf DEF Counts, CountedFirst
  <2>5. CASE nibble = 2
    <3>1. chip.tag = NoWord /\ Counting(3)
      BY <1>1, <1>2, <1>6, <2>5, NibbleOf DEF Counts
    <3>2. Counting(3)'
      BY <1>1, <2>1, <2>2, <3>1 DEF Counting
    <3>. QED
      BY <1>1, <2>1, <2>3, <2>5, <3>1, <3>2 DEF Counts
  <2>6. CASE nibble = 3
    <3>1. chip.tag = NoWord /\ Counting(4)
      BY <1>1, <1>3, <1>6, <2>6, NibbleOf DEF Counts
    <3>2. Counting(4)'
      BY <1>1, <2>1, <2>2, <3>1 DEF Counting
    <3>. QED
      BY <1>1, <2>1, <2>3, <2>6, <3>1, <3>2 DEF Counts
  <2>. QED
    BY <1>1, <1>6, <2>4, <2>5, <2>6
<1>7. CASE chip.counter # Expected[nibble + 1]
  <2>1. CASE Goto("count")
    <3>1. UNCHANGED <<call, at, failed>>
      BY <1>1, <2>1 DEF Goto
    <3>2. Counts'
      BY <1>1, <3>1, CountsStay
    <3>3. ~Return(0)
      BY <1>1, <3>1 DEF Return
    <3>. QED
      BY <3>2, <3>3
  <2>2. CASE Return(-6)
    <3>1. failed' /\ at' = "idle"
      <4>1. -6 < 0
        OBVIOUS
      <4>. QED
        BY <1>1, <2>2, <4>1, ReturnFails
    <3>2. ~Return(0)
      BY <2>2 DEF Return
    <3>. QED
      BY <3>1, <3>2 DEF Counts
  <2>. QED
    BY <1>7, <2>1, <2>2 DEF OldCount
<1>. QED
  BY <1>5, <1>6, <1>7

\* What is counted is a leftover of a failed call, or the byte that the call
\* has asked for.
LEMMA ChipCountSync ==
    ASSUME TypeInv, Counts, board = "amcc_old", ChipCount
    PROVE  /\ Counts'
           /\ \/ UNCHANGED <<got, log>>
              \/ /\ call.fn = "pb_outp" /\ ~got /\ got'
                 /\ log' = Append(log, To(call.port, call.data[1]))
              \/ /\ failed /\ (call.fn = "pb_outp" => ~got) /\ (got' <=> got)
                 /\ \E byte : log' = Append(log, byte)
<1>1. /\ chip.tag # NoWord
      /\ UNCHANGED <<call, at, failed, nibble>>
      /\ at \in {"idle", "unsupported"} \cup OldSteps
      /\ nibble \in 0 .. 4
  BY DEF ChipCount, Quiet, locals, TypeInv, AmccType, Steps, UsbSteps, AmccSteps
<1>. DEFINE read == [chip EXCEPT !.tag = NoWord]
            waits == IF chip.counter = 7 THEN 3 ELSE chip.counter
<1>2. /\ read.tag = NoWord /\ read.counter = chip.counter /\ read.port = chip.port
      /\ read.high = chip.high
      /\ DOMAIN read = {"out", "taken", "word", "role", "port", "recv", "reading", "ready",
                        "ack", "incoming", "tag", "bits", "counter", "high"}
  BY DEF TypeInv, AmccType, ChipState
<1>3. IF chip.tag # waits THEN chip' = read /\ UNCHANGED <<got, log>>
      ELSE IF chip.counter = 2
      THEN /\ chip' = [read EXCEPT !.counter = 7]
           /\ Delivered([port |-> chip.port, data |-> 2 * chip.high + chip.bits],
                        at = "count" /\ nibble = 4)
      ELSE /\ chip' = CASE chip.counter = 7 -> [read EXCEPT !.counter = 0]
                        [] chip.counter = 0 -> [read EXCEPT !.counter = 1, !.port = chip.bits]
                        [] chip.counter = 1 -> [read EXCEPT !.counter = 2, !.high = chip.bits]
           /\ UNCHANGED <<got, log>>
  BY DEF ChipCount
<1>. HIDE DEF read
<1>4. chip.counter \in {7, 0, 1, 2}
  BY DEF TypeInv, AmccType, ChipState, Counter
<1>5. /\ chip'.tag = NoWord
      /\ chip.tag # waits => /\ chip'.counter = chip.counter /\ chip'.port = chip.port
                             /\ chip'.high = chip.high
      /\ chip.tag = waits /\ chip.counter = 7 => chip'.counter = 0
      /\ chip.tag = waits /\ chip.counter = 0 =>
             chip'.counter = 1 /\ chip'.port = chip.bits
      /\ chip.tag = waits /\ chip.counter = 1 =>
             chip'.counter = 2 /\ chip'.port = chip.port /\ chip'.high = chip.bits
      /\ chip.tag = waits /\ chip.counter = 2 => chip'.counter = 7
  <2>1. CASE chip.tag # waits
    BY <1>2, <1>3, <2>1
  <2>2. CASE chip.tag = waits /\ chip.counter = 2
    <3>1. chip' = [read EXCEPT !.counter = 7]
      BY <1>3, <2>2
    <3>. QED
      BY <1>2, <2>2, <3>1
  <2>3. CASE chip.tag = waits /\ chip.counter = 7
    <3>1. chip' = [read EXCEPT !.counter = 0]
      BY <1>3, <2>3
    <3>. QED
      BY <1>2, <2>3, <3>1
  <2>4. CASE chip.tag = waits /\ chip.counter = 0
    <3>1. chip' = [read EXCEPT !.counter = 1, !.port = chip.bits]
      BY <1>3, <2>4
    <3>. QED
      BY <1>2, <2>4, <3>1
  <2>5. CASE chip.tag = waits /\ chip.counter = 1
    <3>1. chip' = [read EXCEPT !.counter = 2, !.high = chip.bits]
      BY <1>3, <2>5
    <3>. QED
      BY <1>2, <2>5, <3>1
  <2>. QED
    BY <1>4, <2>1, <2>2, <2>3, <2>4, <2>5
<1>6. Nibbles' = Nibbles
  BY <1>1 DEF Nibbles
<1>7. CASE at \in {"idle", "unsupported", "resync", "advance"}
  <2>1. failed /\ (call.fn = "pb_outp" => ~got)
    BY <1>1, <1>7 DEF Counts, TypeInv, Steps
  <2>2. UNCHANGED <<got, log>> \/ ((got' <=> got) /\ \E byte : log' = Append(log, byte))
    <3>1. CASE UNCHANGED <<got, log>>
      BY <3>1
    <3>2. CASE Delivered([port |-> chip.port, data |-> 2 * chip.high + chip.bits],
                         at = "count" /\ nibble = 4)
      <4>1. ~(at = "count" /\ nibble = 4)
        BY <1>7
      <4>. QED
        BY <3>2, <4>1, Zenon DEF Delivered
    <3>. QED
      BY <1>3, <3>1, <3>2
  <2>3. Counts'
    <3>1. at \in {"resync", "advance"} => ~got'
      BY <2>2, <1>7 DEF Counts
    <3>. QED
      BY <1>1, <1>7, <2>1, <3>1 DEF Counts
  <2>. QED
    BY <2>1, <2>2, <2>3
<1>8. CASE at = "nibble"
  <2>1. /\ nibble \in {0, 1} /\ ~got
        /\ nibble = 0 => chip.counter = 7
        /\ nibble = 1 => chip.counter = 0 /\ chip.tag = 3
    BY <1>1, <1>8 DEF Counts, CountedFirst, TypeInv, AmccType
  <2>2. UNCHANGED <<got, log>>
    BY <1>3, <2>1
  <2>3. Counts'
    BY <1>1, <1>5, <1>8, <2>1, <2>2 DEF Counts, CountedFirst
  <2>. QED
    BY <2>2, <2>3
<1>9. CASE at = "count" /\ nibble = 1
  <2>1. ~got /\ chip.tag = 3 /\ chip.counter \in {0, 7}
    BY <1>1, <1>9 DEF Counts, CountedFirst
  <2>2. UNCHANGED <<got, log>>
    BY <1>3, <2>1
  <2>3. CountedFirst'
    BY <1>5, <2>1, <2>2 DEF CountedFirst
  <2>. QED
    BY <1>1, <1>9, <2>2, <2>3 DEF Counts
<1>10. CASE at = "count" /\ nibble = 2
  <2>1. Counting(2)
    BY <1>1, <1>10 DEF Counts
  <2>2. /\ chip.counter = 0 /\ chip.tag = 0 /\ chip.bits = call.port /\ ~got
    BY <1>1, <2>1, NibbleOf DEF Counting
  <2>3. UNCHANGED <<got, log>>
    BY <1>3, <2>2
  <2>4. Counting(3)'
    BY <1>1, <1>5, <1>6, <2>2, <2>3, NibbleOf DEF Counting
  <2>. QED
    BY <1>1, <1>5, <1>10, <2>3, <2>4 DEF Counts
<1>11. CASE at = "count" /\ nibble = 3
  <2>1. Counting(3)
    BY <1>1, <1>11 DEF Counts
  <2>2. /\ chip.counter = 1 /\ chip.tag = 1 /\ chip.bits = call.data[1] \div 2 /\ ~got
        /\ chip.port = call.port
    BY <1>1, <2>1, NibbleOf DEF Counting
  <2>3. UNCHANGED <<got, log>>
    BY <1>3, <2>2
  <2>4. Counting(4)'
    BY <1>1, <1>5, <1>6, <2>2, <2>3, NibbleOf DEF Counting
  <2>. QED
    BY <1>1, <1>5, <1>11, <2>3, <2>4 DEF Counts
<1>12. CASE at = "count" /\ nibble = 4
  <2>1. Counting(4)
    BY <1>1, <1>12 DEF Counts, Counted
  <2>2. /\ chip.counter = 2 /\ chip.tag = 2 /\ chip.bits = call.data[1] % 2 /\ ~got
        /\ chip.port = call.port /\ chip.high = call.data[1] \div 2
    BY <1>1, <2>1, NibbleOf DEF Counting
  <2>3. call.fn = "pb_outp" /\ \E b \in Byte : call.data = <<b>>
    BY <1>12 DEF TypeInv, Steps, CallType, OldSteps
  <2>4. 2 * chip.high + chip.bits = call.data[1]
    BY <2>2, <2>3 DEF Byte
  <2>5. Delivered([port |-> chip.port, data |-> 2 * chip.high + chip.bits],
                  at = "count" /\ nibble = 4)
    BY <1>3, <2>2
  <2>6. got' /\ log' = Append(log, [port |-> chip.port, data |-> 2 * chip.high + chip.bits])
    BY <1>12, <2>5, Zenon DEF Delivered
  <2>7. log' = Append(log, To(call.port, call.data[1]))
    BY <2>2, <2>4, <2>6 DEF To
  <2>8. Counted'
    BY <1>5, <2>2, <2>6 DEF Counted
  <2>9. Counts'
    BY <1>1, <1>12, <2>8 DEF Counts
  <2>. QED
    BY <2>2, <2>3, <2>6, <2>7, <2>9
<1>13. at = "count" => nibble # 0
  BY DEF TypeInv, AmccType
<1>. QED
  BY <1>1, <1>7, <1>8, <1>9, <1>10, <1>11, <1>12, <1>13 DEF OldSteps

-----------------------------------------------------------------------------
(* Every step keeps the types and what is known of the board.              *)

LEMMA NoTransfers ==
    ASSUME UsbSync, at \notin UsbSteps, at' \notin UsbSteps, UNCHANGED usbVars
    PROVE  UsbSync'
BY DEF UsbSync, usbVars

Words == ClearXfer \/ OutpEnds \/ InpGoesOn \/ SendWord \/ PollWord \/ AwaitByte \/ AwaitRelease
NibbleSteps == OldResync \/ OldAdvance \/ OldNibble \/ OldCount

LEMMA WordsFacts ==
    ASSUME TypeInv, Words
    PROVE  /\ chip'.tag = chip.tag /\ board' = board /\ at \in AmccSteps
           /\ at' \in {"idle"} \cup AmccSteps
<1>. USE DEF AmccSteps
<1>1. CASE ClearXfer
  BY <1>1, ClearedFields DEF ClearXfer, Goto
<1>2. CASE OutpEnds
  BY <1>2, ClearedFields DEF OutpEnds, Return
<1>3. CASE InpGoesOn
  BY <1>3, ClearedFields DEF InpGoesOn, Goto
<1>4. CASE SendWord
  BY <1>4 DEF SendWord, Goto, TypeInv, AmccType, ChipState
<1>5. CASE PollWord
  BY <1>5 DEF PollWord, Goto
<1>6. CASE AwaitByte
  BY <1>6 DEF AwaitByte, Failed, Return, Goto, TypeInv, AmccType, ChipState
<1>7. CASE AwaitRelease
  BY <1>7 DEF AwaitRelease, Failed, Return, Goto
<1>. QED
  BY <1>1, <1>2, <1>3, <1>4, <1>5, <1>6, <1>7 DEF Words

LEMMA WordsType ==
    ASSUME TypeInv, Words, UNCHANGED usbVars
    PROVE  TypeInv'
BY ClearXferType, OutpEndsType, InpGoesOnType, SendWordType, PollWordType, AwaitByteType,
   AwaitReleaseType DEF Words

LEMMA NibbleStepsFacts ==
    ASSUME TypeInv, NibbleSteps
    PROVE  /\ board' = board /\ at \in OldSteps /\ at' \in {"idle"} \cup OldSteps
           /\ chip'.out = chip.out /\ chip'.word = chip.word
           /\ chip'.reading <=> chip.reading
           /\ chip'.ready <=> chip.ready
           /\ UNCHANGED <<got, log, trust>>
<1>. USE DEF OldSteps
<1>1. CASE OldResync
  BY <1>1 DEF OldResync, Goto
<1>2. CASE OldAdvance
  BY <1>2 DEF OldAdvance, Goto, Return, TypeInv, AmccType, ChipState
<1>3. CASE OldNibble
  BY <1>3 DEF OldNibble, Goto, TypeInv, AmccType, ChipState
<1>4. CASE OldCount
  BY <1>4 DEF OldCount, Goto, Return
<1>. QED
  BY <1>1, <1>2, <1>3, <1>4 DEF NibbleSteps

LEMMA NibbleStepsType ==
    ASSUME TypeInv, NibbleSteps, UNCHANGED usbVars
    PROVE  TypeInv'
BY OldResyncType, OldAdvanceType, OldNibbleType, OldCountType DEF NibbleSteps

LEMMA NibbleStepsSync ==
    ASSUME TypeInv, Counts, NibbleSteps
    PROVE  Counts'
BY OldResyncSync, OldAdvanceSync, OldNibbleSync, OldCountSync DEF NibbleSteps

LEMMA AmccCallBase ==
    ASSUME Base, AmccCall, UNCHANGED usbVars
    PROVE  Base' /\ board' = board
<1>1. TypeInv /\ UsbSync /\ OldSync
  BY DEF Base
<1>2. TypeInv'
  BY <1>1, AmccOutpType, AmccInpType, OldOutpType DEF AmccCall
<1>3. /\ board' = board /\ chip' = chip /\ at = "idle" /\ at' \in {"clear", "resync"}
      /\ board = "amcc_old" => OldOutp
  BY <1>1 DEF AmccCall, AmccOutp, AmccInp, OldOutp, Begin, TypeInv, Steps
<1>4. UsbSync'
  BY <1>1, <1>3, NoTransfers DEF UsbSteps, RamSteps
<1>5. OldSync'
  BY <1>1, <1>3, OldOutpSync DEF OldSync, Asleep
<1>. QED
  BY <1>2, <1>3, <1>4, <1>5 DEF Base

LEMMA AmccStepBase ==
    ASSUME Base, AmccStep, UNCHANGED usbVars
    PROVE  Base' /\ board' = board
<1>1. TypeInv /\ UsbSync /\ OldSync
  BY DEF Base
<1>2. CASE Words
  <2>1. /\ chip'.tag = chip.tag /\ board' = board /\ at \in AmccSteps
        /\ at' \in {"idle"} \cup AmccSteps
    BY <1>1, <1>2, WordsFacts
  <2>2. board = "amcc"
    BY <1>1, <2>1 DEF TypeInv, Steps
  <2>3. UsbSync'
    BY <1>1, <2>1, NoTransfers DEF UsbSteps, RamSteps, AmccSteps
  <2>4. OldSync'
    BY <1>1, <2>1, <2>2 DEF OldSync
  <2>. QED
    BY <1>1, <1>2, <2>1, <2>3, <2>4, WordsType DEF Base
<1>3. CASE NibbleSteps
  <2>1. /\ board' = board /\ at \in OldSteps /\ at' \in {"idle"} \cup OldSteps
        /\ chip'.out = chip.out /\ chip'.word = chip.word
        /\ chip'.reading <=> chip.reading
        /\ chip'.ready <=> chip.ready
    BY <1>1, <1>3, NibbleStepsFacts
  <2>2. board = "amcc_old"
    BY <1>1, <2>1 DEF TypeInv, Steps
  <2>3. UsbSync'
    BY <1>1, <2>1, NoTransfers DEF UsbSteps, RamSteps, OldSteps
  <2>4. OldSync'
    BY <1>1, <1>3, <2>1, <2>2, NibbleStepsSync DEF OldSync, Asleep
  <2>. QED
    BY <1>1, <1>3, <2>1, <2>3, <2>4, NibbleStepsType DEF Base
<1>. QED
  BY <1>2, <1>3 DEF AmccStep, Words, NibbleSteps

LEMMA UsbBase ==
    ASSUME Base, UsbCall \/ UsbStep, UNCHANGED amccVars
    PROVE  Base' /\ board' = board /\ board = "usb"
<1>1. TypeInv /\ UsbSync /\ OldSync
  BY DEF Base
<1>2. CASE UsbCall
  <2>1. TypeInv' /\ UsbSync'
    BY <1>1, <1>2, UsbOutpKeeps, UsbReadRegKeeps, UsbWriteRamKeeps, UsbReadRamKeeps
    DEF UsbCall
  <2>2. board = "usb" /\ board' = board
    BY <1>2 DEF UsbCall, UsbOutp, UsbReadReg, UsbWriteRam, UsbReadRam, CallUsb, Begin
  <2>3. OldSync'
    BY <1>1, <2>2 DEF OldSync, amccVars, Asleep
  <2>. QED
    BY <2>1, <2>2, <2>3 DEF Base
<1>3. CASE UsbStep
  <2>1. TypeInv' /\ UsbSync' /\ at \in UsbSteps /\ board' = board
    <3>1. CASE OsUsbTransfer
      BY <1>1, <3>1, TransferKeeps DEF OsUsbTransfer, InTransfer
    <3>2. CASE OsUsbTransferFails
      BY <1>1, <3>2, FailureKeeps DEF OsUsbTransferFails, InTransfer
    <3>3. CASE LoadCore
      BY <1>1, <3>3, LoadCoreKeeps DEF LoadCore, Over, Then, Goto, UsbSteps
    <3>4. CASE UsbOutpReturns
      BY <1>1, <3>4, UsbOutpReturnsKeeps DEF UsbOutpReturns, Over, Answers, Return, UsbSteps
    <3>5. CASE UsbReadRegReturns
      BY <1>1, <3>5, UsbReadRegReturnsKeeps
      DEF UsbReadRegReturns, Over, Answers, Return, UsbSteps
    <3>6. CASE SetupRam
      BY <1>1, <3>6, SetupRamKeeps DEF SetupRam, Over, Ignoring, Goto, UsbSteps, RamSteps
    <3>7. CASE WriteBlocks
      BY <1>1, <3>7, WriteBlocksKeeps DEF WriteBlocks, Over, Ignoring, Goto, UsbSteps, RamSteps
    <3>8. CASE WriteRamReturns
      BY <1>1, <3>8, WriteRamReturnsKeeps DEF WriteRamReturns, Over, Return, UsbSteps, RamSteps
    <3>9. CASE ReadBlocks
      BY <1>1, <3>9, ReadBlocksKeeps DEF ReadBlocks, Over, Ignoring, Goto, UsbSteps, RamSteps
    <3>10. CASE FlushReads
      BY <1>1, <3>10, FlushReadsKeeps DEF FlushReads, Over, Goto, UsbSteps, RamSteps
    <3>11. CASE FlushAgain
      BY <1>1, <3>11, FlushAgainKeeps DEF FlushAgain, Over, Then, Goto, UsbSteps, RamSteps
    <3>12. CASE ReadRamReturns
      BY <1>1, <3>12, ReadRamReturnsKeeps
      DEF ReadRamReturns, Over, Answers, Return, UsbSteps, RamSteps
    <3>. QED
      BY <1>3, <3>1, <3>2, <3>3, <3>4, <3>5, <3>6, <3>7, <3>8, <3>9, <3>10, <3>11, <3>12
      DEF UsbStep
  <2>2. board = "usb"
    BY <1>1, <2>1 DEF TypeInv, Steps
  <2>3. OldSync'
    BY <1>1, <2>1, <2>2 DEF OldSync, amccVars, Asleep
  <2>. QED
    BY <2>1, <2>2, <2>3 DEF Base
<1>. QED
  BY <1>2, <1>3

\* The controller of one kind of board does nothing that another kind waits for.
LEMMA ChipKinds ==
    ASSUME Base, ChipNext
    PROVE  /\ board \in {"amcc", "amcc_old"} /\ board' = board
           /\ board = "amcc" => ChipTake \/ ChipToggle \/ ChipReady \/ ChipRelease
           /\ board = "amcc_old" => ChipCount
           /\ ~ChipCount => chip'.tag = chip.tag
           /\ ChipCount => /\ chip'.out = chip.out /\ chip'.word = chip.word
                           /\ chip'.reading <=> chip.reading
                           /\ chip'.ready <=> chip.ready
<1>1. board' = board
  BY DEF ChipNext, ChipTake, ChipToggle, ChipReady, ChipRelease, ChipCount, Quiet
<1>2. board \in {"usb", "amcc", "amcc_old"} /\ chip \in ChipState
  BY DEF Base, TypeInv, PortType, AmccType
<1>3. /\ ChipTake => chip.out # NoWord
      /\ ChipToggle => chip.word # NoWord
      /\ ChipReady => chip.reading
      /\ ChipRelease => chip.ready
      /\ ChipCount => chip.tag # NoWord
  BY DEF ChipTake, ChipToggle, ChipReady, ChipRelease, ChipCount
<1>4. /\ board # "amcc_old" => ~ChipCount
      /\ board # "amcc" => ~ChipTake /\ ~ChipToggle /\ ~ChipReady /\ ~ChipRelease
  BY <1>3 DEF Base, OldSync, Asleep
<1>5. ChipTake \/ ChipReady \/ ChipRelease => chip'.tag = chip.tag
  BY <1>2 DEF ChipTake, ChipReady, ChipRelease, ChipState
<1>6. ChipToggle => chip'.tag = chip.tag
  <2>. DEFINE done == [chip EXCEPT !.word = NoWord, !.recv = 1 - @,
                                   !.role = IF @ = "address" THEN "data" ELSE "address"]
  <2>1. /\ done.tag = chip.tag
        /\ DOMAIN done = {"out", "taken", "word", "role", "port", "recv", "reading", "ready",
                          "ack", "incoming", "tag", "bits", "counter", "high"}
    BY <1>2 DEF ChipState
  <2>2. ChipToggle =>
            chip' \in {done, [done EXCEPT !.port = chip.word], [done EXCEPT !.reading = TRUE]}
    BY DEF ChipToggle
  <2>. HIDE DEF done
  <2>. QED
    BY <2>1, <2>2
<1>7. ChipCount => /\ chip'.out = chip.out /\ chip'.word = chip.word
                   /\ chip'.reading <=> chip.reading
                   /\ chip'.ready <=> chip.ready
  <2>. DEFINE read == [chip EXCEPT !.tag = NoWord]
  <2>1. /\ read.out = chip.out /\ read.word = chip.word
        /\ read.reading = chip.reading /\ read.ready = chip.ready
        /\ DOMAIN read = {"out", "taken", "word", "role", "port", "recv", "reading", "ready",
                          "ack", "incoming", "tag", "bits", "counter", "high"}
    BY <1>2 DEF ChipState
  <2>2. ChipCount =>
            chip' \in {read, [read EXCEPT !.counter = 7], [read EXCEPT !.counter = 0],
                       [read EXCEPT !.counter = 1, !.port = chip.bits],
                       [read EXCEPT !.counter = 2, !.high = chip.bits]}
    BY <1>2 DEF ChipCount, ChipState, Counter
  <2>. HIDE DEF read
  <2>. QED
    BY <2>1, <2>2
<1>. QED
  BY <1>1, <1>2, <1>4, <1>5, <1>6, <1>7 DEF ChipNext

LEMMA ChipBase ==
    ASSUME Base, ChipNext, UNCHANGED usbVars
    PROVE  Base' /\ board' = board
<1>1. TypeInv /\ UsbSync /\ OldSync
  BY DEF Base
<1>2. TypeInv'
  BY <1>1, ChipNextType
<1>3. at' = at /\ board \in {"amcc", "amcc_old"} /\ board' = board
  BY ChipKinds DEF ChipNext, ChipTake, ChipToggle, ChipReady, ChipRelease, ChipCount, Quiet
<1>4. UsbSync'
  BY <1>1, <1>3, NoTransfers DEF TypeInv, Steps
<1>5. CASE board = "amcc"
  <2>1. ~ChipCount
    BY <1>1, <1>5 DEF ChipCount, OldSync
  <2>2. OldSync'
    BY <1>1, <1>3, <1>5, <2>1, ChipKinds DEF OldSync
  <2>. QED
    BY <1>2, <1>3, <1>4, <2>2 DEF Base
<1>6. CASE board = "amcc_old"
  <2>1. ChipCount /\ Counts
    BY <1>1, <1>6, ChipKinds DEF OldSync
  <2>2. OldSync'
    BY <1>1, <1>3, <1>6, <2>1, ChipKinds, ChipCountSync DEF OldSync, Asleep
  <2>. QED
    BY <1>2, <1>3, <1>4, <2>2 DEF Base
<1>. QED
  BY <1>3, <1>5, <1>6

LEMMA OtherBase ==
    ASSUME Base,
           \/ InpUnsupported \/ RefuseInp
           \/ StatusChange /\ UNCHANGED amccVars /\ UNCHANGED usbVars
    PROVE  Base' /\ board' = board
<1>1. TypeInv /\ UsbSync /\ OldSync
  BY DEF Base
<1>2. TypeInv' /\ UsbSync'
  BY <1>1, InpUnsupportedKeeps, RefuseInpKeeps, StatusChangeKeeps
<1>3. CASE InpUnsupported
  <2>1. /\ board' = board /\ chip' = chip /\ at = "idle" /\ at' = "unsupported"
        /\ failed' = failed
    BY <1>1, <1>3 DEF InpUnsupported, Begin, amccVars, TypeInv, Steps
  <2>2. OldSync'
    BY <1>1, <2>1 DEF OldSync, Asleep, Counts
  <2>. QED
    BY <1>2, <2>1, <2>2 DEF Base
<1>4. CASE RefuseInp
  <2>1. /\ board' = board /\ chip' = chip /\ at = "unsupported" /\ at' = "idle"
        /\ call.fn = "pb_inp"
    BY <1>1, <1>4 DEF RefuseInp, Return, amccVars, TypeInv, Steps
  <2>2. failed' = failed
    BY <1>4, <2>1 DEF RefuseInp, Return
  <2>3. OldSync'
    BY <1>1, <2>1, <2>2 DEF OldSync, Asleep, Counts
  <2>. QED
    BY <1>2, <2>1, <2>3 DEF Base
<1>5. CASE StatusChange /\ UNCHANGED amccVars
  <2>1. board' = board /\ UNCHANGED <<call, at, got, failed, nibble, chip>>
    BY <1>5 DEF StatusChange, amccVars
  <2>2. OldSync'
    BY <1>1, <2>1, CountsStay DEF OldSync, Asleep
  <2>. QED
    BY <1>2, <2>1, <2>2 DEF Base
<1>. QED
  BY <1>3, <1>4, <1>5

LEMMA StutterBase ==
    ASSUME Base, UNCHANGED vars
    PROVE  Base'
<1>1. TypeInv /\ UsbSync /\ OldSync
  BY DEF Base
<1>2. /\ UNCHANGED <<board, call, at, calls, ret, status, seen, got, log, failed, trust>>
      /\ UNCHANGED <<todo, half, start, n, nibble, error, chip>>
      /\ UNCHANGED <<dev, pending, result, inbuf, ram, buffer>>
  BY DEF vars, portVars, history, amccVars, usbVars
<1>3. Steps' /\ CallType' /\ PortType'
  BY <1>1, <1>2 DEF TypeInv, Steps, CallType, PortType
<1>4. AmccType' /\ Limits' /\ UsbType'
  BY <1>1, <1>2 DEF TypeInv, AmccType, Sending, Limits, UsbType
<1>5. UsbSync'
  <2>1. ASSUME NEW k \in 0 .. Len(Transfers), Progress(k)
        PROVE  Progress(k)'
    BY <1>2, <2>1 DEF Progress, Fresh
  <2>. QED
    BY <1>1, <1>2, <2>1, TransfersStay DEF UsbSync
<1>6. OldSync'
  BY <1>1, <1>2, CountsStay DEF OldSync, Asleep
<1>. QED
  BY <1>3, <1>4, <1>5, <1>6 DEF Base, TypeInv

LEMMA InitBase ==
    ASSUME Init
    PROVE  Base
<1>1. /\ board \in Boards /\ call = NoCall /\ at = "idle" /\ calls = 0
      /\ ret = [to |-> NoCall, value |-> 0]
      /\ status \in Byte /\ seen = {} /\ log = <<>>
      /\ half = "address" /\ n = 0 /\ nibble = 0 /\ chip = Chip0 /\ todo = <<>>
      /\ pending = <<>> /\ inbuf = <<>>
  BY DEF Init, PortInit, AmccInit, UsbInit
<1>2. got \in BOOLEAN /\ failed \in BOOLEAN /\ trust \in BOOLEAN /\ error \in BOOLEAN
  BY DEF Init, PortInit, AmccInit
<1>3. Steps /\ CallType
  <2>1. <<>> \in Seq(Nat)
    OBVIOUS
  <2>. QED
    BY <1>1, <2>1 DEF Steps, CallType, NoCall, Functions, AmccSteps, OldSteps, UsbSteps, RamSteps
<1>4. PortType
  <2>1. <<>> \in Seq([port : 0 .. 9, data : 0 .. 9]) /\ ret.value = 0
    BY <1>1
  <2>. QED
    BY <1>1, <1>2, <2>1 DEF PortType
<1>5. /\ Chip0 \in ChipState /\ ~Chip0.ready /\ ~Chip0.reading
      /\ Chip0.out = NoWord /\ Chip0.word = NoWord /\ Chip0.tag = NoWord
      /\ Chip0.role = "address" /\ Chip0.counter = 7
  BY DEF Chip0, ChipState, Counter, NoWord
<1>6. AmccType
  <2>1. Len(todo) = 0
    BY <1>1
  <2>. QED
    BY <1>1, <1>2, <1>5, <2>1 DEF AmccType
<1>7. Limits
  <2>1. 0 \in 0 .. MaxRecv
    OBVIOUS
  <2>. QED
    BY <1>1, <2>1 DEF Limits
<1>8. dev \in DevState
  <2>1. ram \in [0 .. Lines - 1 -> Nat]
    BY DEF Init, UsbInit, Junk
  <2>2. <<Junk>> \in Seq(Nat)
    BY DEF Junk
  <2>3. \A t \in BOOLEAN :
            [enabled |-> t, addr |-> Control, core |-> 0, line |-> 0, lead |-> t,
             ram |-> ram, fifo |-> <<<<Junk>>, <<Junk>>>>] \in DevState
    BY <2>1, <2>2 DEF DevState, Control
  <2>4. FALSE \in BOOLEAN
    OBVIOUS
  <2>. QED
    BY <2>3, <2>4, Zenon DEF Init, UsbInit
<1>9. UsbType /\ UsbSync
  <2>1. <<>> \in Seq(Seq(Nat))
    OBVIOUS
  <2>. QED
    BY <1>1, <1>8, <2>1 DEF UsbType, UsbSync, UsbSteps, RamSteps
<1>10. OldSync
  BY <1>1, <1>5 DEF OldSync, Asleep, Counts
<1>. QED
  BY <1>3, <1>4, <1>6, <1>7, <1>9, <1>10 DEF Base, TypeInv

LEMMA NextBase ==
    ASSUME Base, [Next]_vars
    PROVE  Base'
<1>1. CASE AmccCall /\ UNCHANGED usbVars
  BY <1>1, AmccCallBase
<1>2. CASE UsbCall /\ UNCHANGED amccVars
  BY <1>2, UsbBase
<1>3. CASE AmccStep /\ UNCHANGED usbVars
  BY <1>3, AmccStepBase
<1>4. CASE UsbStep /\ UNCHANGED amccVars
  BY <1>4, UsbBase
<1>5. CASE InpUnsupported \/ RefuseInp
  BY <1>5, OtherBase
<1>6. CASE Environment
  BY <1>6, ChipBase, OtherBase DEF Environment
<1>7. CASE UNCHANGED vars
  BY <1>7, StutterBase
<1>. QED
  BY <1>1, <1>2, <1>3, <1>4, <1>5, <1>6, <1>7 DEF Next, Step

LEMMA BaseTypes ==
    ASSUME Base
    PROVE  TypeOK
<1>1. TypeInv
  BY DEF Base
<1>2. Len(dev.fifo) = 2 /\ dev.addr \in 0 .. 15
  <2>1. dev.fifo \in Seq(Nat) \X Seq(Nat) /\ dev.addr \in 0 .. 15
    BY <1>1 DEF TypeInv, UsbType, DevState
  <2>2. PICK a, b : dev.fifo = <<a, b>>
    BY <2>1
  <2>. QED
    BY <2>1, <2>2
<1>3. /\ ret.value \in {-6, -3, -2, -1, 0} \cup Byte
      /\ log \in Seq([port : 0 .. 9, data : 0 .. 9])
  BY <1>1 DEF TypeInv, PortType
<1>4. /\ \E limit \in {MaxRecv, MaxResync + 1, MaxCount + 1} : n \in 0 .. limit
      /\ nibble \in 0 .. 4 /\ Len(todo) <= 2
  BY <1>1 DEF TypeInv, AmccType, Limits
<1>. QED
  BY <1>2, <1>3, <1>4 DEF TypeOK

\* What pb_outp, pb_inp and usb_read_reg return is an error of theirs or a
\* status, every wait stays within the limit of its own, and the word that is
\* written to the address register fits it: whatever the board does, for any
\* limits (util.c, usb.c).
THEOREM PortTypes == Spec => []TypeOK
<1>1. Init => Base
  BY InitBase
<1>2. Base /\ [Next]_vars => Base'
  BY NextBase
<1>3. Base => TypeOK
  BY BaseTypes
<1>. QED
  BY <1>1, <1>2, <1>3, PTL DEF Spec

-----------------------------------------------------------------------------
(* A status that is answered is not an old one.                            *)

\* What a step leaves of the last answer.
LEMMA FreshKept ==
    ASSUME ReadIsFresh, UNCHANGED ret, trust' => trust,
           call' # NoCall \/ UNCHANGED <<call, seen>>
    PROVE  ReadIsFresh'
BY DEF ReadIsFresh

LEMMA BeginKeeps ==
    ASSUME NEW fn, NEW port, NEW data, NEW first, fn # "none", Begin(fn, port, data, first)
    PROVE  UNCHANGED <<board, ret, failed, log, trust>> /\ call' # NoCall
<1>1. call'.fn = fn /\ UNCHANGED <<board, ret, failed, log, trust>>
  BY DEF Begin
<1>. QED
  BY <1>1 DEF NoCall

LEMMA FreshReturns ==
    ASSUME NEW value, Return(value),
           value \in {-1, -2} \/ call.fn \notin {"pb_inp", "usb_read_reg"}
    PROVE  ReadIsFresh'
<1>1. ret'.to = call /\ ret'.value = value
  BY DEF Return
<1>2. CASE value \in {-1, -2}
  <2>1. ~(ret'.value >= 0)
    BY <1>1, <1>2
  <2>. QED
    BY <2>1 DEF ReadIsFresh
<1>3. CASE call.fn \notin {"pb_inp", "usb_read_reg"}
  BY <1>1, <1>3 DEF ReadIsFresh
<1>. QED
  BY <1>2, <1>3

LEMMA WordsSync ==
    ASSUME "late" \in Voids, Inv, Words, trust'
    PROVE  trust /\ Handshake' /\ ReadIsFresh'
<1>1. TypeInv /\ AmccSync /\ ReadIsFresh
  BY DEF Inv, Base
<1>2. trust
  BY <1>1 DEF Words, ClearXfer, OutpEnds, InpGoesOn, SendWord, PollWord, AwaitByte,
              AwaitRelease, Failed, Distrusted, TypeInv, PortType
<1>3. Handshake /\ call # NoCall
  <2>1. at \in AmccSteps
    BY <1>1, WordsFacts
  <2>2. board = "amcc" /\ call # NoCall
    BY <1>1, <2>1 DEF TypeInv, Steps, AmccSteps
  <2>. QED
    BY <1>1, <1>2, <2>2 DEF AmccSync
<1>4. ASSUME NEW l, Goto(l)
      PROVE  ReadIsFresh'
  <2>1. ret' = ret /\ call' # NoCall
    BY <1>3, <1>4 DEF Goto
  <2>. QED
    BY <1>1, <1>2, <2>1, FreshKept
<1>5. CASE ClearXfer
  BY <1>1, <1>2, <1>3, <1>4, <1>5, ClearXferSync DEF ClearXfer
<1>6. CASE OutpEnds
  <2>1. ReadIsFresh'
    <3>1. Return(IF error THEN -2 ELSE 0) /\ call.fn \notin {"pb_inp", "usb_read_reg"}
      BY <1>6 DEF OutpEnds
    <3>. QED
      BY <3>1, FreshReturns
  <2>. QED
    BY <1>1, <1>2, <1>3, <1>6, <2>1, OutpEndsSync
<1>7. CASE InpGoesOn
  BY <1>1, <1>2, <1>3, <1>4, <1>7, InpGoesOnSync DEF InpGoesOn
<1>8. CASE SendWord
  BY <1>1, <1>2, <1>3, <1>4, <1>8, SendWordSync DEF SendWord
<1>9. CASE PollWord
  <2>1. \E l : Goto(l)
    BY <1>9 DEF PollWord
  <2>. QED
    BY <1>1, <1>2, <1>3, <1>4, <1>9, <2>1, PollWordSync
<1>10. CASE AwaitByte
  <2>1. (\E l : Goto(l)) \/ Return(-2)
    BY <1>10 DEF AwaitByte, Failed
  <2>2. -2 \in {-1, -2}
    OBVIOUS
  <2>3. Return(-2) => ReadIsFresh'
    BY <2>2, FreshReturns
  <2>. QED
    BY <1>1, <1>2, <1>3, <1>4, <1>10, <2>1, <2>3, AwaitByteSync
<1>11. CASE AwaitRelease
  BY <1>1, <1>2, <1>3, <1>11, AwaitReleaseSync
<1>. QED
  BY <1>5, <1>6, <1>7, <1>8, <1>9, <1>10, <1>11 DEF Words

LEMMA NibbleStepsFresh ==
    ASSUME Inv, NibbleSteps
    PROVE  ReadIsFresh'
<1>1. TypeInv /\ ReadIsFresh /\ at \in OldSteps /\ trust' = trust
  BY NibbleStepsFacts DEF Inv, Base
<1>2. call.fn = "pb_outp" /\ call # NoCall
  BY <1>1 DEF TypeInv, Steps, OldSteps
<1>3. (\E l : Goto(l)) \/ (\E value : Return(value))
  BY DEF NibbleSteps, OldResync, OldAdvance, OldNibble, OldCount
<1>4. CASE \E l : Goto(l)
  <2>1. ret' = ret /\ call' # NoCall
    BY <1>2, <1>4 DEF Goto
  <2>. QED
    BY <1>1, <2>1, FreshKept
<1>5. CASE \E value : Return(value)
  BY <1>2, <1>5, FreshReturns
<1>. QED
  BY <1>3, <1>4, <1>5

LEMMA UsbStepTrust ==
    ASSUME TypeInv, UsbStep, trust'
    PROVE  trust
BY DEF UsbStep, OsUsbTransfer, OsUsbTransferFails, InTransfer, LoadCore, UsbOutpReturns,
       UsbReadRegReturns, SetupRam, WriteBlocks, WriteRamReturns, ReadBlocks, FlushReads,
       FlushAgain, ReadRamReturns, Then, Answers, Ignoring, Distrusted, TypeInv, PortType

LEMMA UsbStepFresh ==
    ASSUME Inv, UsbStep, UNCHANGED amccVars, trust'
    PROVE  ReadIsFresh'
<1>1. TypeInv /\ UsbSync /\ ReadIsFresh /\ trust
  BY UsbStepTrust DEF Inv, Base
<1>2. ASSUME NEW l, Goto(l), at \in UsbSteps
      PROVE  ReadIsFresh'
  <2>1. ret' = ret /\ call' # NoCall
    BY <1>1, <1>2 DEF Goto, TypeInv, Steps, UsbSteps, RamSteps
  <2>. QED
    BY <1>1, <2>1, FreshKept
<1>3. ASSUME NEW value, Return(value), at \in UsbSteps, at # "read"
      PROVE  ReadIsFresh'
  <2>1. call.fn \notin {"pb_inp", "usb_read_reg"}
    BY <1>1, <1>3 DEF TypeInv, Steps, UsbSteps, RamSteps
  <2>. QED
    BY <1>3, <2>1, FreshReturns
<1>. USE DEF UsbSteps, RamSteps
<1>4. CASE OsUsbTransfer \/ OsUsbTransferFails
  <2>1. UNCHANGED <<ret, call, seen>>
    BY <1>4 DEF OsUsbTransfer, OsUsbTransferFails, InTransfer
  <2>. QED
    BY <1>1, <2>1, FreshKept
<1>5. CASE LoadCore \/ SetupRam \/ WriteBlocks \/ ReadBlocks \/ FlushReads \/ FlushAgain
  <2>1. at \in UsbSteps /\ \E l : Goto(l)
    BY <1>5 DEF LoadCore, SetupRam, WriteBlocks, ReadBlocks, FlushReads, FlushAgain, Over,
                Then, Ignoring
  <2>. QED
    BY <1>2, <2>1
<1>6. CASE UsbOutpReturns \/ WriteRamReturns \/ ReadRamReturns
  <2>1. at \in UsbSteps /\ at # "read" /\ \E value : Return(value)
    BY <1>6 DEF UsbOutpReturns, WriteRamReturns, ReadRamReturns, Over, Answers
  <2>. QED
    BY <1>3, <2>1
<1>7. CASE UsbReadRegReturns
  BY <1>1, <1>7, UsbReadRegReturnsKeeps
<1>. QED
  BY <1>4, <1>5, <1>6, <1>7 DEF UsbStep

LEMMA ChipSync ==
    ASSUME Inv, ChipNext, trust'
    PROVE  AmccSync' /\ ReadIsFresh'
<1>1. Base /\ TypeInv /\ AmccSync /\ ReadIsFresh
  BY DEF Inv, Base
<1>2. UNCHANGED <<ret, call, seen, trust, board>>
  BY DEF ChipNext, ChipTake, ChipToggle, ChipReady, ChipRelease, ChipCount, Quiet
<1>3. ReadIsFresh'
  BY <1>1, <1>2, FreshKept
<1>4. AmccSync'
  <2>1. ASSUME board = "amcc"
        PROVE  Handshake'
    <3>1. Handshake
      BY <1>1, <1>2, <2>1 DEF AmccSync
    <3>. QED
      BY <1>1, <2>1, <3>1, ChipKinds, ChipTakeSync, ChipToggleSync, ChipReadySync,
         ChipReleaseSync
  <2>. QED
    BY <1>2, <2>1 DEF AmccSync
<1>. QED
  BY <1>3, <1>4

LEMMA HandshakeStays ==
    ASSUME TypeInv, Handshake, seen \subseteq seen',
           UNCHANGED <<call, at, got, todo, half, start, chip>>
    PROVE  Handshake'
BY DEF Handshake, Settled, Waiting, Done, Asleep, Sent

LEMMA NextSync ==
    ASSUME "late" \in Voids, Inv, [Next]_vars
    PROVE  AmccSync' /\ ReadIsFresh'
<1>1. Base /\ TypeInv /\ AmccSync /\ ReadIsFresh
  BY DEF Inv, Base
<1>2. CASE ~trust'
  BY <1>2 DEF AmccSync, ReadIsFresh
<1>3. CASE AmccCall /\ UNCHANGED usbVars /\ trust'
  <2>1. ret' = ret /\ call' # NoCall /\ trust' = trust /\ board' = board
    BY <1>3, BeginKeeps DEF AmccCall, AmccOutp, AmccInp, OldOutp
  <2>2. OldOutp => board = "amcc_old"
    BY DEF OldOutp
  <2>. QED
    BY <1>1, <1>3, <2>1, <2>2, FreshKept, AmccOutpSync, AmccInpSync DEF AmccCall, AmccSync
<1>4. CASE UsbCall /\ UNCHANGED amccVars /\ trust'
  <2>1. ret' = ret /\ call' # NoCall /\ trust' = trust /\ board' = "usb"
    BY <1>4, BeginKeeps DEF UsbCall, UsbOutp, UsbReadReg, UsbWriteRam, UsbReadRam, CallUsb
  <2>. QED
    BY <1>1, <2>1, FreshKept DEF AmccSync
<1>5. CASE AmccStep /\ UNCHANGED usbVars /\ trust'
  <2>1. CASE Words
    BY <1>5, <2>1, WordsSync DEF AmccSync
  <2>2. CASE NibbleSteps
    <3>1. board' = board /\ at \in OldSteps
      BY <1>1, <2>2, NibbleStepsFacts
    <3>2. board = "amcc_old"
      BY <1>1, <3>1 DEF TypeInv, Steps
    <3>. QED
      BY <2>2, <3>1, <3>2, NibbleStepsFresh DEF AmccSync
  <2>. QED
    BY <1>5, <2>1, <2>2 DEF AmccStep, Words, NibbleSteps
<1>6. CASE UsbStep /\ UNCHANGED amccVars /\ trust'
  BY <1>1, <1>6, UsbBase, UsbStepFresh DEF AmccSync
<1>7. CASE InpUnsupported
  <2>1. ret' = ret /\ call' # NoCall /\ trust' = trust /\ board' # "amcc"
    BY <1>7 DEF InpUnsupported, Begin, NoCall
  <2>. QED
    BY <1>1, <2>1, FreshKept DEF AmccSync
<1>8. CASE RefuseInp
  <2>1. Return(-1) /\ board' = board /\ at = "unsupported"
    BY <1>8 DEF RefuseInp, Return
  <2>2. board # "amcc" /\ -1 \in {-1, -2}
    BY <1>1, <2>1 DEF TypeInv, Steps
  <2>. QED
    BY <2>1, <2>2, FreshReturns DEF AmccSync
<1>9. CASE ChipNext /\ trust'
  BY <1>9, ChipSync
<1>10. CASE StatusChange /\ UNCHANGED amccVars
  <2>1. /\ UNCHANGED <<ret, call, trust, board, at, got>> /\ call # NoCall
        /\ seen \subseteq seen' /\ UNCHANGED <<todo, half, start, chip>>
    BY <1>10 DEF StatusChange, NoCall, amccVars
  <2>. QED
    BY <1>1, <2>1, FreshKept, HandshakeStays DEF AmccSync
<1>11. CASE UNCHANGED vars
  <2>1. UNCHANGED <<ret, call, trust, board, at, got, seen, todo, half, start, chip>>
    BY <1>11 DEF vars, portVars, history, amccVars
  <2>. QED
    BY <1>1, <2>1, FreshKept, HandshakeStays DEF AmccSync
<1>. QED
  BY <1>2, <1>3, <1>4, <1>5, <1>6, <1>7, <1>8, <1>9, <1>10, <1>11
  DEF Next, Step, Environment

LEMMA InitSync ==
    ASSUME Init
    PROVE  AmccSync /\ ReadIsFresh
<1>1. /\ at = "idle" /\ chip = Chip0 /\ ret.to = NoCall
  BY DEF Init, PortInit, AmccInit
<1>2. /\ ~Chip0.ready /\ ~Chip0.reading
      /\ Chip0.out = NoWord /\ Chip0.word = NoWord /\ Chip0.role = "address"
  BY DEF Chip0
<1>3. ReadIsFresh
  BY <1>1 DEF ReadIsFresh, NoCall
<1>. QED
  BY <1>1, <1>2, <1>3 DEF AmccSync, Handshake, Settled, Asleep

\* A status that pb_inp or usb_read_reg answers held at some time during the
\* call: three reads are enough for a chip that is double buffered (usb.c), and
\* the byte of do_amcc_inp is the one it asked for (util.c), for any limits as
\* long as no wait was given up.
THEOREM StatusIsFresh ==
    ASSUME "late" \in Voids
    PROVE  Spec => []ReadIsFresh
<1>1. Init => Inv
  BY InitBase, InitSync DEF Inv
<1>2. Inv /\ [Next]_vars => Inv'
  <2>. SUFFICES ASSUME Inv, [Next]_vars
                PROVE  Inv'
    OBVIOUS
  <2>1. Base'
    BY NextBase DEF Inv
  <2>. QED
    BY <2>1, NextSync DEF Inv
<1>3. Inv => ReadIsFresh
  BY DEF Inv
<1>. QED
  BY <1>1, <1>2, <1>3, PTL DEF Spec

-----------------------------------------------------------------------------
(* What comes out at the ports: each step is one of BytePort.              *)

Request == IF call.fn = "pb_outp" THEN To(call.port, call.data[1]) ELSE To(-1, -1)
PromiseStep == Promise!Next \/ UNCHANGED <<Request, got, log, failed, trust>>

LEMMA RequestFacts ==
    ASSUME TypeInv
    PROVE  /\ Promise!NoByte = To(-1, -1)
           /\ call.fn = "pb_outp" => Request = To(call.port, call.data[1])
           /\ call.fn = "pb_outp" => Request \in [port : Port, data : Byte]
           /\ call.fn = "pb_outp" => Request # Promise!NoByte
           /\ call.fn # "pb_outp" => Request = Promise!NoByte
<1>1. Promise!NoByte = To(-1, -1)
  BY DEF Promise!NoByte, To
<1>2. ASSUME call.fn = "pb_outp"
      PROVE  /\ Request = To(call.port, call.data[1])
             /\ Request \in [port : Port, data : Byte] /\ Request # Promise!NoByte
  <2>1. PICK b \in Byte : call.data = <<b>> /\ call.port \in Port
    BY <1>2 DEF TypeInv, CallType
  <2>2. Request = To(call.port, b)
    BY <1>2, <2>1 DEF Request
  <2>3. To(call.port, b) \in [port : Port, data : Byte] /\ To(call.port, b).port # -1
    BY <2>1 DEF To, Port
  <2>4. To(-1, -1).port = -1
    BY DEF To
  <2>. QED
    BY <1>1, <2>1, <2>2, <2>3, <2>4
<1>3. call.fn # "pb_outp" => Request = Promise!NoByte
  BY <1>1 DEF Request
<1>. QED
  BY <1>1, <1>2, <1>3

\* Where nothing is promised any more, every step is one of the promise.
LEMMA PromiseLost ==
    ASSUME ~trust'
    PROVE  PromiseStep
BY DEF PromiseStep, Promise!Next, Promise!Distrust

LEMMA PromiseStutters ==
    ASSUME TypeInv, UNCHANGED <<call, got, log, failed>>, trust' \in BOOLEAN, trust' => trust
    PROVE  PromiseStep
<1>1. Request' = Request
  BY DEF Request
<1>2. CASE ~trust'
  BY <1>2, PromiseLost
<1>3. CASE trust'
  <2>1. trust' = trust
    <3>1. trust \in BOOLEAN
      BY DEF TypeInv, PortType
    <3>. QED
      BY <1>3, <3>1
  <2>. QED
    BY <1>1, <2>1 DEF PromiseStep
<1>. QED
  BY <1>2, <1>3

LEMMA PromiseCalls ==
    ASSUME TypeInv, TypeInv', call = NoCall, trust,
           ~(call'.fn = "pb_outp" /\ got'), call'.fn # "pb_outp" => got' = got,
           UNCHANGED <<log, failed, trust>>
    PROVE  PromiseStep
<1>1. Request = Promise!NoByte
  BY RequestFacts DEF NoCall
<1>2. CASE call'.fn = "pb_outp"
  <2>1. Request' \in [port : Port, data : Byte]
    <3>1. PICK b \in Byte : call'.data = <<b>> /\ call'.port \in Port
      BY <1>2 DEF TypeInv, CallType
    <3>2. Request' = To(call'.port, b)
      BY <1>2, <3>1 DEF Request
    <3>. QED
      BY <3>1, <3>2 DEF To
  <2>2. got' = FALSE
    <3>1. got' \in BOOLEAN
      BY DEF TypeInv, PortType
    <3>. QED
      BY <1>2, <3>1
  <2>3. Promise!Call
    BY <1>1, <2>1, <2>2 DEF Promise!Call, Request
  <2>. QED
    BY <2>3 DEF PromiseStep, Promise!Next
<1>3. CASE call'.fn # "pb_outp"
  <2>1. Request' = Request
    BY <1>1, <1>3, RequestFacts DEF Request
  <2>. QED
    BY <1>3, <2>1 DEF PromiseStep
<1>. QED
  BY <1>2, <1>3

LEMMA PromiseDelivers ==
    ASSUME TypeInv, TypeInv', call.fn = "pb_outp", ~got, got', trust,
           log' = Append(log, To(call.port, call.data[1])),
           UNCHANGED <<call, failed, trust>>
    PROVE  PromiseStep
<1>1. /\ Request # Promise!NoByte /\ Request = To(call.port, call.data[1])
      /\ Request' = Request
  BY RequestFacts DEF Request
<1>2. got' = TRUE
  <2>1. got' \in BOOLEAN
    BY DEF TypeInv, PortType
  <2>. QED
    BY <2>1
<1>3. Promise!Deliver
  BY <1>1, <1>2 DEF Promise!Deliver, Request
<1>. QED
  BY <1>3 DEF PromiseStep, Promise!Next

LEMMA PromiseLeaves ==
    ASSUME TypeInv, TypeInv', failed, call.fn = "pb_outp" => ~got, got' <=> got, trust,
           NEW byte, log' = Append(log, byte),
           UNCHANGED <<call, failed, trust>>
    PROVE  PromiseStep
<1>1. Request' = Request /\ (Request # Promise!NoByte => ~got)
  BY RequestFacts DEF Request
<1>2. got' = got
  <2>1. got \in BOOLEAN /\ got' \in BOOLEAN
    BY DEF TypeInv, PortType
  <2>. QED
    BY <2>1
<1>3. Len(log') = Len(log) + 1 /\ SubSeq(log', 1, Len(log)) = log
  <2>. DEFINE T == [port : 0 .. 9, data : 0 .. 9]
  <2>1. log \in Seq(T) /\ log' \in Seq(T)
    BY DEF TypeInv, PortType
  <2>. HIDE DEF T
  <2>2. PICK m \in Nat : m = Len(log)
    BY <2>1, LenProperties
  <2>3. Len(log') = m + 1 /\ \A i \in 1 .. m : log'[i] = log[i]
    BY <2>1, <2>2
  <2>4. \A i \in 1 .. m : log'[i] \in T
    BY <2>1, <2>2, <2>3, ElementOfSeq
  <2>. DEFINE t == SubSeq(log', 1, m)
  <2>5. t \in Seq(T) /\ Len(t) = m /\ \A i \in 1 .. m : t[i] = log'[i]
    <3>1. /\ t \in Seq(T)
          /\ Len(t) = IF 1 <= m THEN m - 1 + 1 ELSE 0
          /\ \A i \in 1 .. m - 1 + 1 : t[i] = log'[1 + i - 1]
      BY <2>2, <2>4, SubSeqProperties
    <3>. HIDE DEF t
    <3>. QED
      BY <2>2, <3>1
  <2>. HIDE DEF t
  <2>6. t = log
    BY <2>1, <2>2, <2>3, <2>5, SeqEqual
  <2>. QED
    BY <2>2, <2>3, <2>6 DEF t
<1>4. Promise!Leftover
  BY <1>1, <1>2, <1>3 DEF Promise!Leftover, Request
<1>. QED
  BY <1>4 DEF PromiseStep, Promise!Next

\* A return of pb_outp that says the byte was written, or that it may not have been.
LEMMA PromiseAnswers ==
    ASSUME TypeInv, TypeInv', trust, NEW value, Return(value),
           call.fn = "pb_outp" /\ ~(value < 0) => got,
           UNCHANGED <<got, log, trust>>
    PROVE  PromiseStep
<1>1. call' = NoCall /\ Request' = To(-1, -1)
  BY DEF Return, Request, NoCall
<1>2. CASE call.fn = "pb_outp"
  <2>1. Request # Promise!NoByte /\ Request' = Promise!NoByte
    BY <1>1, <1>2, RequestFacts
  <2>2. failed' \in BOOLEAN
    BY DEF TypeInv, PortType
  <2>3. CASE value < 0
    <3>1. failed' = TRUE
      BY <1>2, <2>2, <2>3, ReturnFails
    <3>2. Promise!Fail
      BY <2>1, <3>1 DEF Promise!Fail, Request
    <3>. QED
      BY <3>2 DEF PromiseStep, Promise!Next
  <2>4. CASE ~(value < 0)
    <3>1. failed' = FALSE /\ got
      BY <1>2, <2>2, <2>4, ReturnFails
    <3>2. Promise!Succeed
      BY <2>1, <3>1 DEF Promise!Succeed, Request
    <3>. QED
      BY <3>2 DEF PromiseStep, Promise!Next
  <2>. QED
    BY <2>3, <2>4
<1>3. CASE call.fn # "pb_outp"
  <2>1. Request' = Request /\ failed' = failed
    BY <1>1, <1>3, RequestFacts DEF Return
  <2>. QED
    BY <2>1 DEF PromiseStep
<1>. QED
  BY <1>2, <1>3

LEMMA PromiseBegins ==
    ASSUME TypeInv, TypeInv', trust, NEW fn, NEW port, NEW data, NEW first, fn # "none",
           Begin(fn, port, data, first)
    PROVE  PromiseStep
<1>1. call = NoCall /\ call'.fn = fn /\ UNCHANGED <<log, failed, trust>>
  BY DEF Begin
<1>2. got' <=> (got /\ fn # "pb_outp")
  BY Zenon DEF Begin
<1>3. got \in BOOLEAN /\ got' \in BOOLEAN
  BY DEF TypeInv, PortType
<1>4. fn # "pb_outp" => got' = got
  BY <1>2, <1>3
<1>. QED
  BY <1>1, <1>2, <1>4, PromiseCalls

LEMMA PromiseGoes ==
    ASSUME TypeInv, TypeInv', trust' => trust, NEW l, Goto(l), UNCHANGED <<got, log>>
    PROVE  PromiseStep
<1>1. UNCHANGED <<call, got, log, failed>> /\ trust' \in BOOLEAN
  BY DEF Goto, TypeInv, PortType
<1>. QED
  BY <1>1, PromiseStutters

LEMMA WordsPromise ==
    ASSUME "late" \in Voids, Inv, Words, trust', TypeInv'
    PROVE  PromiseStep
<1>1. TypeInv /\ trust /\ AmccSync /\ trust' = trust
  <2>1. TypeInv /\ trust /\ AmccSync
    BY WordsSync DEF Inv, Base
  <2>2. trust \in BOOLEAN /\ trust' \in BOOLEAN
    BY <2>1 DEF TypeInv, PortType
  <2>. QED
    BY <2>1, <2>2
<1>2. UNCHANGED <<got, log>>
  BY DEF Words, ClearXfer, OutpEnds, InpGoesOn, SendWord, PollWord, AwaitByte, AwaitRelease
<1>3. CASE \E l : Goto(l)
  BY <1>1, <1>2, <1>3, PromiseGoes
<1>4. CASE OutpEnds
  <2>1. at \in AmccSteps
    BY <1>1, <1>4, WordsFacts DEF Words
  <2>2. Handshake
    BY <1>1, <2>1 DEF AmccSync, TypeInv, Steps
  <2>3. got
    BY <1>1, <1>4, <2>2, OutpEndsSync
  <2>. QED
    BY <1>1, <1>2, <1>4, <2>3, PromiseAnswers DEF OutpEnds
<1>5. CASE (AwaitByte \/ AwaitRelease) /\ \E value : Return(value)
  <2>1. call.fn = "pb_inp"
    BY <1>1, <1>5 DEF AwaitByte, AwaitRelease, TypeInv, Steps
  <2>. QED
    BY <1>1, <1>2, <1>5, <2>1, PromiseAnswers
<1>6. \/ OutpEnds \/ \E l : Goto(l)
      \/ (AwaitByte \/ AwaitRelease) /\ \E value : Return(value)
  <2>1. AwaitByte => (\E l : Goto(l)) \/ \E value : Return(value)
    BY DEF AwaitByte, Failed
  <2>2. AwaitRelease => (\E l : Goto(l)) \/ \E value : Return(value)
    BY DEF AwaitRelease, Failed
  <2>3. ClearXfer \/ InpGoesOn \/ SendWord \/ PollWord => \E l : Goto(l)
    BY DEF ClearXfer, InpGoesOn, SendWord, PollWord
  <2>. QED
    BY <2>1, <2>2, <2>3 DEF Words
<1>. QED
  BY <1>3, <1>4, <1>5, <1>6

LEMMA NibbleStepsPromise ==
    ASSUME TypeInv, Counts, NibbleSteps, trust, TypeInv'
    PROVE  PromiseStep
<1>1. UNCHANGED <<got, log, trust>>
  BY NibbleStepsFacts
<1>2. CASE \E l : Goto(l)
  BY <1>1, <1>2, PromiseGoes
<1>3. CASE \E value \in {-3, -6} : Return(value)
  <2>1. PICK value \in {-3, -6} : Return(value)
    BY <1>3
  <2>2. value < 0
    BY <2>1
  <2>. QED
    BY <1>1, <2>1, <2>2, PromiseAnswers
<1>4. CASE OldCount /\ Return(0)
  <2>1. got
    BY <1>4, OldCountSync
  <2>. QED
    BY <1>1, <1>4, <2>1, PromiseAnswers
<1>. QED
  BY <1>2, <1>3, <1>4 DEF NibbleSteps, OldResync, OldAdvance, OldNibble, OldCount

LEMMA ChipPromise ==
    ASSUME Inv, ChipNext, trust', TypeInv'
    PROVE  PromiseStep
<1>1. /\ Base /\ TypeInv /\ OldSync /\ AmccSync
      /\ UNCHANGED <<call, failed, trust>> /\ trust' \in BOOLEAN
  BY DEF Inv, Base, ChipNext, ChipTake, ChipToggle, ChipReady, ChipRelease, ChipCount, Quiet,
         TypeInv, PortType
<1>2. CASE ChipTake \/ ChipReady \/ ChipRelease
  <2>1. UNCHANGED <<got, log>>
    BY <1>2 DEF ChipTake, ChipReady, ChipRelease
  <2>. QED
    BY <1>1, <2>1, PromiseStutters
<1>3. CASE ChipToggle /\ board = "amcc"
  <2>1. Handshake
    BY <1>1, <1>3 DEF AmccSync
  <2>2. \/ UNCHANGED <<got, log>>
        \/ /\ call.fn = "pb_outp" /\ ~got /\ got'
           /\ log' = Append(log, To(call.port, call.data[1]))
    BY <1>1, <1>3, <2>1, ChipToggleSync
  <2>. QED
    BY <1>1, <2>2, PromiseStutters, PromiseDelivers
<1>4. CASE ChipCount /\ board = "amcc_old"
  <2>1. Counts
    BY <1>1, <1>4 DEF OldSync
  <2>2. \/ UNCHANGED <<got, log>>
        \/ /\ call.fn = "pb_outp" /\ ~got /\ got'
           /\ log' = Append(log, To(call.port, call.data[1]))
        \/ /\ failed /\ (call.fn = "pb_outp" => ~got) /\ (got' <=> got)
           /\ \E byte : log' = Append(log, byte)
    BY <1>1, <1>4, <2>1, ChipCountSync
  <2>. QED
    BY <1>1, <2>2, PromiseStutters, PromiseDelivers, PromiseLeaves
<1>. QED
  BY <1>1, <1>2, <1>3, <1>4, ChipKinds

LEMMA UsbStepPromise ==
    ASSUME TypeInv, UsbSync, UsbStep, UNCHANGED amccVars, trust', TypeInv'
    PROVE  PromiseStep
<1>1. trust /\ trust' = trust
  <2>1. trust \in BOOLEAN /\ trust' \in BOOLEAN
    BY DEF TypeInv, PortType
  <2>. QED
    BY <2>1, UsbStepTrust
<1>. USE DEF UsbSteps, RamSteps
<1>2. CASE OsUsbTransfer \/ OsUsbTransferFails
  <2>1. UNCHANGED <<call, failed>>
    BY <1>2 DEF OsUsbTransfer, OsUsbTransferFails, InTransfer
  <2>2. UNCHANGED <<got, log>> \/ Emits
    BY <1>2, TransferKeeps, FailureKeeps
  <2>3. Emits => call.fn = "pb_outp"
    BY DEF Emits, TypeInv, Steps
  <2>4. Emits => PromiseStep
    BY <1>1, <2>1, <2>3, PromiseDelivers DEF Emits
  <2>. QED
    BY <1>1, <2>1, <2>2, <2>4, PromiseStutters DEF TypeInv, PortType
<1>3. CASE LoadCore \/ SetupRam \/ WriteBlocks \/ ReadBlocks \/ FlushReads \/ FlushAgain
  <2>1. UNCHANGED <<got, log>> /\ \E l : Goto(l)
    BY <1>3 DEF LoadCore, SetupRam, WriteBlocks, ReadBlocks, FlushReads, FlushAgain, Then,
                Ignoring, Keep
  <2>. QED
    BY <1>1, <2>1, PromiseGoes
<1>4. CASE UsbOutpReturns
  <2>1. /\ Return(result) /\ UNCHANGED <<got, log>> /\ pending = <<>> /\ at \in UsbSteps
        /\ at = "load" \/ result < 0
    BY <1>4 DEF UsbOutpReturns, Over, Answers, Keep
  <2>2. ~(result < 0) => got
    <3>1. SUFFICES ASSUME ~(result < 0)
                   PROVE  got
      OBVIOUS
    <3>2. at = "load"
      BY <2>1, <3>1
    <3>3. result \in {0, -1}
      BY <2>1 DEF TypeInv, UsbType
    <3>4. result = 0
      BY <3>1, <3>3
    <3>5. Progress(4)
      BY <2>1, <3>2, <3>4, StepOver
    <3>. QED
      BY <3>2, <3>4, <3>5 DEF Progress
  <2>. QED
    BY <1>1, <2>1, <2>2, PromiseAnswers
<1>5. CASE WriteRamReturns \/ ReadRamReturns \/ UsbReadRegReturns
  <2>1. UNCHANGED <<got, log>> /\ \E value : Return(value)
    BY <1>5 DEF WriteRamReturns, ReadRamReturns, UsbReadRegReturns, Answers, Keep
  <2>2. call.fn # "pb_outp"
    BY <1>5 DEF WriteRamReturns, ReadRamReturns, UsbReadRegReturns, Over, TypeInv, Steps
  <2>. QED
    BY <1>1, <2>1, <2>2, PromiseAnswers
<1>. QED
  BY <1>2, <1>3, <1>4, <1>5 DEF UsbStep

LEMMA NextPromise ==
    ASSUME "late" \in Voids, Inv, Inv', [Next]_vars
    PROVE  PromiseStep
<1>1. Base /\ TypeInv /\ UsbSync /\ OldSync /\ AmccSync /\ TypeInv'
  BY DEF Inv, Base
<1>2. CASE ~trust'
  BY <1>2, PromiseLost
<1>3. CASE trust' /\ (AmccCall \/ UsbCall \/ InpUnsupported)
  <2>1. \E fn, port, data, first : fn # "none" /\ Begin(fn, port, data, first)
    BY <1>3 DEF AmccCall, AmccOutp, AmccInp, OldOutp, UsbCall, UsbOutp, UsbReadReg,
                UsbWriteRam, UsbReadRam, CallUsb, InpUnsupported
  <2>2. trust
    BY <1>3, <2>1, BeginKeeps
  <2>. QED
    BY <1>1, <2>1, <2>2, PromiseBegins
<1>4. CASE trust' /\ AmccStep
  <2>1. CASE Words
    BY <1>1, <1>4, <2>1, WordsPromise
  <2>2. CASE NibbleSteps
    <3>1. at \in OldSteps /\ trust
      BY <1>1, <1>4, <2>2, NibbleStepsFacts
    <3>2. Counts
      BY <1>1, <3>1 DEF TypeInv, Steps, OldSync
    <3>. QED
      BY <1>1, <2>2, <3>1, <3>2, NibbleStepsPromise
  <2>. QED
    BY <1>4, <2>1, <2>2 DEF AmccStep, Words, NibbleSteps
<1>5. CASE trust' /\ UsbStep /\ UNCHANGED amccVars
  BY <1>1, <1>5, UsbStepPromise
<1>6. CASE trust' /\ RefuseInp
  <2>1. Return(-1) /\ UNCHANGED <<got, log, trust>> /\ at = "unsupported"
    BY <1>6 DEF RefuseInp
  <2>2. call.fn # "pb_outp" /\ trust
    BY <1>1, <1>6, <2>1 DEF TypeInv, Steps
  <2>. QED
    BY <1>1, <2>1, <2>2, PromiseAnswers
<1>7. CASE trust' /\ ChipNext
  BY <1>1, <1>7, ChipPromise
<1>8. CASE StatusChange \/ UNCHANGED vars
  <2>1. UNCHANGED <<call, got, log, failed, trust>>
    BY <1>8 DEF StatusChange, vars, portVars, history
  <2>. QED
    BY <1>1, <2>1, PromiseStutters DEF TypeInv, PortType
<1>. QED
  BY <1>2, <1>3, <1>4, <1>5, <1>6, <1>7, <1>8 DEF Next, Step, Environment

\* "Negative number on failure, else 0 on success" (util.c): over every kind of
\* board a byte whose write is acknowledged has come out at its port, once, and
\* one whose write fails came out once at most, until a wait of the newer AMCC
\* boards is given up; and what is left of failed calls comes out before.
THEOREM BytesDelivered ==
    ASSUME "late" \in Voids
    PROVE  Spec => Implements
<1>1. Init => Inv /\ Promise!Init
  <2>. SUFFICES ASSUME Init
                PROVE  Inv /\ Promise!Init
    OBVIOUS
  <2>1. call = NoCall /\ got = FALSE /\ log = <<>> /\ failed = FALSE /\ trust = TRUE
    BY Zenon DEF Init, PortInit
  <2>2. Inv
    BY InitBase, InitSync DEF Inv
  <2>3. Request = Promise!NoByte
    BY <2>1, <2>2, RequestFacts DEF NoCall, Inv, Base
  <2>. QED
    BY <2>1, <2>2, <2>3, Zenon DEF Promise!Init, Request
<1>2. Inv /\ [Next]_vars => Inv'
  <2>. SUFFICES ASSUME Inv, [Next]_vars
                PROVE  Inv'
    OBVIOUS
  <2>1. Base'
    BY NextBase DEF Inv
  <2>. QED
    BY <2>1, NextSync DEF Inv
<1>3. Inv /\ Inv' /\ [Next]_vars => [Promise!Next]_(Promise!abstractVars)
  <2>. SUFFICES ASSUME Inv, Inv', [Next]_vars
                PROVE  [Promise!Next]_(Promise!abstractVars)
    OBVIOUS
  <2>1. PromiseStep
    BY NextPromise
  <2>. QED
    BY <2>1 DEF PromiseStep, Promise!abstractVars, Request
<1>. QED
  BY <1>1, <1>2, <1>3, PTL DEF Spec, Implements, Promise!Spec

-----------------------------------------------------------------------------
(* What was written is in the RAM, and what was read was.                 *)

\* How many transfers of the step have arrived.
Passed == Len(Transfers) - Len(pending)

\* Of the first k transfers of usb_read_ram, so many are reads: each of the
\* first ones comes with a control byte, the last two without.
Pairs == NumXfers + 2 + (IF Excess = 0 THEN 0 ELSE 1)
Fetches(k) == IF k <= 2 * Pairs THEN k \div 2 ELSE k - Pairs

\* The i-th block after the one that starts with a line too many.
BlockHolds(block, i) ==
    /\ Len(block) = Block
    /\ \A j \in 1 .. Block :
          call.port + i * Block + j - 2 \in call.port .. Lines - 1 =>
              block[j] = ram[call.port + i * Block + j - 2]

\* The RAM when the first lines of the data are written.
Overlaid(size) ==
    [l \in 0 .. Lines - 1 |->
        IF l \in call.port .. call.port + size - 1 THEN call.data[l - call.port + 1] ELSE ram[l]]

Fetching(m) ==
    /\ Len(inbuf) = m
    /\ dev.lead <=> m = 0
    /\ dev.line = call.port + (IF m = 0 THEN 0 ELSE m * Block - 1)
    /\ m >= 1 => BlockHolds(dev.fifo[2], m - 1)
    /\ m >= 2 => BlockHolds(dev.fifo[1], m - 2)
    /\ \A i \in 3 .. m : BlockHolds(inbuf[i], i - 3)

Writing(k) ==
    LET size == IF k * Block < Len(call.data) THEN k * Block ELSE Len(call.data)
    IN  dev.line = call.port + size /\ dev.ram = Overlaid(size)

SetUp == dev.line = call.port /\ dev.lead

RamProgress(k) ==
    /\ at = "address" /\ k = 4 => SetUp
    /\ at = "setup" => Addressing(dev, DataRam, k) /\ SetUp
    /\ at \in {"write", "blocks"} => ~dev.enabled /\ dev.addr = DataRam
    /\ at = "write" => Writing(k)
    /\ at = "blocks" => Fetching(Fetches(k))
    /\ at \in {"flush", "flush again"} => Addressing(dev, Control, k % 4)

\* What was asked for, and what is in the RAM from there on.
Wanted(to) == [k \in 1 .. to.data[1] |-> ram[to.port + k - 1]]

\* What is read is in the RAM.
WithinRam == call.fn = "usb_read_ram" => call.port + call.data[1] <= Lines

RamSync ==
    /\ WithinRam
    /\ at # "write" => dev.ram = ram
    /\ at \in UsbSteps /\ result = 0 => RamProgress(Passed)
    /\ at \in {"flush", "flush again"} => buffer = Wanted(call)

RamAnswer ==
    (call = NoCall /\ ret.to.fn = "usb_read_ram" /\ ret.value = 0) => buffer = Wanted(ret.to)

RamInv == trust => RamSync /\ RamAnswer

-----------------------------------------------------------------------------
(* How far the transfers of a step have come.                              *)

LEMMA PassedNext ==
    ASSUME TypeInv, UsbSync, pending # <<>>
    PROVE  /\ at \in UsbSteps /\ result = 0
           /\ Passed \in 0 .. Len(Transfers) - 1
           /\ Passed + 1 \in 1 .. Len(Transfers)
           /\ Progress(Passed)
           /\ Head(pending) = Transfers[Passed + 1]
           /\ UNCHANGED <<call, at>> /\ pending' = Tail(pending) => Passed' = Passed + 1
<1>1. PICK k \in 0 .. Len(Transfers) - 1 :
          /\ Progress(k)
          /\ k + 1 \in 1 .. Len(Transfers)
          /\ Head(pending) = Transfers[k + 1]
          /\ Tail(pending) = SubSeq(Transfers, (k + 1) + 1, Len(Transfers))
  BY NextTransfer
<1>2. at \in UsbSteps /\ result = 0 /\ Transfers \in Seq(Transfer)
  BY NextTransfer, TransfersType
<1>3. PICK m \in Nat : m = Len(Transfers)
  BY <1>2, LenProperties
<1>4. PICK j \in 0 .. m : pending = SubSeq(Transfers, j + 1, m)
  BY <1>2, <1>3 DEF UsbSync
<1>5. ASSUME NEW i \in 0 .. m
      PROVE  /\ Len(SubSeq(Transfers, i + 1, m)) = m - i
             /\ SubSeq(Transfers, i + 1, m) \in Seq(Transfer)
  <2>1. \A l \in i + 1 .. m : Transfers[l] \in Transfer
    <3>1. ASSUME NEW l \in i + 1 .. m
          PROVE  l \in 1 .. m
      BY <1>5, <3>1
    <3>. QED
      BY <1>2, <1>3, <3>1, ElementOfSeq
  <2>2. i + 1 \in Int /\ m \in Int
    BY <1>5
  <2>3. /\ SubSeq(Transfers, i + 1, m) \in Seq(Transfer)
        /\ Len(SubSeq(Transfers, i + 1, m)) = IF i + 1 <= m THEN m - (i + 1) + 1 ELSE 0
    BY <2>1, <2>2, SubSeqProperties
  <2>. QED
    BY <1>5, <2>3
<1>6. k + 1 \in 0 .. m /\ k \in 0 .. m - 1
  BY <1>1, <1>3
<1>7. pending \in Seq(Transfer) /\ Len(pending) = m - j
  BY <1>4, <1>5
<1>8. Len(Tail(pending)) = m - (k + 1)
  BY <1>1, <1>3, <1>5, <1>6
<1>9. Len(Tail(pending)) = Len(pending) - 1
  BY <1>7, HeadTailProperties
<1>10. Passed = k
  BY <1>3, <1>6, <1>7, <1>8, <1>9 DEF Passed
<1>11. ASSUME UNCHANGED <<call, at>>, pending' = Tail(pending)
       PROVE  Passed' = k + 1
  <2>1. Transfers' = Transfers
    BY <1>11, TransfersStay
  <2>. QED
    BY <1>3, <1>6, <1>8, <1>11, <2>1 DEF Passed
<1>. QED
  BY <1>1, <1>2, <1>10, <1>11

LEMMA PassedAll ==
    ASSUME TypeInv, UsbSync, at \in UsbSteps, pending = <<>>
    PROVE  Passed = Len(Transfers)
<1>1. Transfers \in Seq(Transfer)
  BY TransfersType
<1>2. Len(Transfers) \in Nat /\ Len(pending) = 0
  BY <1>1, LenProperties
<1>. QED
  BY <1>2 DEF Passed

LEMMA PassedNone ==
    ASSUME NEW xs \in Seq(Transfer), Starts(xs), Transfers' = xs
    PROVE  Passed' = 0 /\ result' = 0 /\ inbuf' = <<>>
<1>1. Len(xs) \in Nat
  BY LenProperties
<1>. QED
  BY <1>1 DEF Passed, Starts

\* Only what is written to the data RAM changes it.
LEMMA RamStays ==
    ASSUME dev \in DevState, NEW x \in Transfer,
           x.pipe = "EP2OUT" => dev.enabled \/ dev.addr # DataRam
    PROVE  /\ Arrived(x).ram = dev.ram
           /\ x.pipe = "EP1OUT" \/ (x.pipe = "EP2OUT" /\ dev.enabled) =>
                 Arrived(x).line = dev.line /\ Arrived(x).lead = dev.lead
<1>1. CASE x.pipe = "EP1OUT"
  <2>1. Arrived(x) = [dev EXCEPT !.enabled = x.enable]
    BY <1>1 DEF Arrived
  <2>. QED
    BY <2>1 DEF DevState
<1>2. CASE x.pipe = "EP2OUT" /\ dev.enabled
  <2>1. Arrived(x) = [dev EXCEPT !.addr = x.data[1]]
    BY <1>2 DEF Arrived
  <2>. QED
    BY <2>1 DEF DevState
<1>3. CASE x.pipe = "EP2OUT" /\ ~dev.enabled
  <2>. DEFINE w == x.data[1]
  <2>1. Arrived(x) \in {dev, [dev EXCEPT !.core = w], [dev EXCEPT !.line = w, !.lead = TRUE]}
    BY <1>3 DEF Arrived, Stored, Core, RamAddress, DataRam
  <2>. HIDE DEF w
  <2>2. Arrived(x).ram = dev.ram
    BY <2>1 DEF DevState
  <2>. QED
    BY <1>3, <2>2
<1>4. CASE x.pipe = "EP6IN"
  <2>. DEFINE f == Append(Tail(dev.fifo), <<status>>)
              g == Append(Tail(dev.fifo), NextBlock)
              l == dev.line + (IF dev.lead THEN Block - 1 ELSE Block)
  <2>1. Arrived(x) \in {[dev EXCEPT !.fifo = f],
                        [dev EXCEPT !.fifo = g, !.lead = FALSE, !.line = l]}
    BY <1>4 DEF Arrived, Fetched
  <2>. HIDE DEF f, g, l
  <2>2. Arrived(x).ram = dev.ram
    BY <2>1 DEF DevState
  <2>. QED
    BY <1>4, <2>2
<1>. QED
  BY <1>1, <1>2, <1>3, <1>4 DEF Transfer

LEMMA RegisterLeavesRam ==
    ASSUME dev \in DevState, NEW a \in 0 .. 3, NEW w \in Nat, NEW k \in 0 .. 3,
           Addressing(dev, a, k), NEW x, x = WriteReg(a, w)[k + 1],
           k = 3 => a # DataRam
    PROVE  /\ Arrived(x).ram = dev.ram
           /\ k < 3 => Arrived(x).line = dev.line /\ Arrived(x).lead = dev.lead
           /\ k = 3 /\ a = RamAddress => Arrived(x).line = w /\ Arrived(x).lead
<1>1. /\ a \in Nat /\ Out(<<a>>) \in Transfer /\ Out(<<a>>).pipe = "EP2OUT"
      /\ Out(<<w>>) \in Transfer /\ Out(<<w>>).data[1] = w
      /\ Out(<<w>>).pipe = "EP2OUT"
  BY TransferTypes
<1>. DEFINE on == ControlByte(TRUE)  off == ControlByte(FALSE)
<1>2. /\ on \in Transfer /\ off \in Transfer /\ on.pipe = "EP1OUT" /\ off.pipe = "EP1OUT"
  BY TransferTypes, Zenon
<1>3. /\ k \in {0, 2} => x \in {on, off}
      /\ k = 1 => x = Out(<<a>>)
      /\ k = 3 => x = Out(<<w>>)
  <2>1. /\ WriteReg(a, w)[1] = on /\ WriteReg(a, w)[2] = Out(<<a>>)
        /\ WriteReg(a, w)[3] = off /\ WriteReg(a, w)[4] = Out(<<w>>)
    BY <1>1, WriteRegFacts, Zenon
  <2>. HIDE DEF on, off
  <2>. QED
    BY <2>1
<1>. HIDE DEF on, off
<1>4. k = 1 => dev.enabled
  BY DEF Addressing
<1>5. k = 3 => ~dev.enabled /\ dev.addr = a
  BY DEF Addressing
<1>6. k \in {0, 1, 2, 3}
  OBVIOUS
<1>7. x \in Transfer /\ (x.pipe = "EP2OUT" => dev.enabled \/ dev.addr # DataRam)
  BY <1>1, <1>2, <1>3, <1>4, <1>5, <1>6
<1>8. k < 3 => x.pipe = "EP1OUT" \/ (x.pipe = "EP2OUT" /\ dev.enabled)
  BY <1>1, <1>2, <1>3, <1>4, <1>6
<1>9. ASSUME k = 3, a = RamAddress
      PROVE  Arrived(x).line = w /\ Arrived(x).lead
  <2>1. Arrived(x) = [dev EXCEPT !.line = w, !.lead = TRUE]
    BY <1>1, <1>3, <1>5, <1>9 DEF Arrived, Stored, RamAddress, Core, DataRam
  <2>. QED
    BY <2>1 DEF DevState
<1>. QED
  BY <1>7, <1>8, <1>9, RamStays

LEMMA ReadLeavesRam ==
    ASSUME dev \in DevState, NEW k \in 0 .. 11, Addressing(dev, Control, k % 4),
           NEW x, x = ReadReg(Control)[k + 1]
    PROVE  Arrived(x).ram = dev.ram
<1>1. k + 1 \in 1 .. 12 /\ k % 4 \in 0 .. 3 /\ (k + 1) - 1 = k
  OBVIOUS
<1>2. x = ReadOnce(Control)[(k % 4) + 1] /\ Harmless(x)
  <2>1. \A i \in 1 .. 12 : /\ ReadReg(Control)[i] = ReadOnce(Control)[((i - 1) % 4) + 1]
                           /\ Harmless(ReadReg(Control)[i])
    BY ReadRegFacts, Zenon
  <2>2. /\ ReadReg(Control)[k + 1] = ReadOnce(Control)[(((k + 1) - 1) % 4) + 1]
        /\ Harmless(ReadReg(Control)[k + 1])
    BY <1>1, <2>1, Zenon
  <2>. QED
    BY <1>1, <2>2
<1>3. ControlByte(TRUE).pipe = "EP1OUT" /\ ControlByte(FALSE).pipe = "EP1OUT"
      /\ In.pipe = "EP6IN"
  BY TransferTypes
<1>4. k % 4 # 1 => x.pipe # "EP2OUT"
  <2>1. k % 4 = 0 \/ k % 4 = 1 \/ k % 4 = 2 \/ k % 4 = 3
    BY <1>1
  <2>2. /\ k % 4 = 0 => x = ControlByte(TRUE)
        /\ k % 4 = 2 => x = ControlByte(FALSE)
        /\ k % 4 = 3 => x = In
    <3>1. /\ ReadOnce(Control)[1] = ControlByte(TRUE) /\ ReadOnce(Control)[4] = In
          /\ ReadOnce(Control)[3] = ControlByte(FALSE)
      BY ReadRegFacts, Zenon
    <3>. DEFINE j == k % 4
    <3>2. x = ReadOnce(Control)[j + 1]
      BY <1>2
    <3>3. /\ j = 0 => x = ControlByte(TRUE)
          /\ j = 2 => x = ControlByte(FALSE)
          /\ j = 3 => x = In
      <4>. HIDE DEF j
      <4>1. 0 + 1 = 1 /\ 2 + 1 = 3 /\ 3 + 1 = 4
        OBVIOUS
      <4>. QED
        BY <3>1, <3>2, <4>1, Zenon
    <3>. QED
      BY <3>3
  <2>. QED
    BY <1>3, <2>1, <2>2, Zenon
<1>5. k % 4 = 1 => dev.enabled
  BY DEF Addressing
<1>6. x \in Transfer
  BY <1>2 DEF Harmless
<1>. QED
  BY <1>4, <1>5, <1>6, RamStays

LEMMA SetupOf ==
    ASSUME NEW k \in 0 .. 2
    PROVE  SetupXfer(DataRam)[k + 1] = WriteReg(DataRam, 0)[k + 1]
<1>. DEFINE on == ControlByte(TRUE)  off == ControlByte(FALSE)  x == Out(<<DataRam>>)
<1>1. /\ WriteReg(DataRam, 0)[1] = on /\ WriteReg(DataRam, 0)[2] = x
      /\ WriteReg(DataRam, 0)[3] = off
  <2>1. DataRam \in Nat /\ 0 \in Nat
    BY DEF DataRam
  <2>. QED
    BY <2>1, WriteRegFacts, Zenon
<1>2. SetupXfer(DataRam) = <<on, x, off>>
  BY Zenon DEF SetupXfer
<1>. HIDE DEF on, off, x
<1>. QED
  BY <1>1, <1>2

\* Control byte and read by turns, then two reads.
LEMMA BlocksTransfers ==
    ASSUME NEW m \in Nat
    PROVE  LET xs == Repeat(m, <<ControlByte(FALSE), In>>) \o <<In, In>>
           IN  /\ Len(xs) = 2 * m + 2
               /\ \A k \in 0 .. 2 * m + 1 :
                     xs[k + 1] = IF k < 2 * m /\ k % 2 = 0 THEN ControlByte(FALSE) ELSE In
<1>. DEFINE off == ControlByte(FALSE)
            ys == Repeat(m, <<off, In>>)
            zs == <<In, In>>
            e(i) == <<off, In>>[((i - 1) % 2) + 1]
<1>1. off \in Transfer /\ In \in Transfer
  BY TransferTypes
<1>. HIDE DEF off
<1>2. Len(<<off, In>>) = 2 /\ <<off, In>>[1] = off /\ <<off, In>>[2] = In
  OBVIOUS
<1>3. \A i \in 1 .. m * 2 : ((i - 1) % 2) + 1 \in {1, 2}
  BY Z3
<1>4. ys = [i \in 1 .. m * 2 |-> e(i)]
  BY <1>2 DEF Repeat
<1>5. \A i \in 1 .. m * 2 : e(i) \in Transfer
  BY <1>1, <1>2, <1>3
<1>6. m * 2 \in Nat
  OBVIOUS
<1>7. ys \in Seq(Transfer) /\ Len(ys) = m * 2
  <2>. HIDE DEF e
  <2>1. [i \in 1 .. m * 2 |-> e(i)] \in Seq(Transfer) /\ Len([i \in 1 .. m * 2 |-> e(i)]) = m * 2
    BY <1>5, <1>6, IsASeq
  <2>. QED
    BY <1>4, <2>1
<1>8. zs \in Seq(Transfer) /\ Len(zs) = 2 /\ zs[1] = In /\ zs[2] = In
  BY <1>1
<1>9. \A i \in 1 .. m * 2 : ys[i] = e(i)
  BY <1>4
<1>. HIDE DEF ys, zs
<1>10. /\ Len(ys \o zs) = m * 2 + 2
       /\ \A i \in 1 .. m * 2 + 2 : (ys \o zs)[i] = IF i <= m * 2 THEN ys[i] ELSE zs[i - m * 2]
  <2>1. /\ Len(ys \o zs) = Len(ys) + Len(zs)
        /\ \A i \in 1 .. Len(ys) + Len(zs) :
              (ys \o zs)[i] = IF i <= Len(ys) THEN ys[i] ELSE zs[i - Len(ys)]
    BY <1>7, <1>8, ConcatProperties
  <2>. QED
    BY <1>7, <1>8, <2>1
<1>11. ASSUME NEW k \in 0 .. 2 * m + 1
       PROVE  (ys \o zs)[k + 1] = IF k < 2 * m /\ k % 2 = 0 THEN off ELSE In
  <2>1. k + 1 \in 1 .. m * 2 + 2
    BY <1>11
  <2>2. CASE k < 2 * m
    <3>1. k + 1 \in 1 .. m * 2 /\ (k + 1) - 1 = k /\ k % 2 \in {0, 1}
      BY <2>2
    <3>2. (ys \o zs)[k + 1] = <<off, In>>[(k % 2) + 1]
      BY <1>9, <1>10, <2>1, <3>1
    <3>. QED
      BY <1>2, <2>2, <3>1, <3>2
  <2>3. CASE ~(k < 2 * m)
    <3>1. ~(k + 1 <= m * 2) /\ (k + 1) - m * 2 \in {1, 2}
      BY <2>3
    <3>. QED
      BY <1>8, <1>10, <2>1, <2>3, <3>1
  <2>. QED
    BY <2>2, <2>3
<1>. DEFINE xs == ys \o zs
<1>12. /\ Len(xs) = 2 * m + 2
       /\ \A k \in 0 .. 2 * m + 1 : xs[k + 1] = IF k < 2 * m /\ k % 2 = 0 THEN off ELSE In
  <2>1. m * 2 + 2 = 2 * m + 2
    OBVIOUS
  <2>. QED
    BY <1>10, <1>11, <2>1, Zenon
<1>. HIDE DEF xs
<1>. QED
  BY <1>12, Zenon DEF xs, ys, zs, off

LEMMA RegisterRam ==
    ASSUME TypeInv, at \in {"word", "load", "address"}, NEW k \in 0 .. 3, Progress(k),
           NEW x, x = Transfers[k + 1], dev' = Arrived(x), InTransfer
    PROVE  dev'.ram = dev.ram /\ RamProgress(k + 1)'
<1>1. dev \in DevState /\ at' = at /\ call' = call /\ call.port \in Nat
  BY DEF TypeInv, UsbType, CallType, InTransfer
<1>2. PICK a \in {Core, RamAddress}, w \in Nat :
          /\ x = WriteReg(a, w)[k + 1] /\ Addressing(dev, a, k)
          /\ at = "address" => a = RamAddress /\ w = call.port
  <2>1. CASE at = "word"
    <3>1. CoreWord(call.port, call.data[1], 0) \in Nat
      BY <2>1, WordOfCall, CoreWordFacts
    <3>. QED
      BY <2>1, <3>1, TransfersType DEF Progress, UsbSteps
  <2>2. CASE at = "load"
    <3>1. CoreWord(call.port, call.data[1], 1) \in Nat
      BY <2>2, WordOfCall, CoreWordFacts
    <3>. QED
      BY <2>2, <3>1, TransfersType DEF Progress, UsbSteps
  <2>3. CASE at = "address"
    BY <1>1, <2>3, TransfersType DEF Progress, UsbSteps, RamSteps
  <2>. QED
    BY <2>1, <2>2, <2>3
<1>3. a \in 0 .. 3 /\ a # DataRam
  BY DEF Core, RamAddress, DataRam
<1>4. /\ Arrived(x).ram = dev.ram
      /\ k = 3 /\ a = RamAddress => Arrived(x).line = w /\ Arrived(x).lead
  BY <1>1, <1>2, <1>3, RegisterLeavesRam
<1>5. at = "address" /\ k + 1 = 4 => dev'.line = call.port /\ dev'.lead
  BY <1>2, <1>4
<1>. QED
  BY <1>1, <1>4, <1>5 DEF RamProgress, SetUp

LEMMA SetupArrives ==
    ASSUME TypeInv, at = "setup", NEW k \in 0 .. 2, RamProgress(k),
           NEW x, x = Transfers[k + 1], dev' = Arrived(x), InTransfer
    PROVE  dev'.ram = dev.ram /\ RamProgress(k + 1)'
<1>1. dev \in DevState /\ at' = at /\ call' = call
  BY DEF TypeInv, UsbType, InTransfer
<1>2. Addressing(dev, DataRam, k) /\ dev.line = call.port /\ dev.lead
  BY DEF RamProgress, SetUp
<1>3. x = WriteReg(DataRam, 0)[k + 1]
  BY SetupOf DEF Transfers
<1>4. DataRam \in 0 .. 3 /\ 0 \in Nat /\ k \in 0 .. 3 /\ k < 3 /\ k # 3
  BY DEF DataRam
<1>5. Addressing(Arrived(x), DataRam, k + 1)
  BY <1>1, <1>2, <1>3, <1>4, RegisterArrives
<1>6. /\ Arrived(x).ram = dev.ram
      /\ Arrived(x).line = dev.line /\ Arrived(x).lead = dev.lead
  <2>. DEFINE a == DataRam  w == 0
  <2>1. /\ a \in 0 .. 3 /\ w \in Nat /\ Addressing(dev, a, k) /\ x = WriteReg(a, w)[k + 1]
        /\ k = 3 => a # DataRam
    BY <1>2, <1>3, <1>4
  <2>. HIDE DEF a, w
  <2>2. /\ Arrived(x).ram = dev.ram
        /\ k < 3 => Arrived(x).line = dev.line /\ Arrived(x).lead = dev.lead
    BY <1>1, <1>4, <2>1, RegisterLeavesRam
  <2>. QED
    BY <1>4, <2>2
<1>. QED
  BY <1>1, <1>2, <1>5, <1>6 DEF RamProgress, SetUp

LEMMA ReadsArrive ==
    ASSUME TypeInv, at \in {"read", "flush", "flush again"}, NEW k \in 0 .. 11,
           Progress(k), RamProgress(k),
           NEW x, x = Transfers[k + 1], dev' = Arrived(x), InTransfer
    PROVE  dev'.ram = dev.ram /\ RamProgress(k + 1)'
<1>1. dev \in DevState /\ at' = at /\ call' = call /\ status \in Byte
  BY DEF TypeInv, UsbType, InTransfer, PortType
<1>2. Addressing(dev, Control, k % 4)
  BY DEF Progress, RamProgress
<1>3. x = ReadReg(Control)[k + 1]
  BY DEF Transfers
<1>4. Addressing(Arrived(x), Control, (k + 1) % 4)
  BY <1>1, <1>2, <1>3, ReadArrives
<1>5. Arrived(x).ram = dev.ram
  BY <1>1, <1>2, <1>3, ReadLeavesRam
<1>. QED
  BY <1>1, <1>4, <1>5 DEF RamProgress

\* The pieces follow each other, and the last one ends with the data.
LEMMA PieceOf ==
    ASSUME NEW data \in Seq(Byte), NEW k \in Nat, k + 1 <= Len(Pieces(data))
    PROVE  \E t \in Seq(Nat) :
              LET next == IF (k + 1) * Block < Len(data) THEN (k + 1) * Block ELSE Len(data)
              IN  /\ Pieces(data)[k + 1] = Out(t)
                  /\ k * Block \in Nat /\ k * Block < next /\ next <= Len(data)
                  /\ Len(t) = next - k * Block
                  /\ \A j \in 1 .. next - k * Block : t[j] = data[k * Block + j]
<1>1. PICK l \in Nat : l = Len(data)
  BY LenProperties
<1>2. PICK m \in Nat : m = (l + Block - 1) \div Block /\ m * Block <= l + Block - 1
  BY SMTT(30)
<1>. DEFINE piece(i) == Out(SubSeq(data, (i - 1) * Block + 1,
                                   IF i * Block < l THEN i * Block ELSE l))
<1>3. Pieces(data) = [i \in 1 .. m |-> piece(i)]
  BY <1>1, <1>2 DEF Pieces
<1>4. Len(Pieces(data)) = m
  <2>. HIDE DEF piece
  <2>. QED
    BY <1>3
<1>5. k + 1 \in 1 .. m /\ (k + 1) - 1 = k
  BY <1>4
<1>6. Pieces(data)[k + 1] = piece(k + 1)
  <2>. HIDE DEF piece
  <2>. QED
    BY <1>3, <1>5
<1>. DEFINE from == k * Block
            next == IF (k + 1) * Block < l THEN (k + 1) * Block ELSE l
            t == SubSeq(data, from + 1, next)
<1>7. Pieces(data)[k + 1] = Out(t)
  BY <1>5, <1>6, Zenon
<1>8. (k + 1) * Block <= m * Block
  BY <1>5, SMTT(30)
<1>9. (k + 1) * Block = k * Block + Block /\ k * Block \in Nat
  BY SMTT(30)
<1>10. from \in Nat /\ next \in Nat /\ from < next /\ next <= l
  BY <1>2, <1>8, <1>9
<1>. HIDE DEF from, next
<1>11. \A j \in from + 1 .. next : data[j] \in Byte
  <2>1. ASSUME NEW j \in from + 1 .. next
        PROVE  j \in 1 .. l
    BY <1>10
  <2>. QED
    BY <1>1, <2>1, ElementOfSeq
<1>12. /\ t \in Seq(Byte)
       /\ Len(t) = next - from
       /\ \A j \in 1 .. next - from : t[j] = data[from + j]
  <2>1. from + 1 \in Int /\ next \in Int /\ from + 1 <= next
    BY <1>10
  <2>2. /\ t \in Seq(Byte)
        /\ Len(t) = IF from + 1 <= next THEN next - (from + 1) + 1 ELSE 0
        /\ \A j \in 1 .. next - (from + 1) + 1 : t[j] = data[from + 1 + j - 1]
    BY <1>11, <2>1, SubSeqProperties
  <2>3. /\ next - (from + 1) + 1 = next - from
        /\ \A j \in 1 .. next - from : from + 1 + j - 1 = from + j
    BY <1>10
  <2>. QED
    BY <2>1, <2>2, <2>3
<1>13. t \in Seq(Nat)
  <2>1. Byte \subseteq Nat
    BY DEF Byte
  <2>. QED
    BY <1>12, <2>1, SeqMonotonic
<1>. HIDE DEF t
<1>14. /\ t \in Seq(Nat) /\ Pieces(data)[k + 1] = Out(t)
       /\ from \in Nat /\ from < next /\ next <= l /\ Len(t) = next - from
       /\ \A j \in 1 .. next - from : t[j] = data[from + j]
  BY <1>7, <1>10, <1>12, <1>13
<1>. QED
  BY <1>1, <1>14, Zenon DEF from, next

LEMMA PiecesCover ==
    ASSUME NEW data \in Seq(Byte)
    PROVE  Len(Pieces(data)) \in Nat /\ Len(data) <= Len(Pieces(data)) * Block
<1>1. PICK l \in Nat : l = Len(data)
  BY LenProperties
<1>2. PICK m \in Nat : m = (l + Block - 1) \div Block /\ l <= m * Block
  <2>1. (l + Block - 1) \div Block \in Nat
    BY SMTT(30)
  <2>2. l <= ((l + Block - 1) \div Block) * Block
    BY SMTT(30)
  <2>. QED
    BY <2>1, <2>2
<1>3. Len(Pieces(data)) = m
  <2>. DEFINE piece(i) == Out(SubSeq(data, (i - 1) * Block + 1,
                                     IF i * Block < l THEN i * Block ELSE l))
  <2>1. Pieces(data) = [i \in 1 .. m |-> piece(i)]
    BY <1>1, <1>2 DEF Pieces
  <2>. HIDE DEF piece
  <2>. QED
    BY <2>1
<1>. QED
  BY <1>1, <1>2, <1>3

\* A piece goes where the one before it ended.
LEMMA PieceArrives ==
    ASSUME TypeInv, at = "write", NEW k \in Nat, k + 1 <= Len(Transfers), RamProgress(k),
           NEW x, x = Transfers[k + 1], dev' = Arrived(x), InTransfer
    PROVE  RamProgress(k + 1)'
<1>1. /\ dev \in DevState /\ UNCHANGED <<at, call, ram>>
      /\ call.data \in Seq(Byte) /\ call.port \in Nat
  BY DEF TypeInv, UsbType, InTransfer, Steps, CallType
<1>2. PICK l \in Nat : l = Len(call.data)
  BY <1>1, LenProperties
<1>. DEFINE from == k * Block
            next == IF (k + 1) * Block < l THEN (k + 1) * Block ELSE l
<1>3. PICK t \in Seq(Nat) :
          /\ x = Out(t)
          /\ from \in Nat /\ from < next /\ next <= l
          /\ Len(t) = next - from
          /\ \A j \in 1 .. next - from : t[j] = call.data[from + j]
  <2>1. Transfers = Pieces(call.data)
    BY DEF Transfers
  <2>. DEFINE data == call.data
  <2>2. data \in Seq(Byte) /\ k + 1 <= Len(Pieces(data)) /\ x = Pieces(data)[k + 1]
    BY <1>1, <2>1
  <2>. HIDE DEF data
  <2>3. \E t \in Seq(Nat) :
           LET last == IF (k + 1) * Block < Len(data) THEN (k + 1) * Block ELSE Len(data)
           IN  /\ Pieces(data)[k + 1] = Out(t)
               /\ k * Block \in Nat /\ k * Block < last /\ last <= Len(data)
               /\ Len(t) = last - k * Block
               /\ \A j \in 1 .. last - k * Block : t[j] = data[k * Block + j]
    BY <2>2, PieceOf
  <2>4. l = Len(data)
    BY <1>2 DEF data
  <2>5. \E t \in Seq(Nat) :
           /\ x = Out(t)
           /\ from \in Nat /\ from < next /\ next <= l
           /\ Len(t) = next - from
           /\ \A j \in 1 .. next - from : t[j] = data[from + j]
    BY <2>2, <2>3, <2>4, Zenon
  <2>. QED
    BY <2>5, Zenon DEF data
<1>4. next \in Nat /\ from < l
  <2>1. (k + 1) * Block \in Nat
    BY SMTT(30)
  <2>2. next \in Nat
    BY <2>1
  <2>. HIDE DEF from, next
  <2>. QED
    BY <1>3, <2>2
<1>5. /\ ~dev.enabled /\ dev.addr = DataRam
      /\ dev.line = call.port + from /\ dev.ram = Overlaid(from)
  <2>1. Writing(k) /\ ~dev.enabled /\ dev.addr = DataRam
    BY DEF RamProgress
  <2>2. (IF from < l THEN from ELSE l) = from
    BY <1>4
  <2>. QED
    BY <1>2, <2>1, <2>2 DEF Writing
<1>6. x.pipe = "EP2OUT" /\ x.data = t
  BY <1>3 DEF Out
<1>. DEFINE cells == [c \in 0 .. Lines - 1 |->
                         IF c \in dev.line .. dev.line + Len(t) - 1
                         THEN t[c - dev.line + 1] ELSE dev.ram[c]]
<1>7. dev' = [dev EXCEPT !.ram = cells, !.line = dev.line + Len(t)]
  BY <1>5, <1>6 DEF Arrived, Stored, Core, RamAddress, DataRam
<1>. HIDE DEF from, next
<1>8. cells = Overlaid(next)
  <2>. DEFINE p == call.port  at0 == dev.line  len == Len(t)
  <2>2. p \in Nat /\ at0 = p + from /\ len = next - from /\ from < next
    BY <1>1, <1>3, <1>5
  <2>3. \A c \in Int : /\ c \in p + from .. p + next - 1 =>
                             /\ c \in at0 .. at0 + len - 1
                             /\ c - at0 + 1 \in 1 .. next - from
                             /\ from + (c - at0 + 1) = c - p + 1
                             /\ c \in p .. p + next - 1
                       /\ ~(c \in p + from .. p + next - 1) =>
                             /\ ~(c \in at0 .. at0 + len - 1)
                             /\ c \in p .. p + from - 1 <=> c \in p .. p + next - 1
    <3>. HIDE DEF p, at0, len
    <3>. QED
      BY <1>3, <1>4, <2>2
  <2>1. ASSUME NEW c \in 0 .. Lines - 1
        PROVE  cells[c] = Overlaid(next)[c]
    <3>1. CASE c \in call.port + from .. call.port + next - 1
      <4>1. /\ c \in dev.line .. dev.line + Len(t) - 1
            /\ c - dev.line + 1 \in 1 .. next - from
            /\ from + (c - dev.line + 1) = c - call.port + 1
            /\ c \in call.port .. call.port + next - 1
        BY <2>3, <3>1
      <4>2. cells[c] = call.data[from + (c - dev.line + 1)]
        BY <1>3, <4>1
      <4>. QED
        BY <4>1, <4>2 DEF Overlaid
    <3>2. CASE ~(c \in call.port + from .. call.port + next - 1)
      <4>1. /\ ~(c \in dev.line .. dev.line + Len(t) - 1)
            /\ c \in call.port .. call.port + from - 1 <=> c \in call.port .. call.port + next - 1
        BY <2>3, <3>2
      <4>2. cells[c] = Overlaid(from)[c]
        BY <1>5, <4>1
      <4>. QED
        BY <4>1, <4>2 DEF Overlaid
    <3>. QED
      BY <3>1, <3>2
  <2>. QED
    BY <2>1 DEF Overlaid
<1>. HIDE DEF cells
<1>9. /\ ~dev'.enabled /\ dev'.addr = DataRam
      /\ dev'.line = call.port + next /\ dev'.ram = Overlaid(next)
  <2>1. /\ dev'.enabled = dev.enabled /\ dev'.addr = dev.addr
        /\ dev'.line = dev.line + Len(t) /\ dev'.ram = cells
    BY <1>1, <1>7 DEF DevState
  <2>2. dev.line + Len(t) = call.port + next
    <3>. DEFINE p == call.port  at0 == dev.line  len == Len(t)
    <3>1. p \in Nat /\ at0 = p + from /\ len = next - from
      BY <1>1, <1>3, <1>5
    <3>2. from \in Nat /\ next \in Nat
      BY <1>3, <1>4
    <3>. HIDE DEF p, at0, len
    <3>3. at0 + len = p + next
      BY <3>1, <3>2
    <3>. QED
      BY <3>3 DEF p, at0, len
  <2>. QED
    BY <1>5, <1>8, <2>1, <2>2, Zenon
<1>10. Overlaid(next)' = Overlaid(next') /\ next' = next /\ Len(call.data)' = l
  BY <1>1, <1>2 DEF Overlaid, next
<1>11. Writing(k + 1)'
  BY <1>1, <1>2, <1>9 DEF Writing, Overlaid, next
<1>. QED
  BY <1>1, <1>9, <1>11 DEF RamProgress

LEMMA ReadAsked ==
    ASSUME TypeInv, call.fn = "usb_read_ram"
    PROVE  /\ call.data[1] \in Nat /\ NumXfers \in Nat /\ Pairs \in Nat
           /\ Excess \in 0 .. Block - 1 /\ Pairs >= NumXfers + 2
           /\ Excess # 0 => Pairs >= NumXfers + 3
           /\ NumXfers * Block \in Nat /\ NumXfers * Block + Excess = call.data[1] + 1
<1>1. call.data \in Seq(Nat) /\ Len(call.data) = 1
  BY DEF TypeInv, CallType
<1>2. 1 \in 1 .. Len(call.data)
  BY <1>1
<1>3. call.data[1] \in Nat
  BY <1>1, <1>2, ElementOfSeq
<1>4. PICK l \in Nat : l = call.data[1] + 1
  BY <1>3
<1>5. /\ l \div Block \in Nat /\ l % Block \in 0 .. Block - 1
      /\ (l \div Block) * Block \in Nat /\ (l \div Block) * Block + (l % Block) = l
  BY SMTT(30)
<1>6. NumXfers = l \div Block /\ Excess = l % Block
  BY <1>4 DEF NumXfers, Excess
<1>7. /\ NumXfers \in Nat /\ Excess \in 0 .. Block - 1
      /\ NumXfers * Block \in Nat /\ NumXfers * Block + Excess = l
  BY <1>5, <1>6, Zenon
<1>8. Pairs \in Nat /\ Pairs >= NumXfers + 2 /\ (Excess # 0 => Pairs >= NumXfers + 3)
  BY <1>7 DEF Pairs
<1>. QED
  BY <1>3, <1>4, <1>7, <1>8, Zenon

\* A fetched block continues the one before it.
LEMMA BlockFetched ==
    ASSUME dev \in DevState, call.port \in Nat, dev.ram = ram, NEW m \in Nat,
           dev.lead <=> m = 0,
           dev.line = call.port + (IF m = 0 THEN 0 ELSE m * Block - 1)
    PROVE  /\ BlockHolds(NextBlock, m)
           /\ dev.line + (IF dev.lead THEN Block - 1 ELSE Block) = call.port + (m + 1) * Block - 1
<1>. DEFINE count == IF dev.lead THEN Block - 1 ELSE Block
            line(i) == IF dev.line + i - 1 < Lines THEN dev.ram[dev.line + i - 1] ELSE Junk
            lines == [i \in 1 .. count |-> line(i)]
<1>1. NextBlock = IF dev.lead THEN <<Junk>> \o lines ELSE lines
  BY Zenon DEF NextBlock
<1>2. (m + 1) * Block = m * Block + Block /\ m * Block \in Nat /\ (m = 0 => m * Block = 0)
  BY SMTT(30)
<1>3. PICK b \in Nat : b = m * Block
  BY <1>2
<1>4. count \in Nat /\ dev.lead \in BOOLEAN
  BY DEF DevState
<1>5. Len(lines) = count /\ \A i \in 1 .. count : lines[i] = line(i)
  <2>. HIDE DEF line, count
  <2>. QED
    BY <1>4
<1>6. dev.line \in Nat
  BY DEF DevState
<1>7. CASE m = 0
  <2>1. dev.lead /\ count = Block - 1 /\ dev.line = call.port /\ b = 0
    BY <1>2, <1>3, <1>7
  <2>2. <<Junk>> \in Seq(Nat) /\ Len(<<Junk>>) = 1
    BY DEF Junk
  <2>3. lines \in Seq(Nat)
    <3>1. ASSUME NEW i \in 1 .. count
          PROVE  line(i) \in Nat
      <4>1. dev.ram \in [0 .. Lines - 1 -> Nat]
        BY DEF DevState
      <4>2. dev.line + i - 1 < Lines => dev.line + i - 1 \in 0 .. Lines - 1
        BY <1>4, <1>6
      <4>. QED
        BY <4>1, <4>2 DEF Junk
    <3>. HIDE DEF line, count
    <3>. QED
      BY <1>4, <3>1, IsASeq
  <2>. HIDE DEF lines
  <2>4. /\ Len(<<Junk>> \o lines) = Len(<<Junk>>) + Len(lines)
        /\ \A i \in 1 .. Len(<<Junk>>) + Len(lines) : (<<Junk>> \o lines)[i] =
              IF i <= Len(<<Junk>>) THEN <<Junk>>[i] ELSE lines[i - Len(<<Junk>>)]
    BY <2>2, <2>3, ConcatProperties
  <2>5. /\ Len(NextBlock) = Block
        /\ \A i \in 2 .. Block : NextBlock[i] = line(i - 1)
    <3>1. Len(<<Junk>>) + Len(lines) = Block
      BY <1>5, <2>1, <2>2
    <3>2. ASSUME NEW i \in 2 .. Block
          PROVE  (<<Junk>> \o lines)[i] = line(i - 1)
      <4>1. i \in 1 .. Block /\ ~(i <= 1) /\ i - 1 \in 1 .. count
        BY <2>1
      <4>2. (<<Junk>> \o lines)[i] = lines[i - 1]
        BY <2>2, <2>4, <3>1, <4>1
      <4>. QED
        BY <1>5, <4>1, <4>2, Zenon
    <3>3. NextBlock = <<Junk>> \o lines
      BY <1>1, <2>1, Zenon
    <3>. QED
      BY <2>4, <3>1, <3>2, <3>3
  <2>6. ASSUME NEW j \in 1 .. Block, call.port + m * Block + j - 2 \in call.port .. Lines - 1
        PROVE  NextBlock[j] = ram[call.port + m * Block + j - 2]
    <3>1. j \in 2 .. Block /\ call.port + m * Block + j - 2 = call.port + j - 2
      BY <1>3, <2>1, <2>6
    <3>2. dev.line + (j - 1) - 1 < Lines /\ dev.line + (j - 1) - 1 = call.port + j - 2
      BY <2>1, <2>6, <3>1
    <3>. QED
      BY <2>5, <3>1, <3>2
  <2>. QED
    BY <1>2, <1>3, <2>1, <2>5, <2>6 DEF BlockHolds
<1>8. CASE m # 0
  <2>1. ~dev.lead /\ count = Block /\ dev.line = call.port + b - 1
    BY <1>3, <1>8
  <2>2. NextBlock = lines
    BY <1>1, <2>1, Zenon
  <2>3. ASSUME NEW j \in 1 .. Block, call.port + m * Block + j - 2 \in call.port .. Lines - 1
        PROVE  NextBlock[j] = ram[call.port + m * Block + j - 2]
    <3>1. NextBlock[j] = line(j)
      BY <1>5, <2>1, <2>2
    <3>2. dev.line + j - 1 < Lines /\ dev.line + j - 1 = call.port + m * Block + j - 2
      BY <1>3, <2>1, <2>3
    <3>. QED
      BY <3>1, <3>2
  <2>4. Len(NextBlock) = Block
    BY <1>5, <2>1, <2>2
  <2>5. BlockHolds(NextBlock, m)
    BY <2>3, <2>4, Zenon DEF BlockHolds
  <2>6. dev.line + Block = call.port + (m + 1) * Block - 1
    BY <1>2, <1>3, <2>1
  <2>. QED
    BY <2>1, <2>5, <2>6
<1>. QED
  BY <1>7, <1>8

LEMMA BlocksNext ==
    ASSUME TypeInv, at = "blocks", NEW k \in Nat, k < Len(Transfers)
    PROVE  /\ Len(Transfers) = 2 * Pairs + 2
           /\ Transfers[k + 1] = IF k < 2 * Pairs /\ k % 2 = 0 THEN ControlByte(FALSE) ELSE In
<1>1. call.fn = "usb_read_ram"
  BY DEF TypeInv, Steps
<1>2. PICK p \in Nat : p = Pairs
  BY <1>1, ReadAsked
<1>3. Transfers = Repeat(p, <<ControlByte(FALSE), In>>) \o <<In, In>>
  BY <1>2, Zenon DEF Transfers, Pairs
<1>4. /\ Len(Transfers) = 2 * p + 2
      /\ \A i \in 0 .. 2 * p + 1 :
            Transfers[i + 1] = IF i < 2 * p /\ i % 2 = 0 THEN ControlByte(FALSE) ELSE In
  BY <1>2, <1>3, BlocksTransfers, Zenon
<1>5. k \in 0 .. 2 * p + 1
  BY <1>4
<1>. QED
  BY <1>2, <1>4, <1>5, Zenon

LEMMA Fifo ==
    ASSUME NEW S, NEW f \in S \X S, NEW y \in S
    PROVE  Append(Tail(f), y) = <<f[2], y>> /\ Head(f) = f[1] /\ f[1] \in S
<1>1. Append(Tail(f), y) = <<f[2], y>>
  BY Shifted
<1>2. PICK a \in S, b \in S : f = <<a, b>>
  OBVIOUS
<1>. QED
  BY <1>1, <1>2

LEMMA BlockArrives ==
    ASSUME TypeInv, at = "blocks", NEW k \in Nat, k < Len(Transfers), RamProgress(k),
           dev.ram = ram,
           NEW x, x = Transfers[k + 1], dev' = Arrived(x), InTransfer,
           inbuf' = IF x = In THEN Append(inbuf, Head(dev.fifo)) ELSE inbuf
    PROVE  dev'.ram = dev.ram /\ RamProgress(k + 1)'
<1>1. /\ dev \in DevState /\ UNCHANGED <<at, call, ram>> /\ status \in Byte
      /\ call.port \in Nat /\ call.fn = "usb_read_ram" /\ inbuf \in Seq(Seq(Nat))
  BY DEF TypeInv, UsbType, InTransfer, Steps, CallType, PortType
<1>2. PICK p \in Nat : p = Pairs
  BY <1>1, ReadAsked
<1>3. /\ Len(Transfers) = 2 * p + 2
      /\ x = IF k < 2 * p /\ k % 2 = 0 THEN ControlByte(FALSE) ELSE In
  BY <1>2, BlocksNext, Zenon
<1>4. PICK m \in Nat : m = Fetches(k)
  <2>1. k \div 2 \in Nat /\ (k > 2 * p => k - p \in Nat)
    OBVIOUS
  <2>2. Fetches(k) = IF k <= 2 * p THEN k \div 2 ELSE k - p
    BY <1>2 DEF Fetches
  <2>. HIDE DEF Fetches
  <2>3. Fetches(k) \in Nat
    BY <2>1, <2>2
  <2>. QED
    BY <2>3
<1>5. Fetches(k + 1) = IF k < 2 * p /\ k % 2 = 0 THEN m ELSE m + 1
  <2>1. k % 2 \in {0, 1} /\ k = 2 * (k \div 2) + (k % 2)
    OBVIOUS
  <2>2. (k + 1) \div 2 = IF k % 2 = 0 THEN k \div 2 ELSE (k \div 2) + 1
    OBVIOUS
  <2>3. m = IF k <= 2 * p THEN k \div 2 ELSE k - p
    BY <1>2, <1>4 DEF Fetches
  <2>4. Fetches(k + 1) = IF k + 1 <= 2 * p THEN (k + 1) \div 2 ELSE (k + 1) - p
    BY <1>2 DEF Fetches
  <2>5. CASE k < 2 * p
    BY <1>2, <2>1, <2>2, <2>3, <2>4, <2>5
  <2>6. CASE k = 2 * p
    <3>1. k \div 2 = p
      BY <2>6
    <3>. QED
      BY <1>2, <2>3, <2>4, <2>6, <3>1
  <2>7. CASE k > 2 * p
    BY <1>2, <2>3, <2>4, <2>7
  <2>. QED
    BY <2>5, <2>6, <2>7
<1>6. /\ ~dev.enabled /\ dev.addr = DataRam
      /\ Len(inbuf) = m /\ (dev.lead <=> m = 0)
      /\ dev.line = call.port + (IF m = 0 THEN 0 ELSE m * Block - 1)
      /\ m >= 1 => BlockHolds(dev.fifo[2], m - 1)
      /\ m >= 2 => BlockHolds(dev.fifo[1], m - 2)
      /\ \A i \in 3 .. m : BlockHolds(inbuf[i], i - 3)
  BY <1>4 DEF RamProgress, Fetching
<1>7. Fetches(k + 1)' = Fetches(k + 1)
  BY <1>1 DEF Fetches, Pairs, NumXfers, Excess
<1>8. \A block, i : BlockHolds(block, i)' <=> BlockHolds(block, i)
  BY <1>1 DEF BlockHolds
<1>9. CASE k < 2 * p /\ k % 2 = 0
  <2>. DEFINE off == ControlByte(FALSE)
  <2>1. off \in Transfer /\ off.pipe = "EP1OUT" /\ off.enable = FALSE /\ off # In
    BY TransferTypes DEF ControlByte, In
  <2>2. x = off
    BY <1>3, <1>9
  <2>. HIDE DEF off
  <2>3. dev' = [dev EXCEPT !.enabled = FALSE] /\ inbuf' = inbuf
    BY <2>1, <2>2 DEF Arrived
  <2>4. /\ ~dev'.enabled /\ dev'.addr = dev.addr /\ dev'.line = dev.line
        /\ dev'.lead = dev.lead /\ dev'.ram = dev.ram /\ dev'.fifo = dev.fifo
    BY <1>1, <2>3 DEF DevState
  <2>5. Fetching(m)'
    BY <1>1, <1>6, <1>8, <2>3, <2>4 DEF Fetching
  <2>. QED
    BY <1>1, <1>5, <1>6, <1>7, <1>9, <2>4, <2>5 DEF RamProgress
<1>10. CASE ~(k < 2 * p /\ k % 2 = 0)
  <2>. DEFINE f == dev.fifo
  <2>1. x = In /\ In.pipe = "EP6IN" /\ f \in Seq(Nat) \X Seq(Nat)
    BY <1>1, <1>3, <1>10, TransferTypes DEF DevState
  <2>2. NextBlock \in Seq(Nat)
    BY <1>1, NextBlockType
  <2>3. /\ Append(Tail(f), NextBlock) = <<f[2], NextBlock>>
        /\ Head(f) = f[1] /\ f[1] \in Seq(Nat)
    <3>. DEFINE T == Seq(Nat)  F == f  y == NextBlock
    <3>1. F \in T \X T /\ y \in T
      BY <2>1, <2>2
    <3>. HIDE DEF F, T, y
    <3>2. Append(Tail(F), y) = <<F[2], y>> /\ Head(F) = F[1] /\ F[1] \in T
      BY <3>1, Fifo
    <3>. QED
      BY <3>2 DEF F, T, y
  <2>. DEFINE l == dev.line + (IF dev.lead THEN Block - 1 ELSE Block)
  <2>4. dev' = [dev EXCEPT !.fifo = <<f[2], NextBlock>>, !.lead = FALSE, !.line = l]
    BY <1>6, <2>1, <2>3 DEF Arrived, Fetched
  <2>5. /\ ~dev'.enabled /\ dev'.addr = dev.addr /\ dev'.line = l
        /\ ~dev'.lead /\ dev'.ram = dev.ram
        /\ dev'.fifo[1] = f[2] /\ dev'.fifo[2] = NextBlock
    <3>. HIDE DEF f, l
    <3>. QED
      BY <1>1, <1>6, <2>4 DEF DevState
  <2>6. /\ Len(inbuf') = m + 1 /\ inbuf'[m + 1] = f[1]
        /\ \A i \in 1 .. m : inbuf'[i] = inbuf[i]
    <3>. DEFINE T == Seq(Nat)  h == Head(f)
    <3>1. inbuf \in Seq(T) /\ h \in T /\ inbuf' = Append(inbuf, h) /\ h = f[1]
      BY <1>1, <2>1, <2>3
    <3>. HIDE DEF T, h, f
    <3>. QED
      BY <1>6, <3>1, AppendProperties
  <2>7. /\ BlockHolds(NextBlock, m)
        /\ l = call.port + (m + 1) * Block - 1
    BY <1>1, <1>6, BlockFetched
  <2>. HIDE DEF f, l
  <2>8. ASSUME NEW i \in 3 .. m + 1
        PROVE  BlockHolds(inbuf'[i], i - 3)
    <3>1. CASE i = m + 1
      <4>1. m >= 2 /\ i - 3 = m - 2
        BY <2>8, <3>1
      <4>. QED
        BY <1>6, <2>6, <3>1, <4>1 DEF f
    <3>2. CASE i # m + 1
      <4>1. i \in 3 .. m /\ i \in 1 .. m
        BY <2>8, <3>2
      <4>. QED
        BY <1>6, <2>6, <4>1
    <3>. QED
      BY <3>1, <3>2
  <2>9. Fetching(m + 1)'
    <3>1. /\ (m + 1) - 1 = m /\ (m + 1) - 2 = m - 1 /\ m + 1 # 0 /\ (m + 1 >= 2 => m >= 1)
      OBVIOUS
    <3>2. BlockHolds(dev'.fifo[2], m) /\ (m + 1 >= 2 => BlockHolds(dev'.fifo[1], m - 1))
      BY <1>6, <2>5, <2>7, <3>1 DEF f
    <3>3. dev'.line = call'.port + (m + 1) * Block - 1
      BY <1>1, <2>5, <2>7
    <3>4. Fetching(m + 1)' <=>
              /\ Len(inbuf') = m + 1
              /\ dev'.lead <=> m + 1 = 0
              /\ dev'.line = call'.port + (IF m + 1 = 0 THEN 0 ELSE (m + 1) * Block - 1)
              /\ m + 1 >= 1 => BlockHolds(dev'.fifo[2], (m + 1) - 1)
              /\ m + 1 >= 2 => BlockHolds(dev'.fifo[1], (m + 1) - 2)
              /\ \A i \in 3 .. m + 1 : BlockHolds(inbuf'[i], i - 3)
      BY <1>8, Zenon DEF Fetching
    <3>. QED
      BY <2>5, <2>6, <2>8, <3>1, <3>2, <3>3, <3>4
  <2>. QED
    BY <1>1, <1>5, <1>6, <1>7, <1>10, <2>5, <2>9 DEF RamProgress
<1>. QED
  BY <1>9, <1>10

LEMMA StepLengths ==
    ASSUME TypeInv
    PROVE  /\ at \in {"word", "load", "address"} => Len(Transfers) = 4
           /\ at = "setup" => Len(Transfers) = 3
           /\ at \in {"read", "flush", "flush again"} => Len(Transfers) = 12
<1>1. /\ Core \in Nat /\ RamAddress \in Nat /\ call.port \in Nat
      /\ at = "word" => CoreWord(call.port, call.data[1], 0) \in Nat
      /\ at = "load" => CoreWord(call.port, call.data[1], 1) \in Nat
  BY WordOfCall, CoreWordFacts DEF Core, RamAddress, TypeInv, CallType
<1>2. ASSUME NEW a \in Nat, NEW w \in Nat
      PROVE  Len(WriteReg(a, w)) = 4
  BY WriteRegFacts
<1>3. /\ at = "word" => Transfers = WriteReg(Core, CoreWord(call.port, call.data[1], 0))
      /\ at = "load" => Transfers = WriteReg(Core, CoreWord(call.port, call.data[1], 1))
      /\ at = "address" => Transfers = WriteReg(RamAddress, call.port)
      /\ at = "setup" => Transfers = SetupXfer(DataRam)
      /\ at \in {"read", "flush", "flush again"} => Transfers = ReadReg(Control)
  BY DEF Transfers
<1>4. Len(SetupXfer(DataRam)) = 3 /\ Len(ReadReg(Control)) = 12
  BY SetupFacts, ReadRegFacts
<1>5. at \in {"word", "load", "address"} => Len(Transfers) = 4
  BY <1>1, <1>2, <1>3
<1>6. at = "setup" => Len(Transfers) = 3
  BY <1>3, <1>4, Zenon
<1>7. at \in {"read", "flush", "flush again"} => Len(Transfers) = 12
  BY <1>3, <1>4, Zenon
<1>. QED
  BY <1>5, <1>6, <1>7, Zenon

\* Outside of the writes no transfer changes the RAM.
LEMMA ArrivedRam ==
    ASSUME TypeInv, at \in UsbSteps \ {"write"}, NEW k \in Nat, k < Len(Transfers),
           Progress(k), RamProgress(k),
           NEW x, x = Transfers[k + 1], dev' = Arrived(x), InTransfer
    PROVE  dev'.ram = dev.ram /\ (at # "blocks" => RamProgress(k + 1)')
<1>1. CASE at \in {"word", "load", "address"}
  <2>1. Len(Transfers) = 4
    BY <1>1, StepLengths, Zenon
  <2>2. k \in 0 .. 3
    BY <2>1
  <2>. QED
    BY <1>1, <2>2, RegisterRam
<1>2. CASE at = "setup"
  <2>1. Len(Transfers) = 3
    BY <1>2, StepLengths, Zenon
  <2>2. k \in 0 .. 2
    BY <2>1
  <2>. QED
    BY <1>2, <2>2, SetupArrives
<1>3. CASE at \in {"read", "flush", "flush again"}
  <2>1. Len(Transfers) = 12
    BY <1>3, StepLengths, Zenon
  <2>2. k \in 0 .. 11
    BY <2>1
  <2>. QED
    BY <1>3, <2>2, ReadsArrive
<1>4. CASE at = "blocks"
  <2>. DEFINE off == ControlByte(FALSE)
  <2>1. x \in {off, In}
    BY <1>4, BlocksNext, Zenon
  <2>2. off \in Transfer /\ In \in Transfer /\ off.pipe # "EP2OUT" /\ In.pipe # "EP2OUT"
    BY TransferTypes
  <2>. HIDE DEF off
  <2>3. x \in Transfer /\ x.pipe # "EP2OUT" /\ dev \in DevState
    BY <2>1, <2>2 DEF TypeInv, UsbType
  <2>4. Arrived(x).ram = dev.ram
    BY <2>3, RamStays
  <2>. QED
    BY <1>4, <2>4
<1>. QED
  BY <1>1, <1>2, <1>3, <1>4 DEF UsbSteps, RamSteps

LEMMA TransferRam ==
    ASSUME TypeInv, UsbSync, RamSync, OsUsbTransfer \/ OsUsbTransferFails
    PROVE  RamSync'
<1>1. pending # <<>> /\ InTransfer
  BY DEF OsUsbTransfer, OsUsbTransferFails
<1>2. UNCHANGED <<call, at, ram, buffer>>
  BY <1>1 DEF InTransfer
<1>3. at \in UsbSteps /\ result = 0 /\ Passed \in 0 .. Len(Transfers) - 1
  BY <1>1, PassedNext
<1>4. PICK k \in Nat : k = Passed /\ k < Len(Transfers)
  <2>1. Len(Transfers) \in Nat
    BY <1>3, TransfersType, LenProperties
  <2>. QED
    BY <1>3, <2>1
<1>. DEFINE x == Head(pending)
<1>5. Progress(k) /\ RamProgress(k) /\ x = Transfers[k + 1]
  BY <1>1, <1>3, <1>4, PassedNext DEF RamSync
<1>. HIDE DEF x
<1>6. at # "write" => dev'.ram = ram
  <2>1. dev' = dev \/ dev' = Arrived(x)
    BY DEF OsUsbTransfer, OsUsbTransferFails, Arrives, x
  <2>. QED
    BY <1>1, <1>3, <1>4, <1>5, <2>1, ArrivedRam DEF RamSync
<1>7. ASSUME result' = 0
      PROVE  RamProgress(Passed)'
  <2>1. /\ dev' = Arrived(x) /\ pending' = Tail(pending)
        /\ inbuf' = IF x = In THEN Append(inbuf, Head(dev.fifo)) ELSE inbuf
    BY <1>7 DEF OsUsbTransfer, OsUsbTransferFails, Arrives, x
  <2>2. Passed' = k + 1
    BY <1>1, <1>2, <1>4, <2>1, PassedNext
  <2>3. RamProgress(k + 1)'
    <3>1. CASE at = "write"
      <4>1. k + 1 <= Len(Transfers)
        <5>1. Len(Transfers) \in Nat
          BY <1>3, TransfersType, LenProperties
        <5>. QED
          BY <1>4, <5>1
      <4>. QED
        BY <1>1, <1>4, <1>5, <2>1, <3>1, <4>1, PieceArrives
    <3>2. CASE at = "blocks"
      BY <1>1, <1>4, <1>5, <2>1, <3>2, BlockArrives DEF RamSync
    <3>3. CASE at \notin {"write", "blocks"}
      BY <1>1, <1>3, <1>4, <1>5, <2>1, <3>3, ArrivedRam
    <3>. QED
      BY <3>1, <3>2, <3>3
  <2>. QED
    BY <2>2, <2>3, Zenon DEF RamProgress
<1>. QED
  BY <1>2, <1>3, <1>6, <1>7 DEF RamSync, WithinRam, Wanted

\* From the third block on, and from the second line of it.
LEMMA CopiedIsWanted ==
    ASSUME TypeInv, call.fn = "usb_read_ram", call.port + call.data[1] <= Lines,
           NumXfers # 0, NEW m \in Nat, Fetching(m), m >= NumXfers + 3
    PROVE  Copied = Wanted(call)
<1>1. /\ call.data[1] \in Nat /\ NumXfers \in Nat /\ call.port \in Nat
      /\ Excess \in 0 .. Block - 1
      /\ NumXfers * Block \in Nat /\ NumXfers * Block + Excess = call.data[1] + 1
  BY ReadAsked DEF TypeInv, CallType
<1>2. PICK size \in Nat : size = call.data[1] /\ NumXfers * Block + Excess - 1 = size
  BY <1>1
<1>. DEFINE cell(k) == Line(2 + 1 + k \div Block, (k % Block) + 1)
<1>3. Copied = [k \in 1 .. size |-> cell(k)]
  BY <1>2 DEF Copied, CopiedAfter
<1>4. ASSUME NEW k \in 1 .. size
      PROVE  cell(k) = ram[call.port + k - 1]
  <2>1. PICK q \in Nat, r \in 0 .. Block - 1 :
            q = k \div Block /\ r = k % Block /\ q * Block \in Nat /\ q * Block + r = k
    BY SMTT(30)
  <2>2. q <= NumXfers
    <3>1. ASSUME q > NumXfers
          PROVE  FALSE
      <4>1. q * Block >= (NumXfers + 1) * Block
        BY <1>1, <3>1, SMTT(30)
      <4>2. (NumXfers + 1) * Block = NumXfers * Block + Block
        BY <1>1, SMTT(30)
      <4>. QED
        BY <1>1, <1>2, <2>1, <4>1, <4>2
    <3>. QED
      BY <1>1, <3>1
  <2>3. BlockHolds(inbuf[3 + q], q)
    <3>1. 3 + q \in 3 .. m /\ (3 + q) - 3 = q
      BY <1>1, <2>2
    <3>2. \A i \in 3 .. m : BlockHolds(inbuf[i], i - 3)
      BY DEF Fetching
    <3>. QED
      BY <3>1, <3>2
  <2>4. /\ r + 1 \in 1 .. Block /\ r + 1 <= Block
        /\ call.port + q * Block + (r + 1) - 2 = call.port + k - 1
        /\ call.port + k - 1 \in call.port .. Lines - 1
    BY <1>1, <1>2, <2>1
  <2>5. Len(inbuf[3 + q]) = Block /\ inbuf[3 + q][r + 1] = ram[call.port + k - 1]
    BY <2>3, <2>4 DEF BlockHolds
  <2>6. cell(k) = Line(3 + q, r + 1)
    <3>1. 2 + 1 + q = 3 + q
      OBVIOUS
    <3>. QED
      BY <2>1, <3>1, Zenon
  <2>. QED
    BY <2>4, <2>5, <2>6 DEF Line
<1>. HIDE DEF cell
<1>. QED
  BY <1>2, <1>3, <1>4 DEF Wanted

LEMMA RamReturns ==
    ASSUME TypeInv, at # "write", RamSync, NEW value, Return(value),
           UNCHANGED <<dev, ram, buffer>>,
           call.fn = "usb_read_ram" /\ value = 0 => buffer = Wanted(call)
    PROVE  RamSync' /\ RamAnswer'
<1>1. call' = NoCall /\ at' = "idle" /\ ret' = [to |-> call, value |-> value]
  BY DEF Return
<1>2. RamSync'
  BY <1>1 DEF RamSync, WithinRam, NoCall, UsbSteps, RamSteps
<1>3. RamAnswer'
  BY <1>1 DEF RamAnswer, Wanted
<1>. QED
  BY <1>2, <1>3

LEMMA AtFirst ==
    /\ \A d, a : Addressing(d, a, 0)
    /\ 0 % 4 = 0 /\ 0 # 4 /\ ~(0 >= 1) /\ ~(0 >= 2) /\ 3 .. 0 = {} /\ 0 \div 2 = 0
BY DEF Addressing

Reached == ~dev.enabled /\ dev.addr = DataRam

\* The first step of a call, or the next one.
LEMMA RamStarts ==
    ASSUME at' \in UsbSteps \ {"write"}, NEW xs \in Seq(Transfer), Starts(xs), Transfers' = xs,
           WithinRam', dev'.ram = ram', call'.port \in Nat,
           at' \in {"setup", "blocks"} => SetUp',
           at' = "blocks" => Reached' /\ Pairs' \in Nat,
           at' \in {"flush", "flush again"} => (buffer = Wanted(call))'
    PROVE  RamSync'
<1>1. Passed' = 0 /\ result' = 0 /\ Len(inbuf') = 0
  BY PassedNone
<1>2. ASSUME at' = "blocks"
      PROVE  Fetching(Fetches(0))'
  <2>1. Fetches(0)' = 0
    <3>1. 0 <= 2 * Pairs'
      BY <1>2
    <3>. QED
      BY <3>1, AtFirst, Zenon DEF Fetches
  <2>2. dev'.line = call'.port + 0 /\ dev'.lead
    BY <1>2 DEF SetUp
  <2>3. Fetching(0)'
    BY <1>1, <2>2, AtFirst, Zenon DEF Fetching
  <2>. QED
    BY <2>1, <2>3, Zenon DEF Fetching
<1>3. RamProgress(0)'
  BY <1>2, AtFirst, Zenon DEF RamProgress, Reached
<1>4. RamProgress(Passed)'
  BY <1>1, <1>3, Zenon DEF RamProgress
<1>. QED
  BY <1>4, Zenon DEF RamSync

LEMMA NotIgnored ==
    ASSUME "ignored" \in Voids, TypeInv, at \in UsbSteps, NEW l, NEW xs, Ignoring(l, xs), trust'
    PROVE  result = 0
<1>1. result < 0 => ~trust'
  <2>1. result < 0 => Distrusted("ignored")
    BY DEF Ignoring
  <2>2. Distrusted("ignored") => ~trust'
    BY Zenon DEF Distrusted
  <2>. QED
    BY <2>1, <2>2, Zenon
<1>2. result \in {0, -1}
  BY DEF TypeInv, UsbType
<1>. QED
  BY <1>1, <1>2

LEMMA SetupRamKnows ==
    ASSUME "ignored" \in Voids, TypeInv, UsbSync, RamSync, SetupRam, trust'
    PROVE  RamSync'
<1>1. /\ at = "address" /\ pending = <<>> /\ Goto("setup") /\ Starts(SetupXfer(DataRam))
      /\ UNCHANGED <<dev, ram>> /\ at \in UsbSteps
  BY DEF SetupRam, Over, Ignoring, Keep, UsbSteps, RamSteps
<1>2. result = 0
  <2>1. Ignoring("setup", SetupXfer(DataRam))
    BY DEF SetupRam
  <2>. QED
    BY <1>1, <2>1, NotIgnored
<1>3. Passed = 4
  BY <1>1, PassedAll, StepLengths
<1>4. RamProgress(4) /\ WithinRam /\ dev.ram = ram
  BY <1>1, <1>2, <1>3 DEF RamSync
<1>5. SetUp
  BY <1>1, <1>4 DEF RamProgress
<1>6. at' = "setup" /\ call' = call /\ at' \in UsbSteps \ {"write"} /\ call.port \in Nat
  BY <1>1 DEF Goto, UsbSteps, RamSteps, TypeInv, CallType
<1>7. SetUp' /\ WithinRam' /\ dev'.ram = ram' /\ Transfers' = SetupXfer(DataRam)
  BY <1>1, <1>4, <1>5, <1>6 DEF SetUp, WithinRam, Transfers
<1>. QED
  BY <1>1, <1>6, <1>7, SetupFacts, RamStarts

LEMMA SetupKnown ==
    ASSUME "ignored" \in Voids, TypeInv, UsbSync, RamSync, at = "setup", pending = <<>>,
           NEW l, NEW xs, Ignoring(l, xs), trust'
    PROVE  Reached /\ SetUp /\ WithinRam /\ dev.ram = ram
<1>1. at \in UsbSteps
  BY DEF UsbSteps, RamSteps
<1>2. result = 0
  BY <1>1, NotIgnored
<1>3. Passed = 3
  BY <1>1, PassedAll, StepLengths
<1>4. RamProgress(3) /\ WithinRam /\ dev.ram = ram
  BY <1>1, <1>2, <1>3 DEF RamSync
<1>. QED
  BY <1>4 DEF RamProgress, Addressing, Reached

LEMMA WriteBlocksKnows ==
    ASSUME "ignored" \in Voids, TypeInv, UsbSync, RamSync, WriteBlocks, trust'
    PROVE  RamSync'
<1>1. /\ at = "setup" /\ pending = <<>> /\ Ignoring("write", Pieces(call.data))
      /\ call.fn = "usb_write_ram"
  BY DEF WriteBlocks, Over
<1>2. Goto("write") /\ Starts(Pieces(call.data)) /\ UNCHANGED <<dev, ram>>
  BY <1>1 DEF Ignoring, Keep
<1>3. Reached /\ SetUp /\ dev.ram = ram
  BY <1>1, SetupKnown
<1>4. at' = "write" /\ call' = call /\ call.port \in Nat /\ call.data \in Seq(Byte)
  BY <1>1, <1>2 DEF Goto, TypeInv, CallType
<1>5. Passed' = 0
  <2>1. Transfers' = Pieces(call.data)
    BY <1>4 DEF Transfers
  <2>2. Pieces(call.data) \in Seq(Transfer)
    BY <1>4, PiecesFacts
  <2>. QED
    BY <1>2, <2>1, <2>2, PassedNone
<1>6. ram \in [0 .. Lines - 1 -> Nat]
  BY <1>3 DEF TypeInv, UsbType, DevState
<1>7. Writing(0)'
  <2>1. PICK l \in Nat : l = Len(call.data)
    BY <1>4, LenProperties
  <2>2. 0 * Block = 0 /\ (IF 0 < l THEN 0 ELSE l) = 0
    BY <2>1, SMTT(30)
  <2>3. Overlaid(0) = ram
    BY <1>4, <1>6 DEF Overlaid
  <2>4. dev.line = call.port + 0 /\ dev.ram = Overlaid(0)
    BY <1>3, <1>4, <2>3 DEF SetUp
  <2>5. Writing(0)
    BY <2>1, <2>2, <2>4, Zenon DEF Writing
  <2>. QED
    BY <1>2, <1>4, <2>5 DEF Writing, Overlaid
<1>8. RamProgress(0)'
  BY <1>2, <1>3, <1>4, <1>7 DEF RamProgress, Reached
<1>9. RamProgress(Passed)'
  BY <1>5, <1>8, Zenon DEF RamProgress
<1>. QED
  BY <1>1, <1>4, <1>9 DEF RamSync, WithinRam

LEMMA ReadBlocksKnows ==
    ASSUME "ignored" \in Voids, TypeInv, UsbSync, RamSync, ReadBlocks, trust'
    PROVE  RamSync'
<1>. DEFINE m == NumXfers + 2 + (IF Excess = 0 THEN 0 ELSE 1)
            xs == Repeat(m, <<ControlByte(FALSE), In>>) \o <<In, In>>
<1>1. /\ at = "setup" /\ pending = <<>> /\ Ignoring("blocks", xs) /\ call.fn = "usb_read_ram"
  BY Zenon DEF ReadBlocks, Over
<1>2. m \in Nat
  <2>1. Pairs \in Nat
    BY <1>1, ReadAsked
  <2>. QED
    BY <2>1, Zenon DEF Pairs
<1>3. xs \in Seq(Transfer)
  <2>. HIDE DEF m
  <2>. QED
    BY <1>2, BlocksFacts, Zenon
<1>4. at' = "blocks" => Transfers' = (Repeat(m, <<ControlByte(FALSE), In>>) \o <<In, In>>)'
  BY Zenon DEF Transfers
<1>5. call' = call => (Repeat(m, <<ControlByte(FALSE), In>>) \o <<In, In>>)' = xs
  BY Zenon DEF NumXfers, Excess
<1>. HIDE DEF m, xs
<1>6. Goto("blocks") /\ Starts(xs) /\ UNCHANGED <<dev, ram>>
  BY <1>1 DEF Ignoring, Keep
<1>7. at' = "blocks" /\ call' = call /\ at' \in UsbSteps \ {"write"} /\ call.port \in Nat
  BY <1>6 DEF Goto, UsbSteps, RamSteps, TypeInv, CallType
<1>8. Transfers' = xs
  BY <1>4, <1>5, <1>7, Zenon
<1>9. Reached /\ SetUp /\ WithinRam /\ dev.ram = ram
  BY <1>1, SetupKnown
<1>10. Pairs' = Pairs /\ Pairs \in Nat
  BY <1>1, <1>7, ReadAsked DEF Pairs, NumXfers, Excess
<1>11. Reached' /\ SetUp' /\ WithinRam' /\ dev'.ram = ram' /\ Pairs' \in Nat
  BY <1>6, <1>7, <1>9, <1>10 DEF Reached, SetUp, WithinRam
<1>. QED
  BY <1>3, <1>6, <1>7, <1>8, <1>11, RamStarts

LEMMA FlushReadsKnows ==
    ASSUME "short" \in Voids, TypeInv, UsbSync, RamSync, FlushReads, trust'
    PROVE  RamSync'
<1>1. /\ at = "blocks" /\ pending = <<>> /\ result = 0 /\ buffer' = Copied
      /\ Goto("flush") /\ Starts(ReadReg(Control)) /\ UNCHANGED <<dev, ram>>
      /\ at \in UsbSteps
  BY DEF FlushReads, Over, Keep, UsbSteps, RamSteps
<1>2. NumXfers # 0
  BY DEF FlushReads, Distrusted
<1>3. call.fn = "usb_read_ram" /\ call.port \in Nat
  BY <1>1 DEF TypeInv, Steps, CallType
<1>4. PICK p \in Nat : p = Pairs /\ p >= NumXfers + 2 /\ NumXfers \in Nat
  BY <1>3, ReadAsked
<1>5. Passed = 2 * p + 2
  <2>1. Passed = Len(Transfers)
    BY <1>1, PassedAll
  <2>2. Transfers = Repeat(p, <<ControlByte(FALSE), In>>) \o <<In, In>>
    BY <1>1, <1>4, Zenon DEF Transfers, Pairs
  <2>3. Len(Transfers) = 2 * p + 2
    BY <1>4, <2>2, BlocksTransfers, Zenon
  <2>. QED
    BY <2>1, <2>3
<1>6. Fetches(2 * p + 2) = p + 2
  BY <1>4 DEF Fetches
<1>7. RamProgress(2 * p + 2) /\ WithinRam /\ dev.ram = ram
  BY <1>1, <1>5 DEF RamSync
<1>8. Fetching(p + 2)
  BY <1>1, <1>6, <1>7 DEF RamProgress
<1>9. Copied = Wanted(call)
  <2>1. call.port + call.data[1] <= Lines
    BY <1>3, <1>7 DEF WithinRam
  <2>2. p + 2 \in Nat /\ p + 2 >= NumXfers + 3
    <3>1. NumXfers + 2 + 2 >= NumXfers + 3 /\ p + 2 \in Nat
      BY <1>4
    <3>. QED
      BY <1>4
  <2>. QED
    BY <1>2, <1>3, <1>8, <2>1, <2>2, CopiedIsWanted
<1>10. at' = "flush" /\ call' = call /\ at' \in UsbSteps \ {"write"}
  BY <1>1 DEF Goto, UsbSteps, RamSteps
<1>11. (buffer = Wanted(call))' /\ WithinRam' /\ dev'.ram = ram'
  BY <1>1, <1>7, <1>9, <1>10 DEF Wanted, WithinRam
<1>12. Transfers' = ReadReg(Control)
  BY <1>10 DEF Transfers
<1>. QED
  BY <1>1, <1>3, <1>10, <1>11, <1>12, ReadRegFacts, RamStarts

LEMMA FlushAgainKnows ==
    ASSUME TypeInv, RamSync, FlushAgain
    PROVE  RamSync'
<1>1. /\ at = "flush" /\ Goto("flush again") /\ Starts(ReadReg(Control))
      /\ UNCHANGED <<dev, ram, buffer>>
  BY DEF FlushAgain, Over, Then, Keep
<1>2. at' = "flush again" /\ call' = call /\ at' \in UsbSteps \ {"write"} /\ call.port \in Nat
  BY <1>1 DEF Goto, UsbSteps, RamSteps, TypeInv, CallType
<1>3. WithinRam /\ dev.ram = ram /\ buffer = Wanted(call)
  BY <1>1 DEF RamSync
<1>4. (buffer = Wanted(call))' /\ WithinRam' /\ dev'.ram = ram'
  BY <1>1, <1>2, <1>3 DEF Wanted, WithinRam
<1>5. Transfers' = ReadReg(Control)
  BY <1>2 DEF Transfers
<1>. QED
  BY <1>1, <1>2, <1>4, <1>5, ReadRegFacts, RamStarts

LEMMA LoadCoreKnows ==
    ASSUME TypeInv, RamSync, LoadCore
    PROVE  RamSync'
<1>. DEFINE xs == WriteReg(Core, CoreWord(call.port, call.data[1], 1))
<1>1. /\ at = "word" /\ Goto("load") /\ Starts(xs) /\ UNCHANGED <<dev, ram>>
  BY Zenon DEF LoadCore, Over, Then, Keep
<1>2. xs \in Seq(Transfer)
  <2>1. Core \in Nat /\ CoreWord(call.port, call.data[1], 1) \in Nat
    BY <1>1, WordOfCall, CoreWordFacts DEF Core
  <2>. QED
    BY <2>1, WriteRegFacts
<1>3. Transfers' = xs
  BY <1>1 DEF Transfers, Goto
<1>. HIDE DEF xs
<1>4. at' = "load" /\ call' = call /\ at' \in UsbSteps \ {"write"} /\ call.port \in Nat
  BY <1>1 DEF Goto, UsbSteps, RamSteps, TypeInv, CallType
<1>5. WithinRam' /\ dev'.ram = ram'
  BY <1>1, <1>4 DEF RamSync, WithinRam
<1>. QED
  BY <1>1, <1>2, <1>3, <1>4, <1>5, RamStarts

\* An acknowledged write has written all of its data.
LEMMA WriteRamReturnsKnows ==
    ASSUME TypeInv, UsbSync, RamSync, WriteRamReturns
    PROVE  RamSync' /\ RamAnswer'
<1>1. /\ at = "write" /\ pending = <<>> /\ Return(result) /\ dev' = dev /\ at \in UsbSteps
      /\ ram' = IF result < 0 THEN dev.ram ELSE Overlaid(Len(call.data))
  BY Zenon DEF WriteRamReturns, Over, Overlaid, UsbSteps, RamSteps
<1>2. call.fn = "usb_write_ram" /\ call.data \in Seq(Byte) /\ result \in {0, -1}
  BY <1>1 DEF TypeInv, Steps, CallType, UsbType
<1>3. dev'.ram = ram'
  <2>1. CASE result = 0
    <3>1. PICK m \in Nat, l \in Nat :
              m = Len(Pieces(call.data)) /\ l = Len(call.data) /\ l <= m * Block
      BY <1>2, PiecesCover, LenProperties
    <3>2. Passed = m
      <4>1. Transfers = Pieces(call.data)
        BY <1>1 DEF Transfers
      <4>. QED
        BY <1>1, <3>1, <4>1, PassedAll
    <3>3. Writing(m)
      BY <1>1, <2>1, <3>2 DEF RamSync, RamProgress
    <3>4. (IF m * Block < l THEN m * Block ELSE l) = l
      <4>1. m * Block \in Nat
        BY SMTT(30)
      <4>. QED
        BY <3>1, <4>1
    <3>5. dev.ram = Overlaid(l)
      BY <3>1, <3>3, <3>4, Zenon DEF Writing
    <3>6. ~(result < 0)
      BY <2>1
    <3>. QED
      BY <1>1, <3>1, <3>5, <3>6, Zenon
  <2>2. CASE result = -1
    BY <1>1, <2>2
  <2>. QED
    BY <1>2, <2>1, <2>2
<1>4. at' = "idle" /\ call' = NoCall /\ ret'.to = call
  BY <1>1 DEF Return
<1>5. RamSync'
  BY <1>3, <1>4 DEF RamSync, WithinRam, NoCall, UsbSteps, RamSteps
<1>6. RamAnswer'
  BY <1>2, <1>4 DEF RamAnswer
<1>. QED
  BY <1>5, <1>6

LEMMA UsbReturnsKnow ==
    ASSUME TypeInv, UsbSync, RamSync, UsbOutpReturns \/ UsbReadRegReturns \/ ReadRamReturns
    PROVE  RamSync' /\ RamAnswer'
<1>1. CASE UsbOutpReturns \/ UsbReadRegReturns
  <2>1. PICK value : Return(value) /\ UNCHANGED <<dev, ram, buffer>>
    BY <1>1 DEF UsbOutpReturns, UsbReadRegReturns, Answers, Keep
  <2>2. at \in {"word", "load", "read"}
    BY <1>1 DEF UsbOutpReturns, UsbReadRegReturns, Over
  <2>3. call.fn # "usb_read_ram" /\ at # "write"
    BY <2>2 DEF TypeInv, Steps
  <2>. QED
    BY <2>1, <2>3, RamReturns
<1>2. CASE ReadRamReturns
  <2>1. CASE at = "blocks" /\ Answers(-1)
    <3>1. Return(-1) /\ UNCHANGED <<dev, ram, buffer>> /\ -1 # 0
      BY <2>1 DEF Answers, Keep
    <3>. QED
      BY <2>1, <3>1, RamReturns
  <2>2. CASE at = "flush again" /\ Answers(0)
    <3>1. Return(0) /\ UNCHANGED <<dev, ram, buffer>> /\ buffer = Wanted(call)
      BY <2>2 DEF Answers, Keep, RamSync
    <3>. QED
      BY <2>2, <3>1, RamReturns
  <2>. QED
    BY <1>2, <2>1, <2>2 DEF ReadRamReturns, Over
<1>. QED
  BY <1>1, <1>2

LEMMA UsbStepRam ==
    ASSUME {"ignored", "short"} \subseteq Voids, TypeInv, UsbSync, RamSync, RamAnswer, UsbStep,
           trust'
    PROVE  RamSync' /\ RamAnswer'
<1>1. "ignored" \in Voids /\ "short" \in Voids
  OBVIOUS
<1>2. ASSUME NEW l, at \in UsbSteps, Goto(l)
      PROVE  RamAnswer'
  <2>1. call' # NoCall
    BY <1>2 DEF Goto, TypeInv, Steps, UsbSteps, RamSteps
  <2>. QED
    BY <2>1 DEF RamAnswer
<1>. USE DEF UsbSteps, RamSteps
<1>3. CASE OsUsbTransfer \/ OsUsbTransferFails
  <2>1. UNCHANGED <<call, ret, ram, buffer>>
    BY <1>3 DEF OsUsbTransfer, OsUsbTransferFails, InTransfer
  <2>2. RamAnswer'
    BY <2>1 DEF RamAnswer, Wanted
  <2>. QED
    BY <1>3, <2>2, TransferRam
<1>4. CASE LoadCore \/ SetupRam \/ WriteBlocks \/ ReadBlocks \/ FlushReads \/ FlushAgain
  <2>1. at \in UsbSteps /\ \E l : Goto(l)
    BY <1>4 DEF LoadCore, SetupRam, WriteBlocks, ReadBlocks, FlushReads, FlushAgain, Over,
                Then, Ignoring
  <2>2. RamSync'
    BY <1>1, <1>4, LoadCoreKnows, SetupRamKnows, WriteBlocksKnows, ReadBlocksKnows,
       FlushReadsKnows, FlushAgainKnows
  <2>. QED
    BY <1>2, <2>1, <2>2
<1>5. CASE UsbOutpReturns \/ UsbReadRegReturns \/ ReadRamReturns
  BY <1>5, UsbReturnsKnow
<1>6. CASE WriteRamReturns
  BY <1>6, WriteRamReturnsKnows
<1>. QED
  BY <1>3, <1>4, <1>5, <1>6 DEF UsbStep

LEMMA UsbCallRam ==
    ASSUME \A r \in Ranges : r.start + r.length <= Lines,
           TypeInv, TypeInv', RamSync, UsbCall
    PROVE  RamSync' /\ RamAnswer'
<1>1. PICK fn, port, data, first, xs :
          /\ CallUsb(fn, port, data, first, xs)
          /\ fn # "none" /\ first \in {"word", "read", "address"}
          /\ xs \in Seq(Transfer) /\ Transfers' = xs
          /\ fn = "usb_read_ram" => \E r \in Ranges : port = r.start /\ data = <<r.length>>
  <2>1. CASE UsbOutp
    <3>1. PICK p \in Port, b \in Byte :
              CallUsb("pb_outp", p, <<b>>, "word", WriteReg(Core, CoreWord(p, b, 0)))
      BY <2>1 DEF UsbOutp
    <3>2. WriteReg(Core, CoreWord(p, b, 0)) \in Seq(Transfer)
      BY CoreWordFacts, WriteRegFacts DEF Core
    <3>3. Transfers' = WriteReg(Core, CoreWord(p, b, 0))
      <4>1. call'.port = p /\ call'.data = <<b>> /\ at' = "word" /\ <<b>>[1] = b
        BY <3>1 DEF CallUsb, Begin
      <4>. QED
        BY <4>1 DEF Transfers
    <3>. QED
      BY <3>1, <3>2, <3>3
  <2>2. CASE UsbReadReg
    <3>1. CallUsb("usb_read_reg", 0, <<>>, "read", ReadReg(Control))
      BY <2>2 DEF UsbReadReg
    <3>2. Transfers' = ReadReg(Control)
      BY <3>1 DEF CallUsb, Begin, Transfers
    <3>. QED
      BY <3>1, <3>2, ReadRegFacts
  <2>3. CASE UsbWriteRam
    <3>1. PICK r \in Ranges : CallUsb("usb_write_ram", r.start, Pattern(r.length), "address",
                                      WriteReg(RamAddress, r.start))
      BY <2>3 DEF UsbWriteRam
    <3>2. WriteReg(RamAddress, r.start) \in Seq(Transfer)
      BY WriteRegFacts DEF RamAddress
    <3>3. Transfers' = WriteReg(RamAddress, r.start)
      BY <3>1 DEF CallUsb, Begin, Transfers
    <3>. QED
      BY <3>1, <3>2, <3>3
  <2>4. CASE UsbReadRam
    <3>1. PICK r \in Ranges : CallUsb("usb_read_ram", r.start, <<r.length>>, "address",
                                      WriteReg(RamAddress, r.start))
      BY <2>4 DEF UsbReadRam
    <3>2. WriteReg(RamAddress, r.start) \in Seq(Transfer)
      BY WriteRegFacts DEF RamAddress
    <3>3. Transfers' = WriteReg(RamAddress, r.start)
      BY <3>1 DEF CallUsb, Begin, Transfers
    <3>. QED
      BY <3>1, <3>2, <3>3
  <2>. QED
    BY <2>1, <2>2, <2>3, <2>4 DEF UsbCall
<1>2. /\ call' = [fn |-> fn, port |-> port, data |-> data] /\ at' = first
      /\ Starts(xs) /\ UNCHANGED <<dev, ram>> /\ call = NoCall
  BY <1>1 DEF CallUsb, Begin
<1>3. call'.fn = fn /\ call' # NoCall /\ call'.port \in Nat
  BY <1>1, <1>2 DEF NoCall, TypeInv, CallType
<1>4. WithinRam'
  <2>1. ASSUME fn = "usb_read_ram"
        PROVE  call'.port + call'.data[1] <= Lines
    <3>1. PICK r \in Ranges : port = r.start /\ data = <<r.length>>
      BY <1>1, <2>1
    <3>2. call'.port = r.start /\ call'.data[1] = r.length
      BY <1>2, <3>1
    <3>. QED
      BY <3>2
  <2>. QED
    BY <1>3, <2>1 DEF WithinRam
<1>5. dev.ram = ram
  <2>1. at # "write"
    BY <1>2 DEF TypeInv, Steps
  <2>. QED
    BY <2>1 DEF RamSync
<1>6. at' \in UsbSteps \ {"write"} /\ at' \notin {"setup", "blocks", "flush", "flush again"}
      /\ dev'.ram = ram'
  BY <1>1, <1>2, <1>5 DEF UsbSteps, RamSteps
<1>7. RamSync'
  BY <1>1, <1>2, <1>3, <1>4, <1>6, RamStarts
<1>8. RamAnswer'
  BY <1>3 DEF RamAnswer
<1>. QED
  BY <1>7, <1>8

\* The steps of the other kinds of boards do not touch the RAM.
LEMMA RamUntouched ==
    ASSUME TypeInv, TypeInv', RamSync, RamAnswer, UNCHANGED usbVars,
           at \notin UsbSteps, at' \notin UsbSteps,
           call' # NoCall \/ ret'.to = call
    PROVE  RamSync' /\ RamAnswer'
<1>1. UNCHANGED <<dev, ram, buffer, result>>
  BY DEF usbVars
<1>2. dev.ram = ram
  BY DEF RamSync, UsbSteps, RamSteps
<1>3. call.fn # "usb_read_ram"
  BY DEF TypeInv, Steps, UsbSteps, RamSteps
<1>4. call'.fn # "usb_read_ram"
  BY DEF TypeInv, Steps, UsbSteps, RamSteps
<1>5. WithinRam'
  BY <1>4 DEF WithinRam
<1>6. RamSync'
  BY <1>1, <1>2, <1>5, Zenon DEF RamSync, UsbSteps, RamSteps
<1>7. RamAnswer'
  BY <1>3 DEF RamAnswer
<1>. QED
  BY <1>6, <1>7

LEMMA RamStutters ==
    ASSUME RamSync, RamAnswer, UNCHANGED <<call, at, ret>>, UNCHANGED usbVars
    PROVE  RamSync' /\ RamAnswer'
<1>1. UNCHANGED <<dev, pending, result, inbuf, ram, buffer>>
  BY DEF usbVars
<1>2. Passed' = Passed
  BY <1>1, TransfersStay DEF Passed
<1>3. UNCHANGED <<NumXfers, Excess, Pairs>>
  BY DEF Pairs, NumXfers, Excess
<1>4. ASSUME NEW k, RamProgress(k)
      PROVE  RamProgress(k)'
  <2>1. SetUp => SetUp'
    BY <1>1, Zenon DEF SetUp
  <2>2. Writing(k) => Writing(k)'
    <3>1. ASSUME NEW size
          PROVE  Overlaid(size)' = Overlaid(size)
      BY <1>1 DEF Overlaid
    <3>. QED
      BY <1>1, <3>1, Zenon DEF Writing
  <2>3. ASSUME NEW m, Fetching(m)
        PROVE  Fetching(m)'
    <3>1. ASSUME NEW block, NEW i, BlockHolds(block, i)
          PROVE  BlockHolds(block, i)'
      BY <1>1, <3>1, Zenon DEF BlockHolds
    <3>. QED
      BY <1>1, <2>3, <3>1, Zenon DEF Fetching
  <2>4. Fetches(k)' = Fetches(k)
    BY <1>3, Zenon DEF Fetches
  <2>5. \A a \in {DataRam, Control}, j \in {k, k % 4} :
            Addressing(dev, a, j) => Addressing(dev', a, j)
    BY <1>1, Zenon
  <2>. QED
    BY <1>1, <1>4, <2>1, <2>2, <2>3, <2>4, Zenon DEF RamProgress
<1>5. WithinRam => WithinRam'
  BY Zenon DEF WithinRam
<1>6. buffer = Wanted(call) => buffer' = Wanted(call)'
  BY <1>1, Zenon DEF Wanted
<1>7. RamSync'
  BY <1>1, <1>2, <1>4, <1>5, <1>6, Zenon DEF RamSync
<1>8. RamAnswer'
  BY <1>1, Zenon DEF RamAnswer, Wanted
<1>. QED
  BY <1>7, <1>8

LEMMA InitRam ==
    ASSUME Init
    PROVE  RamInv
<1>1. /\ call = NoCall /\ at = "idle" /\ ret.to = NoCall /\ dev.ram = ram
  BY DEF Init, PortInit, UsbInit
<1>. QED
  BY <1>1 DEF RamInv, RamSync, RamAnswer, WithinRam, NoCall, UsbSteps, RamSteps

\* A step that leaves the RAM alone does not restore trust either.
LEMMA OthersTrust ==
    ASSUME TypeInv, trust',
           \/ AmccCall \/ AmccStep \/ UsbCall \/ InpUnsupported \/ RefuseInp
           \/ ChipNext \/ StatusChange \/ UNCHANGED vars
    PROVE  trust
<1>1. CASE AmccCall
  BY <1>1 DEF AmccCall, AmccOutp, AmccInp, OldOutp, Begin
<1>2. CASE AmccStep
  <2>1. CASE Words
    BY <2>1 DEF Words, ClearXfer, OutpEnds, InpGoesOn, SendWord, PollWord, AwaitByte,
                AwaitRelease, Failed, Distrusted, TypeInv, PortType
  <2>2. CASE NibbleSteps
    BY <2>2, NibbleStepsFacts
  <2>. QED
    BY <1>2, <2>1, <2>2 DEF AmccStep, Words, NibbleSteps
<1>3. CASE UsbCall
  BY <1>3 DEF UsbCall, UsbOutp, UsbReadReg, UsbWriteRam, UsbReadRam, CallUsb, Begin
<1>4. CASE InpUnsupported \/ RefuseInp
  BY <1>4 DEF InpUnsupported, RefuseInp, Begin
<1>5. CASE ChipNext
  BY <1>5 DEF ChipNext, ChipTake, ChipToggle, ChipReady, ChipRelease, ChipCount, Quiet
<1>6. CASE StatusChange \/ UNCHANGED vars
  BY <1>6 DEF StatusChange, vars, portVars, history
<1>. QED
  BY <1>1, <1>2, <1>3, <1>4, <1>5, <1>6

LEMMA NextRam ==
    ASSUME {"ignored", "short"} \subseteq Voids,
           \A r \in Ranges : r.start + r.length <= Lines,
           Base, Base', RamInv, [Next]_vars
    PROVE  RamInv'
<1>. SUFFICES ASSUME trust'
              PROVE  RamSync' /\ RamAnswer'
  BY DEF RamInv
<1>1. TypeInv /\ TypeInv' /\ UsbSync
  BY DEF Base
<1>2. trust
  <2>1. CASE UsbStep
    BY <1>1, <2>1, UsbStepTrust
  <2>. QED
    BY <1>1, <2>1, OthersTrust DEF Next, Step, Environment
<1>3. RamSync /\ RamAnswer
  BY <1>2 DEF RamInv
<1>4. CASE AmccCall /\ UNCHANGED usbVars
  <2>1. /\ at = "idle" /\ at' \in {"clear", "resync"} /\ call' # NoCall
    BY <1>1, <1>4, BeginKeeps DEF AmccCall, AmccOutp, AmccInp, OldOutp, Begin, TypeInv, Steps
  <2>. QED
    BY <1>1, <1>3, <1>4, <2>1, RamUntouched DEF UsbSteps, RamSteps
<1>5. CASE UsbCall /\ UNCHANGED amccVars
  BY <1>1, <1>3, <1>5, UsbCallRam
<1>6. CASE AmccStep /\ UNCHANGED usbVars
  <2>1. at \in AmccSteps \cup OldSteps /\ at' \in {"idle"} \cup AmccSteps \cup OldSteps
    BY <1>1, <1>6, WordsFacts, NibbleStepsFacts DEF AmccStep, Words, NibbleSteps
  <2>2. at' # "idle" \/ ret'.to = call
    <3>1. ASSUME NEW value, Return(value)
          PROVE  ret'.to = call
      BY <3>1 DEF Return
    <3>2. ASSUME NEW l, Goto(l), l # "idle"
          PROVE  at' # "idle"
      BY <3>2 DEF Goto
    <3>. QED
      BY <1>6, <3>1, <3>2
      DEF AmccStep, ClearXfer, OutpEnds, InpGoesOn, SendWord, PollWord, AwaitByte, AwaitRelease,
          OldResync, OldAdvance, OldNibble, OldCount, Failed
  <2>3. at \notin UsbSteps /\ at' \notin UsbSteps
    BY <2>1 DEF AmccSteps, OldSteps, UsbSteps, RamSteps
  <2>4. at' # "idle" => call' # NoCall
    BY <1>1 DEF TypeInv, Steps
  <2>. QED
    BY <1>1, <1>3, <1>6, <2>2, <2>3, <2>4, RamUntouched
<1>7. CASE UsbStep /\ UNCHANGED amccVars
  BY <1>1, <1>3, <1>7, UsbStepRam
<1>8. CASE InpUnsupported
  <2>1. at = "idle" /\ at' = "unsupported" /\ call' # NoCall /\ UNCHANGED usbVars
    BY <1>1, <1>8, BeginKeeps DEF InpUnsupported, Begin, TypeInv, Steps
  <2>. QED
    BY <1>1, <1>3, <2>1, RamUntouched DEF UsbSteps, RamSteps
<1>9. CASE RefuseInp
  <2>1. at = "unsupported" /\ at' = "idle" /\ ret'.to = call /\ UNCHANGED usbVars
    BY <1>9 DEF RefuseInp, Return
  <2>. QED
    BY <1>1, <1>3, <2>1, RamUntouched DEF UsbSteps, RamSteps
<1>10. CASE \/ ChipNext /\ UNCHANGED usbVars
            \/ StatusChange /\ UNCHANGED usbVars
            \/ UNCHANGED vars
  <2>1. UNCHANGED <<call, at, ret>> /\ UNCHANGED usbVars
    BY <1>10 DEF ChipNext, ChipTake, ChipToggle, ChipReady, ChipRelease, ChipCount, Quiet,
                 StatusChange, vars, portVars
  <2>. QED
    BY <1>3, <2>1, RamStutters
<1>. QED
  BY <1>4, <1>5, <1>6, <1>7, <1>8, <1>9, <1>10 DEF Next, Step, Environment

\* What usb_write_ram acknowledges is in the RAM, at its place and nothing else
\* was changed; what usb_read_ram acknowledges is what the RAM holds there, in
\* spite of the chip's two buffers and the line that comes first (usb.c): for any
\* size of block and any ranges within the RAM, until the result of a setup is
\* ignored that has failed, or less than a block is read.
THEOREM RamIsHonest ==
    ASSUME {"ignored", "short"} \subseteq Voids,
           \A r \in Ranges : r.start + r.length <= Lines
    PROVE  Spec => []RamHonest
<1>1. Init => Base /\ RamInv
  BY InitBase, InitRam
<1>2. Base /\ RamInv /\ [Next]_vars => (Base /\ RamInv)'
  <2>. SUFFICES ASSUME Base, RamInv, [Next]_vars
                PROVE  (Base /\ RamInv)'
    OBVIOUS
  <2>1. Base'
    BY NextBase
  <2>. QED
    BY <2>1, NextRam
<1>3. Base /\ RamInv => RamHonest
  <2>. SUFFICES ASSUME Base, RamInv, call = NoCall, trust
                PROVE  /\ dev.ram = ram
                       /\ (ret.to.fn = "usb_read_ram" /\ ret.value = 0) => buffer = Wanted(ret.to)
    BY DEF RamHonest, Wanted
  <2>1. at # "write"
    BY DEF Base, TypeInv, Steps
  <2>. QED
    BY <2>1 DEF RamInv, RamSync, RamAnswer
<1>. QED
  BY <1>1, <1>2, <1>3, PTL DEF Spec

=============================================================================

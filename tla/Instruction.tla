------------------------------- MODULE Instruction -------------------------------
(***************************************************************************)
(* Encoding an instruction: from the operands of pb_inst_pbonly64,         *)
(* pb_inst_tworf, pb_inst_radio, pb_inst_radio_shape(_cyclops),            *)
(* pb_inst_rpg, pb_inst_dds2(_shape), pb_4C_inst and pb_4C_stop to what is *)
(* sent to the board: a flag word, an opcode, its data and a delay.        *)
(*                                                                         *)
(* An operand and a flag word are the sets of the numbers of their bits    *)
(* that are one, so that -1 is 0 .. 31 and every limit of get_caps, which  *)
(* is a power of two, is a number of bits.  A length is given in half      *)
(* clock cycles, the fraction that rounding tells apart.  The words of the *)
(* board hold delays below DelayRange (2^32) and instruction data below    *)
(* DataRange (2^20), and the "FF" of the core counter is Byte - 1 (2^8).   *)
(***************************************************************************)
EXTENDS Integers, FiniteSets

CONSTANTS
    Boards,       \* the boards that are programmed, by the names of Caps
    Operands,     \* the operands tried: a set of functions on Field
    FlagWords,    \* the flags tried with pb_inst_pbonly64
    Timings,      \* the opcodes, data and lengths tried
    Usual,        \* the timing that goes with operands other than zero
    DelayRange, DataRange, Byte,
    Voids         \* the hazards that excuse what is sent

Field == {"freq", "cos", "sin", "tx", "rx", "txen", "rxen", "rst", "trig", "shape", "amp",
          "real", "imag", "swap", "flags",
          "freq1", "tx1", "amp1", "shape1", "txen1", "rst1"}
Bit == 0 .. 95
Inst == {"CONTINUE", "STOP", "LOOP", "LONG_DELAY", "INVALID"}

ASSUME InstructionAssumption ==
    /\ Operands \subseteq [Field -> SUBSET (0 .. 31)]
    /\ FlagWords \subseteq SUBSET (0 .. 63)
    /\ Timings \subseteq [inst : Inst, data : Int, length : Int]
    /\ Usual \in Timings
    /\ DelayRange \in Nat \ {0} /\ DataRange \in Nat \ {0}
    /\ Byte \in 2 .. DelayRange
    /\ Voids \subseteq {"narrow", "estimated", "unchecked", "wrong_call", "unshaped",
                        "length", "data", "rpg_counter", "unsupported"}

VARIABLES
    board,        \* the selected board
    has_FF_fix,   \* of it: whether its core counter is taken to be right
    call,         \* the last call
    sent          \* what it sent and answered

vars == <<board, has_FF_fix, call, sent>>

-----------------------------------------------------------------------------
(* Capabilities.  A limit is the number of bits of the registers' numbers, *)
(* or None when there is no register.                                      *)

None == -1
Within(v, bits) == bits >= 0 /\ v \subseteq 0 .. bits - 1

Plain == [design |-> "none", freq |-> None, cos |-> None, sin |-> None, tx |-> None,
          amp |-> None, dfreq |-> None, dphase |-> None, damp |-> None,
          shape |-> FALSE, cyclops |-> FALSE, noacq |-> FALSE, ff |-> FALSE,
          accepts |-> 24, keeps |-> 24, usb2 |-> FALSE, second |-> FALSE]
Radio == [Plain EXCEPT !.design = "radio", !.freq = 4, !.cos = 2, !.sin = 2, !.tx = 7]
Shaped == [Radio EXCEPT !.design = "standard", !.tx = 4, !.amp = 2, !.shape = TRUE]
NoAcq == [Shaped EXCEPT !.cos = None, !.sin = None, !.noacq = TRUE, !.ff = TRUE]
Cyclops == [Shaped EXCEPT !.design = "cyclops", !.tx = 2, !.freq = 3, !.cyclops = TRUE,
                          !.ff = TRUE]
Usb2 == [Plain EXCEPT !.accepts = 96, !.keeps = 96, !.usb2 = TRUE, !.ff = TRUE]
Dds2 == [Usb2 EXCEPT !.design = "dds2", !.dfreq = 4, !.dphase = 3, !.damp = 2, !.shape = TRUE,
                     !.second = TRUE]

Caps == [
    amcc     |-> [Plain EXCEPT !.design = "rf", !.freq = 6, !.cos = 6, !.sin = 6, !.tx = 6],
    esr      |-> Plain,
    esr908   |-> [Plain EXCEPT !.keeps = 8, !.ff = TRUE],
    core4    |-> [Plain EXCEPT !.design = "4C"],
    pcie     |-> [Plain EXCEPT !.ff = TRUE],
    sp16     |-> [Plain EXCEPT !.design = "sp16"],
    rp10_4   |-> Radio,
    rp10_8   |-> Shaped,
    rp10_10  |-> [Shaped EXCEPT !.design = "topspin", !.freq = 2, !.tx = 1, !.ff = TRUE],
    rp12_6   |-> [Shaped EXCEPT !.design = "progression", !.freq = 2, !.tx = 2, !.ff = TRUE],
    rp10_15  |-> [NoAcq EXCEPT !.design = "pbdds15"],
    rp10_16  |-> [NoAcq EXCEPT !.design = "pbdds16", !.freq = 10, !.tx = 3],
    rp10_19  |-> [NoAcq EXCEPT !.design = "pbdds19", !.freq = 10, !.tx = 3, !.amp = 10,
                               !.accepts = 32, !.keeps = 32],
    rp10_21  |-> Cyclops,
    rp12_16  |-> [Cyclops EXCEPT !.design = "cyclops7", !.freq = 4, !.tx = 4,
                                 !.accepts = 32, !.keeps = 32],
    rp12_8   |-> [Shaped EXCEPT !.freq = 5, !.tx = 5, !.ff = TRUE],
    rpg      |-> [Shaped EXCEPT !.design = "rpg", !.tx = 7, !.cyclops = TRUE],
    usbpb    |-> Usb2,
    dds14_1  |-> Dds2,
    dds14_3  |-> [Dds2 EXCEPT !.design = "dds2wide", !.dfreq = 10, !.dphase = 7, !.damp = 10],
    dds12_19 |-> [Dds2 EXCEPT !.design = "dds1", !.dfreq = 10, !.dphase = 7, !.damp = 10,
                              !.freq = 5, !.cos = 2, !.sin = 2, !.tx = 5, !.amp = 2,
                              !.noacq = TRUE, !.second = FALSE]]

ASSUME BoardsAssumption == Boards \subseteq DOMAIN Caps

Board == Caps[board]

-----------------------------------------------------------------------------
(* The partitions of the flag word: where the bits of each operand go, as  *)
(* <<operand, its first bit, number of bits, their place in the word>>.    *)

Slice(o, from, width, at) == [op |-> o, from |-> from, width |-> width, at |-> at]

\* Two phase selects that share a bit.
PhaseSlicesOverlap(at) == {Slice("sin", 0, 2, at + 1), Slice("cos", 0, 2, at)}

PhaseSlices(at) == {Slice("sin", 0, 2, at + 2), Slice("cos", 0, 2, at)}
LowSlices(shapeAt) ==
    {Slice("rst", 0, 1, 9), Slice("shape", 0, 3, shapeAt), Slice("amp", 0, 2, shapeAt - 2)}
OneBit(o, at) == Slice(o, 0, 1, at)

Standard(txBits, freqBits) ==
    PhaseSlices(20) \cup LowSlices(6) \cup
    {Slice("tx", 0, txBits, 16), OneBit("txen", 15), Slice("freq", 0, freqBits, 11),
     OneBit("trig", 10), Slice("flags", 0, 4, 0)}

CyclopsSlices(txBits) ==
    PhaseSlices(20) \cup LowSlices(6) \cup
    {Slice("tx", 0, txBits, 18), Slice("freq", 0, 3, 15), OneBit("real", 14), OneBit("imag", 13),
     OneBit("swap", 12), OneBit("txen", 11), OneBit("trig", 10), Slice("flags", 0, 4, 0)}

RadioSlices ==
    PhaseSlices(20) \cup
    {Slice("tx", 0, 7, 13), OneBit("txen", 12), Slice("freq", 0, 4, 8), OneBit("trig", 7),
     OneBit("rst", 6), Slice("flags", 0, 6, 0)}

RfSlices ==
    {Slice("freq", 0, 4, 20), Slice("tx", 0, 4, 16), Slice("rx", 0, 4, 12), OneBit("txen", 11),
     OneBit("rxen", 10), Slice("flags", 0, 10, 0)}

TopspinSlices ==
    PhaseSlices(20) \cup LowSlices(6) \cup
    {OneBit("tx", 16), OneBit("txen", 15), Slice("freq", 0, 2, 11), OneBit("trig", 10),
     Slice("flags", 6, 3, 17), Slice("flags", 4, 2, 13), Slice("flags", 0, 4, 0)}

ProgressionSlices ==
    PhaseSlices(20) \cup LowSlices(12) \cup
    {Slice("tx", 0, 2, 18), OneBit("txen", 15), Slice("freq", 0, 2, 16), OneBit("trig", 8),
     Slice("flags", 0, 8, 0)}

\* txBits: as many as the code masks, or as many as the word has room for.
PbddsSlices(design, txBits) ==
    CASE design = "pbdds15" ->
            LowSlices(6) \cup
            {Slice("flags", 5, 4, 20), Slice("tx", 0, 4, 16), OneBit("txen", 15),
             Slice("freq", 0, 4, 11), Slice("flags", 4, 1, 10), Slice("flags", 0, 4, 0)}
      [] design = "pbdds16" ->
            LowSlices(6) \cup
            {Slice("freq", 0, 10, 14), OneBit("txen", 13), Slice("tx", 0, 3, 10),
             Slice("flags", 0, 4, 0)}
      [] design = "pbdds19" ->
            {Slice("amp", 0, 10, 22), Slice("freq", 0, 10, 12), OneBit("txen", 11),
             Slice("tx", 0, txBits, 8), OneBit("rst", 7), Slice("shape", 0, 3, 4),
             Slice("flags", 0, 4, 0)}

Cyclops7Slices ==
    PhaseSlices(24) \cup LowSlices(12) \cup
    {OneBit("swap", 30), OneBit("imag", 29), OneBit("real", 28), Slice("tx", 0, 4, 20),
     Slice("freq", 0, 4, 16), OneBit("txen", 15), OneBit("trig", 8), Slice("flags", 0, 8, 0)}

Dds2Slices(design) ==
    CASE design = "dds2" ->
            {Slice("flags", 0, 12, 0), OneBit("txen", 12), OneBit("txen1", 13), OneBit("rst", 14),
             OneBit("rst1", 15), Slice("freq", 0, 4, 16), Slice("freq1", 0, 4, 20),
             Slice("tx", 0, 3, 24), Slice("tx1", 0, 3, 27), Slice("amp", 0, 2, 30),
             Slice("amp1", 0, 2, 32), Slice("shape", 0, 3, 34), Slice("shape1", 0, 3, 37)}
      [] design = "dds2wide" ->
            {Slice("flags", 0, 4, 0), OneBit("txen", 4), OneBit("txen1", 5), OneBit("rst", 6),
             OneBit("rst1", 7), Slice("freq", 0, 10, 8), Slice("freq1", 0, 10, 18),
             Slice("tx", 0, 4, 28), Slice("tx", 4, 3, 32), Slice("tx1", 0, 7, 35),
             Slice("amp", 0, 10, 42), Slice("amp1", 0, 10, 52), Slice("shape", 0, 2, 62),
             Slice("shape", 2, 1, 64), Slice("shape1", 0, 3, 65)}
      [] design = "dds1" ->
            {Slice("flags", 0, 4, 0), OneBit("txen", 4), OneBit("rst", 5), Slice("freq", 0, 10, 6),
             Slice("tx", 0, 7, 16), Slice("amp", 0, 9, 23), Slice("amp", 9, 1, 32),
             Slice("shape", 0, 3, 33)}

\* What the code packs into the word of a board of this design.
Packing(design) ==
    CASE design = "standard" -> Standard(4, 4)
      [] design = "cyclops"  -> CyclopsSlices(2)
      [] design = "cyclops7" -> Cyclops7Slices
      [] design = "radio"    -> RadioSlices
      [] design = "rf"       -> RfSlices
      [] design = "topspin"  -> TopspinSlices
      [] design = "progression" -> ProgressionSlices
      [] design \in {"pbdds15", "pbdds16", "pbdds19"} -> PbddsSlices(design, 2)
      [] design \in {"dds2", "dds2wide", "dds1"} -> Dds2Slices(design)
      [] design = "rpg" -> CyclopsSlices(2)

Pack(slices, ops) ==
    UNION {{s.at + k : k \in {j \in 0 .. s.width - 1 : s.from + j \in ops[s.op]}} : s \in slices}

\* pb_inst_rpg and pb_inst_tworf shift without a mask.
Shift(slices, ops) == UNION {{s.at + k : k \in ops[s.op]} : s \in slices}

-----------------------------------------------------------------------------
(* Delays and instruction data.                                            *)

\* A refusal that is answered like an address.
RefuseQuietly(code) ==
    [answer |-> IF code = -91 THEN 0 ELSE code, put |-> FALSE, word |-> {}, inst |-> "CONTINUE",
     data |-> 0, delay |-> 0]

Refuse(code) ==
    [answer |-> code, put |-> FALSE, word |-> {}, inst |-> "CONTINUE", data |-> 0, delay |-> 0]

\* A conversion to a wider integer.
RoundUintWide(x) == x

\* A double that does not fit is reduced by the conversion as x86 does it.
RoundUint(x) == x % DelayRange
RoundInt(x) == IF x < DelayRange \div 2 THEN x ELSE -(DelayRange \div 2)

\* length * clock - cycles, rounded; half cycles are rounded up.
Rounded(length, cycles) == (length - 2 * cycles + 1) \div 2

Counted(inst, n) ==
    IF inst = "LOOP" THEN n - 1 ELSE IF inst = "LONG_DELAY" THEN n - 2 ELSE n

\* A check that takes a long delay of one.
BadCountOnlyZero(inst, n) == inst \in {"LOOP", "LONG_DELAY"} /\ n = 0

\* The counts that the instruction functions refuse.
BadCount(inst, n) == (inst = "LOOP" /\ n = 0) \/ (inst = "LONG_DELAY" /\ n \in {0, 1})

EndsInFF(delay) == delay % Byte = Byte - 1 /\ delay > Byte - 1

\* Corrections that take the first xFF, and only the second.
FixFFAlways(delay) == IF ~has_FF_fix /\ delay % Byte = Byte - 1 THEN delay - 1 ELSE delay
FixFFOnce(delay) == IF ~has_FF_fix /\ delay = 2 * Byte - 1 THEN delay - 1 ELSE delay

\* The core counter of some boards fails on delays that end in FF.
FixFF(delay) == IF ~has_FF_fix /\ EndsInFF(delay) THEN delay - 1 ELSE delay

\* pb_inst_direct: a usb_method 2 board takes the low bits of everything.  The
\* others refuse what does not fit, but of the flags see the low 32 bits only,
\* and firmware 9-8 is sent 8 of them.
PbInstDirect(word, inst, data, delay) ==
    IF ~Board.usb2 /\ (\/ (word \cap (0 .. 31)) \ (0 .. Board.accepts - 1) # {}
                       \/ inst = "INVALID"
                       \/ data \notin 0 .. DataRange - 1)
    THEN Refuse(-1)
    ELSE [answer |-> 0,
          put    |-> TRUE,
          word   |-> word \cap (0 .. Board.keeps - 1) \cap (IF Board.usb2 THEN Bit ELSE 0 .. 31),
          inst   |-> inst,
          data   |-> data % DataRange,
          delay  |-> delay]

\* A reversal that loses flag 1.
ReversedHalf(word) == (word \ {0, 1}) \cup {1 - i : i \in word \cap {0}}

\* The firmware of SP16 has its flags 0 and 1 reversed.
Reversed(word) == {IF i = 0 THEN 1 ELSE IF i = 1 THEN 0 ELSE i : i \in word}

PbInstPbonly64(flags, inst, data, length) ==
    LET delay == RoundUint(Rounded(length, 3))
        ordered == IF Board.design = "sp16" THEN Reversed(flags \cap (0 .. 31)) ELSE flags
    IN  IF delay < 2 \/ length <= 6 THEN Refuse(-91)
        ELSE IF BadCount(inst, data) THEN Refuse(-1)
        ELSE PbInstDirect(ordered, inst, Counted(inst, data), FixFF(delay))

-----------------------------------------------------------------------------
(* The functions that pack a flag word.                                    *)

Supports == Board.design \in {"dds2", "dds2wide", "dds1"}
SecondBits(bits) == IF Board.second THEN bits ELSE 0

DdsInRange(o) ==
    /\ Within(o["freq"], Board.dfreq) /\ Within(o["freq1"], SecondBits(Board.dfreq))
    /\ Within(o["tx"], Board.dphase) /\ Within(o["tx1"], SecondBits(Board.dphase))
    /\ Within(o["amp"], Board.damp) /\ Within(o["amp1"], SecondBits(Board.damp))

\* Not supported is answered like success; the shape selects stay zero.
PbInstDds2(o, inst, data, length) ==
    LET delay == RoundUint(Rounded(length, 3))
        unshaped == {s \in Packing(Board.design) : s.op \notin {"shape", "shape1"}}
    IN  IF ~Supports THEN Refuse(0)
        ELSE IF ~DdsInRange(o) THEN Refuse(-1)
        ELSE IF delay < 2 \/ length <= 6 THEN Refuse(-91)
        ELSE IF BadCount(inst, data) THEN Refuse(-1)
        ELSE PbInstDirect(Pack(unshaped, o), inst, Counted(inst, data), delay)

PbInstDds2Shape(o, inst, data, length) ==
    LET delay == RoundInt(Rounded(length, 3))
    IN  IF ~Supports \/ ~DdsInRange(o) THEN Refuse(-1)
        ELSE IF delay < 2 THEN Refuse(-91)
        ELSE IF BadCount(inst, data) THEN Refuse(-1)
        ELSE PbInstDirect(Pack(Packing(Board.design), o), inst, Counted(inst, data), delay)

\* pb_inst_rpg writes four words to the board itself.  Its data is unsigned.
PbInstRpg(o, inst, data, length) ==
    LET low == [o EXCEPT !["flags"] = @ \cap (0 .. 3)]
        sign == IF 27 \in o["amp"] THEN 32 .. 63 ELSE {}
    IN  IF BadCount(inst, data) THEN Refuse(-1)
        ELSE [answer |-> 0, put |-> TRUE, inst |-> inst,
              word |-> (Shift(Packing("rpg"), low) \cap (0 .. 31)) \cup sign,
              data |-> Counted(inst, data) % DataRange,
              delay |-> RoundUint(Rounded(length, 3))]

\* Cyclops bits of an instruction that does not name them.
NoCyclops(o) == [o EXCEPT !["real"] = {0}, !["imag"] = {0}, !["swap"] = {}]

\* What both shape functions refuse.  They leave the other selects unchecked.
ShapeRefused(o) ==
    ~Board.shape \/ (Board.noacq /\ o["trig"] = {0}) \/ ~Within(o["amp"], Board.amp)

PbInstRadioShape(o, inst, data, length) ==
    LET all == NoCyclops(o)
        first == [all EXCEPT !["freq1"] = {}, !["tx1"] = {}, !["amp1"] = {}]
    IN  IF Board.design = "dds1" THEN PbInstDds2Shape(first, inst, data, length)
        ELSE IF Board.design = "rpg" THEN PbInstRpg(all, inst, data, length)
        ELSE IF ShapeRefused(o) THEN Refuse(-1)
        ELSE PbInstPbonly64(Pack(Packing(Board.design), all), inst, data, length)

PbInstRadioShapeCyclops(o, inst, data, length) ==
    IF ShapeRefused(o) \/ ~Board.cyclops THEN Refuse(-1)
    ELSE IF Board.design = "rpg" THEN PbInstRpg(o, inst, data, length)
    ELSE PbInstPbonly64(Pack(Packing(Board.design), o), inst, data, length)

\* Shape 7 is no shape, and amplitude 0 is the full one.
Unshaped(o) == [o EXCEPT !["shape"] = {0, 1, 2}, !["shape1"] = {0, 1, 2}, !["amp"] = {}]

PbInstRadio(o, inst, data, length) ==
    LET first == [o EXCEPT !["amp"] = {}, !["freq1"] = {}, !["tx1"] = {}, !["amp1"] = {}]
    IN  IF Board.design = "dds1" THEN PbInstDds2(first, inst, data, length)
        ELSE IF \/ ~Within(o["freq"], Board.freq)
                \/ ~Within(o["tx"], Board.tx)
                \/ ~Board.noacq /\ ~(Within(o["cos"], Board.cos) /\ Within(o["sin"], Board.sin))
             THEN Refuse(-1)
        ELSE IF Board.shape THEN PbInstRadioShape(Unshaped(o), inst, data, length)
        ELSE PbInstPbonly64(Pack(RadioSlices, o), inst, data, length)

\* Two output channels; the enable bits are low when the output is on.  Its
\* error codes (-99, -98, -96) are not told apart from -1.
PbInstTworf(o, inst, data, length) ==
    LET low(f) == IF o[f] = {} THEN {0} ELSE {}
        all == [o EXCEPT !["txen"] = low("txen"), !["rxen"] = low("rxen"),
                         !["flags"] = @ \cap (0 .. 23)]
    IN  IF \/ ~Within(o["freq"], Board.freq)
           \/ ~Within(o["tx"], Board.tx)
           \/ ~Within(o["rx"], Board.tx)
        THEN Refuse(-1)
        ELSE PbInstPbonly64(Shift(RfSlices, all) \cap (0 .. 31), inst, data, length)

Zero == [f \in Field |-> {}]

\* Firmware 17-5 to 17-7: one flag, one opcode bit and a delay of two bits less.
Pb4CInst(o, length) ==
    LET delay == RoundUint(Rounded(length, 1))
    IN  IF Board.design # "4C"
        THEN PbInstPbonly64(o["flags"], "CONTINUE", 0, length)
        ELSE IF delay > DelayRange \div 4 - 1 \/ delay < 2 THEN Refuse(-91)
        ELSE [answer |-> 0, put |-> TRUE, word |-> o["flags"] \cap {0}, inst |-> "CONTINUE",
              data |-> 0, delay |-> delay]

\* The same with the opcode bit; the length is a time, on any clock.
Pb4CStop(length) ==
    IF Board.design # "4C"
    THEN PbInstPbonly64({}, "STOP", 0, length)
    ELSE LET inst == Pb4CInst(Zero, length)
         IN  IF inst.put THEN [inst EXCEPT !.inst = "STOP"] ELSE inst

-----------------------------------------------------------------------------
(* One call at a time; of what came before only pb_bypass_FF_fix matters.   *)

NoCall == [fn |-> "none", ops |-> Zero, flags |-> {}, t |-> Usual]

Result(fn, o, flags, t) ==
    CASE fn = "pb_inst_pbonly64" -> PbInstPbonly64(flags, t.inst, t.data, t.length)
      [] fn = "pb_inst_tworf" -> PbInstTworf(o, t.inst, t.data, t.length)
      [] fn = "pb_inst_radio" -> PbInstRadio(o, t.inst, t.data, t.length)
      [] fn = "pb_inst_radio_shape" -> PbInstRadioShape(o, t.inst, t.data, t.length)
      [] fn = "pb_inst_radio_shape_cyclops" ->
            PbInstRadioShapeCyclops(o, t.inst, t.data, t.length)
      [] fn = "pb_inst_dds2" -> PbInstDds2(o, t.inst, t.data, t.length)
      [] fn = "pb_inst_dds2_shape" -> PbInstDds2Shape(o, t.inst, t.data, t.length)
      [] fn = "pb_4C_inst" -> Pb4CInst(o, t.length)
      [] fn = "pb_4C_stop" -> Pb4CStop(t.length)

Packers == {"pb_inst_tworf", "pb_inst_radio", "pb_inst_radio_shape",
            "pb_inst_radio_shape_cyclops", "pb_inst_dds2", "pb_inst_dds2_shape"}

Perform(fn, o, flags, t) ==
    /\ call' = [fn |-> fn, ops |-> o, flags |-> flags, t |-> t]
    /\ sent' = Result(fn, o, flags, t)
    /\ UNCHANGED <<board, has_FF_fix>>

\* The RPG knows one shape and none.
PackedInst ==
    /\ call = NoCall
    /\ \E fn \in Packers, o \in Operands, t \in Timings :
        /\ o = Zero \/ t = Usual
        /\ Board.design = "rpg" => o["shape"] \in {{}, {0, 1, 2}}
        /\ Perform(fn, o, {}, t)

PlainInst ==
    /\ call = NoCall
    /\ \E flags \in FlagWords, t \in Timings :
        /\ flags = {} \/ t = Usual
        /\ \/ Perform("pb_inst_pbonly64", Zero, flags, t)
           \/ /\ t.inst = "CONTINUE" /\ t.data = 0
              /\ flags \subseteq 0 .. 31
              /\ Perform("pb_4C_inst", [Zero EXCEPT !["flags"] = flags], {}, t)
           \/ /\ flags = {} /\ t.inst = "STOP"
              /\ Perform("pb_4C_stop", Zero, {}, t)

PbBypassFFFix ==
    /\ call = NoCall
    /\ has_FF_fix' \in BOOLEAN
    /\ UNCHANGED <<board, call, sent>>

Return ==
    /\ call # NoCall
    /\ call' = NoCall
    /\ sent' = Refuse(0)
    /\ UNCHANGED <<board, has_FF_fix>>

Init == board \in Boards /\ has_FF_fix = Board.ff /\ call = NoCall /\ sent = Refuse(0)
Next == PackedInst \/ PlainInst \/ PbBypassFFFix \/ Return
Spec == Init /\ [][Next]_vars

-----------------------------------------------------------------------------
(* Properties.                                                             *)

TypeOK ==
    /\ board \in Boards
    /\ sent.answer \in {0, -1, -91}
    /\ sent.word \subseteq Bit
    /\ sent.data \in 0 .. DataRange - 1
    /\ sent.delay \in 0 .. DelayRange - 1

\* The partition of the board's word; firmware 10-19 has a third bit for the
\* TX phase.
Hardware == IF Board.design = "pbdds19" THEN PbddsSlices("pbdds19", 3) ELSE Packing(Board.design)

\* What the operands of a call stand for.
Meant ==
    CASE call.fn = "pb_inst_radio" -> NoCyclops(Unshaped(call.ops))
      [] call.fn = "pb_inst_radio_shape" -> NoCyclops(call.ops)
      [] call.fn = "pb_inst_dds2" ->
            [call.ops EXCEPT !["shape"] = {0, 1, 2}, !["shape1"] = {0, 1, 2}]
      [] call.fn = "pb_inst_tworf" ->
            [call.ops EXCEPT !["txen"] = {0} \ @, !["rxen"] = {0} \ @]
      [] OTHER -> call.ops

Place(op, slices) == UNION {s.from .. s.from + s.width - 1 : s \in {t \in slices : t.op = op}}
Packed(op) == Place(op, Packing(Board.design))
Limits == [freq |-> Board.freq, cos |-> Board.cos, sin |-> Board.sin, tx |-> Board.tx,
           amp |-> Board.amp]

\* The board has more registers than the bits packed into its word can select.
Narrow ==
    /\ ~Board.usb2
    /\ \E op \in DOMAIN Limits : Packed(op) # {} /\ Limits[op] > Cardinality(Packed(op))

\* A select that pb_inst_radio would have refused.
Unchecked ==
    /\ call.fn \in {"pb_inst_radio_shape", "pb_inst_radio_shape_cyclops"}
    /\ ~Board.usb2
    /\ \E op \in DOMAIN Limits : Packed(op) # {} /\ ~Within(call.ops[op], Limits[op])

\* The limits of these boards are estimates ("est", caps.c), and their flags run
\* into the other selects: nothing stops an operand that does not fit its place.
Overrun ==
    board = "amcc" /\ \E op \in {"freq", "tx", "rx", "flags"} :
        ~(call.ops[op] \subseteq Packed(op))

\* A function for boards with another partition, which is not refused.
WrongCall == (call.fn = "pb_inst_tworf") # (Board.design = "rf")

Excused ==
    \/ "narrow" \in Voids /\ Narrow /\ board # "amcc"
    \/ "estimated" \in Voids /\ Overrun
    \/ "unchecked" \in Voids /\ Unchecked
    \/ "wrong_call" \in Voids /\ WrongCall

\* pb_inst_dds2 has no shapes, and leaves their selects at that of the first one.
Unselected(op) ==
    /\ "unshaped" \in Voids /\ Board.usb2
    /\ call.fn \in {"pb_inst_dds2", "pb_inst_radio"} /\ op \in {"shape", "shape1"}

\* "// 3 bit" (if.c), "Selects which frequency register to use" and the like
\* (radioprocessor.h, dds.h): an instruction that was not refused selects the
\* registers it names and no others: each bit of each operand is in the word at
\* its place, no operand has a bit that has no place, and no two share one.
\* (Of the flags, each board takes as many as it has.)
OperandsCarried ==
    (call.fn \in Packers /\ sent.put /\ ~Excused) =>
        \A s \in Hardware :
            \/ Board.noacq /\ s.op \in {"cos", "sin", "trig"}
            \/ Unselected(s.op)
            \/ /\ \A k \in 0 .. s.width - 1 :
                      (s.at + k \in sent.word) <=> (s.from + k \in Meant[s.op])
               /\ s.op # "flags" => Meant[s.op] \subseteq Place(s.op, Hardware)

\* pb_inst_pbonly64 sets the outputs it was asked to set.
Output(i) == IF Board.design = "sp16" /\ i \in {0, 1} THEN 1 - i ELSE i

LostFlags ==
    "narrow" \in Voids /\ (Board.keeps = 8 \/ (~Board.usb2 /\ call.flags \ (0 .. 31) # {}))

FlagsCarried ==
    (call.fn = "pb_inst_pbonly64" /\ sent.put /\ ~LostFlags) =>
        {Output(i) : i \in sent.word} = call.flags

\* The board waits as long as it was asked to, or one cycle less where its core
\* counter could not count to the delay; "make sure delay was not made based on
\* a negative number" (spinapi.c).  Lengths beyond the counter are not refused,
\* and by pb_inst_rpg neither are those that are too short.
ForCore == ~(call.fn \in {"pb_4C_inst", "pb_4C_stop"} /\ Board.design = "4C")
Cycles == Rounded(call.t.length, IF ForCore THEN 3 ELSE 1)

DelayHonest ==
    sent.put =>
        \/ sent.delay = Cycles
        \/ ~has_FF_fix /\ EndsInFF(Cycles) /\ sent.delay = Cycles - 1
        \/ "length" \in Voids /\ Cycles \notin 0 .. DelayRange - 1

\* "An extra clock cycle must be subtracted from all instructions that result
\* in a value ending in 0xFF being sent to the core counter" (spinapi.c), unless
\* the board's counter is right or pb_bypass_FF_fix has said so.
CounterSafe ==
    (/\ sent.put /\ ForCore /\ ~Board.ff /\ ~has_FF_fix
     /\ ~("rpg_counter" \in Voids /\ Board.design = "rpg")) =>
        ~EndsInFF(sent.delay)

\* "Number of desired loops", "Number of desired repetitions" (dds.h): the
\* board, which counts to one more and to two more than it is sent, repeats as
\* often as was asked.  Numbers its counter cannot hold are not always refused.
Least == CASE call.t.inst = "LOOP" -> 1 [] call.t.inst = "LONG_DELAY" -> 2 [] OTHER -> 0

CountHonest ==
    (sent.put /\ call.fn \notin {"pb_4C_inst", "pb_4C_stop"}) =>
        \/ sent.data + Least = call.t.data
        \/ "data" \in Voids /\ call.t.data \notin 0 .. Least + DataRange - 1

\* "The address of the created instruction is returned" (dds.h): what is
\* answered as an address was sent.
AnsweredIsSent ==
    call # NoCall =>
        \/ sent.put <=> sent.answer >= 0
        \/ "unsupported" \in Voids /\ call.fn = "pb_inst_dds2" /\ ~Supports

=============================================================================

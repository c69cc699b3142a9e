--------------------------------- MODULE RadioRegs ---------------------------------
(***************************************************************************)
(* Configuring RadioProcessors (if.c).  Most settings of a board share a   *)
(* register with others, so a call reads it, changes bits and writes it    *)
(* back.  "pci" boards are accessed through two extended ports and "rpg"   *)
(* boards directly, which we take to work; "usb" boards through transfers  *)
(* that may fail unseen: reg_write has no result, and reg_read returns     *)
(* what happened to be in its variable.                                    *)
(***************************************************************************)
EXTENDS Integers

CONSTANTS
    Board,
    Kinds,         \* what the boards may be, a set of functions on Board
    First,         \* board[0]
    Decimation,    \* what is asked of the CIC filter
    Voids,         \* the hazards after which nothing is promised
    Unknown,       \* a setting nothing is promised about
    MaxCalls       \* bound: the calls of a behaviour

\* The CIC filter decimates by up to 64K - 1 ("narrow"), or by up to 1M - 1 with
\* ("wide") or without ("cut") the firmware being one that pb_setup_cic writes
\* the high bits for.
Kind == {k \in [family : {"pci", "usb", "rpg"}, cic : {"narrow", "wide", "cut"}] :
            k.family = "rpg" => k.cic = "narrow"}

ASSUME RadioAssumption ==
    /\ Kinds \subseteq [Board -> Kind]
    /\ First \in Board
    /\ Decimation \subseteq Nat
    /\ MaxCalls \in Nat
    /\ Voids \subseteq {"lost", "amp", "memory", "direct", "ored", "shared", "first", "partial",
                       "cut"}

\* Bits of REG_CONTROL.  The first two are documented for pb_set_radio_control,
\* the third is 0x8000 with BYPASS_CIC and BYPASS_MULT; pb_set_amp has a use of
\* its own for FORCE_AVG (0x10) and NARROW_BW (0x08).
Flag == {"BYPASS_FIR", "FORCE_AVG", "RAM_DIRECT"}
Control == Flag \cup {"NARROW_BW", "PCI_READ", "OVERFLOW_RESET"}

\* What the callers pass, RAM_DIRECT of radioprocessor.h among it.
BypassFir == {"BYPASS_FIR"}
RamDirect == {"RAM_DIRECT", "BYPASS_FIR"}
Directive == {BypassFir, {"FORCE_AVG"}, RamDirect}

Counter == {"overflow", "scan", "segment"}

\* Bits of a number, as many as tell numbers apart; bit 6 of an offset has the
\* place of OVERFLOW_RESET in misc_1 of an rpg board.
Bits == {"bit0", "bit1"}
OffsetBits == {"bit0", "OVERFLOW_RESET"}
FirDecimation == {1, 8}

\* Half a register.
Half == 64 * 1024

VARIABLES
    kind,          \* of each board
    cur_board,
    regs,          \* the registers of each board
    counting,      \* of each board: its counters that are not zero
    asked,         \* of each board: what its settings should be
    zeroed,        \* of each board: its counters that should be zero
    calls          \* how many there were

vars == <<kind, cur_board, regs, counting, asked, zeroed, calls>>

Cur == kind[cur_board].family
CicSize == kind[cur_board].cic

-----------------------------------------------------------------------------
(* Registers.  A call is a chain of accesses; T is the set of what may have *)
(* become of the board so far: its registers, the counters that were reset, *)
(* and whether an access was lost.                                          *)

Before == {[r |-> regs[cur_board], reset |-> {}, lost |-> FALSE]}

Lossy == Cur = "usb"
Lost(T) == IF Lossy THEN {[t EXCEPT !.lost = TRUE] : t \in T} ELSE {}

Write(T, reg, value) == {[t EXCEPT !.r[reg] = value] : t \in T} \cup Lost(T)

\* reg_read: the value, or what happens to be in ret.
Reads(t, reg, junk) ==
    {[t |-> t, v |-> t.r[reg]]}
    \cup IF Lossy THEN {[t |-> [t EXCEPT !.lost = TRUE], v |-> x] : x \in junk} ELSE {}

\* Read, change and write back: bits on and bits off.
Change(T, reg, on, off) ==
    UNION {UNION {Write({o.t}, reg, (o.v \cup on) \ off) : o \in Reads(t, reg, {{}, Control})} :
              t \in T}

\* A counter is zero once its reset bit was written.
Zero(T, c) == {IF t.lost THEN t ELSE [t EXCEPT !.reset = @ \cup {c}] : t \in T}

-----------------------------------------------------------------------------
(* The settings of the selected board, as its user understands them.  What *)
(* a hazard of Voids does to them is what its user has to know of.         *)

Nothing == [flags |-> Unknown, segments |-> Unknown, offset |-> Unknown, decimation |-> Unknown]

Asked == asked[cur_board]
With(field, value) == [Asked EXCEPT ![field] = value]
FlagsWith(on, off) ==
    [Asked EXCEPT !.flags = IF @ = Unknown THEN @ ELSE (@ \cup on) \ off,
                  !.decimation = IF "BYPASS_FIR" \in on \cup off THEN Unknown ELSE @]

\* A call ends in one of T; wants are the settings it leaves, done the counters
\* that it says are zero.
Ends(T, wants, done) ==
    /\ \E t \in T :
        LET voided == t.lost /\ "lost" \in Voids
        IN  /\ regs' = [regs EXCEPT ![cur_board] = t.r]
            /\ counting' = [counting EXCEPT ![cur_board] = @ \ t.reset]
            /\ asked' = [asked EXCEPT ![cur_board] = IF voided THEN Nothing ELSE wants]
            /\ zeroed' = [zeroed EXCEPT ![cur_board] = IF voided THEN {} ELSE @ \cup done]
    /\ UNCHANGED <<kind, cur_board>>

Refused == UNCHANGED <<kind, cur_board, regs, counting, asked, zeroed>>

-----------------------------------------------------------------------------
(* Control bits.                                                           *)

\* The bits are set, and all others cleared.
Overwritten(T, on) == Write(T, "control", on)

SetControl(T, on) == Change(T, "control", on, {})
UnsetControl(T, off) == Change(T, "control", {}, off)

\* An rpg board knows BYPASS_FIR only, in fir_2.  For RAM_DIRECT it has a case
\* that does nothing, and answers 0.
Settable(control) == Cur = "rpg" => control = BypassFir
Ignored(control) == Cur = "rpg" /\ control = RamDirect

IgnoredWants(wants) == IF "direct" \in Voids THEN Asked ELSE wants

PbSetRadioControl ==
    \E control \in Directive :
        \/ Settable(control) /\ Ends(SetControl(Before, control), FlagsWith(control, {}), {})
        \/ Ignored(control) /\ Ends(Before, IgnoredWants(FlagsWith(control, {})), {})
        \/ ~Settable(control) /\ ~Ignored(control) /\ Refused

PbUnsetRadioControl ==
    \E control \in Directive :
        \/ Settable(control) /\ Ends(UnsetControl(Before, control), FlagsWith({}, control), {})
        \/ Ignored(control) /\ Ends(Before, IgnoredWants(FlagsWith({}, control)), {})
        \/ ~Settable(control) /\ ~Ignored(control) /\ Refused

\* An amplitude is put in its register with two bits of REG_CONTROL; an rpg
\* board has registers for it.
Amplitude(T) ==
    IF Cur = "rpg" THEN T
    ELSE UnsetControl(UnsetControl(SetControl(SetControl(T, {"FORCE_AVG"}), {"NARROW_BW"}),
                                   {"NARROW_BW"}), {"FORCE_AVG"})

PbSetAmp ==
    \/ Ends(Amplitude(Before),
            IF Cur # "rpg" /\ "amp" \in Voids THEN FlagsWith({}, {"FORCE_AVG"}) ELSE Asked, {})
    \/ Refused

\* pb_get_data, and pb_get_data_direct of a usb board: PCI_READ is on while the
\* data are read; without memory for them it stays on.
PbGetData ==
    \/ /\ Cur = "usb"
       /\ \/ Ends(UnsetControl(SetControl(Before, {"PCI_READ"}), {"PCI_READ"}),
                  FlagsWith({}, {"PCI_READ"}), {})
          \/ Ends(SetControl(Before, {"PCI_READ"}),
                  IF "memory" \in Voids THEN FlagsWith({"PCI_READ"}, {}) ELSE Asked, {})
    \/ /\ Cur = "pci"
       /\ Ends(UNION {Write(Write({o.t}, "control", o.v \cup {"PCI_READ"}), "control", o.v) :
                         o \in Reads(CHOOSE t \in Before : TRUE, "control", {})}, Asked, {})
    \/ Refused

-----------------------------------------------------------------------------
(* Counters and the registers that they share.                             *)

\* pb_overflow: the register is read once and written twice.
ControlPulse(T) ==
    UNION {UNION {Write(Zero(Write({o.t}, "control", o.v \cup {"OVERFLOW_RESET"}), "overflow"),
                        "control", o.v) : o \in Reads(t, "control", {{}, Control})} : t \in T}

\* The offset is not written back.
MiscPulseAlone(T) ==
    Write(Zero(Write(T, "offset", {"OVERFLOW_RESET"}), "overflow"), "offset", {})

\* On an rpg board it is misc_1, at the address that board[0] has for it: 0 if
\* that is not an rpg board, which is none of the registers here.
MiscPulse(T) ==
    IF kind[First].family # "rpg" THEN T
    ELSE Zero(Change(Change(T, "offset", {"OVERFLOW_RESET"}, {}),
                     "offset", {}, {"OVERFLOW_RESET"}), "overflow")

OverflowReset(T) == IF Cur = "rpg" THEN MiscPulse(T) ELSE ControlPulse(T)

\* An offset that has the bit loses it.
PbOverflow ==
    \/ Ends(OverflowReset(Before),
            IF "shared" \in Voids /\ Cur = "rpg" /\ Asked.offset # Unknown
            THEN IF "OVERFLOW_RESET" \in Asked.offset THEN With("offset", Unknown) ELSE Asked
            ELSE Asked,
            IF "first" \in Voids /\ Cur = "rpg" /\ kind[First].family # "rpg" THEN {} ELSE {"overflow"})
    \/ Refused

\* The segments are not written back.
CountResetAlone(T) ==
    Write(Zero(Write(T, "segments", {"COUNT_RESET"}), "scan"), "segments", {})

\* On an rpg board a bit of acq_1, where the segments are.
CountReset(T) ==
    IF Cur = "rpg"
    THEN Change(Zero(Change(T, "segments", {"COUNT_RESET"}, {}), "scan"),
                "segments", {}, {"COUNT_RESET"})
    ELSE Zero(T \cup Lost(T), "scan")

PbScanCount == Ends(CountReset(Before), Asked, {"scan"}) \/ Refused

\* The reset bit is left on.
SegmentsHeld(T, bits) == Zero(Change(T, "segments", {"SEGMENT_RESET"} \cup bits, {}), "segment")

\* The counter is not reset.
SegmentsUnpulsed(T, bits) == Write(T, "segments", bits)

\* num_segments - 1; an rpg board gets it in addition to what it has.
Segments(T, bits) ==
    IF Cur = "rpg"
    THEN Change(Change(Zero(Change(T, "segments", {"SEGMENT_RESET"}, {}), "segment"),
                       "segments", {}, {"SEGMENT_RESET"}), "segments", bits, {})
    ELSE Write(Zero(Write(T, "segments", {"SEGMENT_RESET"} \cup bits), "segment"),
               "segments", bits)

SegmentsAsked(bits) ==
    IF "ored" \in Voids /\ Cur = "rpg" /\ ~(regs[cur_board].segments \subseteq bits)
    THEN Unknown ELSE bits

PbSetScanSegments ==
    \/ \E bits \in SUBSET Bits :
        Ends(Segments(Before, bits), With("segments", SegmentsAsked(bits)), {"segment"})
    \/ Refused

\* pb_adc_zero: an amount for an rpg board, which is added to what misc_1 has,
\* and on or off for the others (REG_ADC_CONTROL, by two writes).
Offset(T, bits) ==
    IF Cur = "rpg"
    THEN LET after == Change(T, "offset", bits, {})
         IN  IF "OVERFLOW_RESET" \in bits THEN Zero(after, "overflow") ELSE after
    ELSE Write(T, "offset", bits)

PbAdcZero ==
    \E bits \in IF Cur = "rpg" THEN SUBSET OffsetBits ELSE {{}, {"bit0"}} :
        Ends(Offset(Before, bits),
             With("offset", IF "ored" \in Voids /\ Cur = "rpg"
                               /\ ~(regs[cur_board].offset \subseteq bits)
                            THEN Unknown ELSE bits), {})

-----------------------------------------------------------------------------
(* Filters.                                                                *)

CicMax == IF CicSize = "narrow" THEN Half - 1 ELSE 16 * Half - 1
InRange(d) == 8 <= d /\ d <= CicMax

\* dec_amount - 1 in the high half of REG_CIC_CONTROL, and what that cuts off.
Low(d) == (d - 1) % Half
High(d) == (d - 1) \div Half

\* The second register is written if there is anything to put in it.
HighIfAny(T, d) ==
    LET low == Write(T, "cic", Low(d))
    IN  IF CicSize = "wide" /\ High(d) # 0 THEN Write(low, "cic2", High(d)) ELSE low

\* The second register is written by a transfer of its own, for some firmwares.
\* (An rpg board has one register of 20 bits; what it takes is within 16.)
Cic(T, d) ==
    LET low == Write(T, "cic", Low(d))
    IN  IF CicSize = "wide" THEN Write(low, "cic2", High(d)) ELSE low

PbSetupCic ==
    \/ \E d \in Decimation :
        InRange(d) /\ Ends(Cic(Before, d), With("decimation", Unknown), {})
    \/ Refused

PbSetupFir ==
    \/ /\ Cur # "rpg"
       /\ \E d \in FirDecimation :
            Ends(Write(Before, "fir", d), With("decimation", Unknown), {})
    \/ Refused

\* pb_setup_filters: the FIR filter is switched, then the CIC filter set up,
\* and then the FIR filter if it is used.
Bypass(T, bypass) ==
    IF bypass THEN SetControl(T, {"BYPASS_FIR"}) ELSE UnsetControl(T, {"BYPASS_FIR"})

Filters(T, bypass, d) ==
    LET cic == Cic(Bypass(T, bypass), d)
    IN  IF bypass THEN cic ELSE Write(cic, "fir", 8)

\* The decimation is what it answers, for a caller who has not had the filters
\* bypassed by RAM_DIRECT.
Answered(flags, d, fir) ==
    IF \/ flags = Unknown \/ "RAM_DIRECT" \in flags
       \/ "cut" \in Voids /\ CicSize = "cut" /\ High(d) # 0
    THEN Unknown ELSE <<d, fir>>

\* It fails if the rounding is out of the CIC filter's range.
PbSetupFilters ==
    \E bypass \in IF Cur = "rpg" THEN {TRUE} ELSE BOOLEAN :
        LET on == IF bypass THEN BypassFir ELSE {}
            wants == FlagsWith(on, BypassFir \ on)
        IN  \/ \E d \in Decimation :
                /\ InRange(d)
                /\ Ends(Filters(Before, bypass, d),
                        [wants EXCEPT !.decimation =
                            Answered(wants.flags, d, IF bypass THEN 1 ELSE 8)], {})
            \/ Ends(Bypass(Before, bypass),
                    IF "partial" \in Voids THEN wants ELSE Asked, {})

-----------------------------------------------------------------------------
(* All of them.                                                            *)

PbSelectBoard ==
    /\ cur_board' \in Board
    /\ UNCHANGED <<kind, regs, counting, asked, zeroed>>

\* pb_set_defaults: the control bits and the segments, and for an rpg board
\* the counters and misc_1.
Defaults ==
    LET misc == Write(OverflowReset(CountReset(Before)), "offset", {})
    IN  IF Cur = "rpg" THEN Segments(misc, {})
        ELSE Amplitude(Segments(Write(Before, "control", {}), {}))

PbSetDefaults ==
    Ends(Defaults,
         [Asked EXCEPT !.flags = IF Cur = "rpg" THEN @ ELSE {},
                       !.segments = SegmentsAsked({}),
                       !.offset = IF Cur = "rpg" THEN {} ELSE Unknown,
                       !.decimation = IF Cur = "rpg" THEN @ ELSE Unknown],
         IF Cur = "rpg" THEN {"scan", "segment"} ELSE {"segment"})

\* A board at work: its counters move.
Counts ==
    /\ \E b \in Board :
        /\ counting' = [counting EXCEPT ![b] = Counter]
        /\ zeroed' = [zeroed EXCEPT ![b] = {}]
    /\ UNCHANGED <<kind, cur_board, regs, asked>>

Init ==
    /\ kind \in Kinds
    /\ cur_board \in Board
    /\ regs = [b \in Board |->
                   [control |-> {}, segments |-> {}, offset |-> {}, cic |-> 0, cic2 |-> 0, fir |-> 8]]
    /\ counting = [b \in Board |-> {}] /\ zeroed = [b \in Board |-> {}]
    /\ asked = [b \in Board |-> [flags |-> {}, segments |-> {}, offset |-> {},
                                 decimation |-> Unknown]]
    /\ calls = 0

Call ==
    \/ PbSelectBoard
    \/ PbSetRadioControl \/ PbUnsetRadioControl \/ PbSetAmp \/ PbGetData
    \/ PbOverflow \/ PbScanCount \/ PbSetScanSegments \/ PbAdcZero
    \/ PbSetupCic \/ PbSetupFir \/ PbSetupFilters
    \/ PbSetDefaults

Next ==
    \/ calls < MaxCalls /\ calls' = calls + 1 /\ Call
    \/ UNCHANGED calls /\ Counts

Spec == Init /\ [][Next]_vars

-----------------------------------------------------------------------------
(* Properties.                                                             *)

\* No reset bit is left on by a call, which would hold its counter at zero.
TypeOK ==
    \A b \in Board :
        /\ regs[b].control \subseteq Control
        /\ regs[b].segments \subseteq Bits \cup {"SEGMENT_RESET", "COUNT_RESET"}
        /\ asked[b].segments # Unknown => regs[b].segments \subseteq Bits
        /\ regs[b].offset \subseteq OffsetBits
        /\ regs[b].cic \in 0 .. Half - 1 /\ regs[b].cic2 \in 0 .. 15 /\ regs[b].fir \in FirDecimation
        /\ zeroed[b] \subseteq Counter /\ counting[b] \subseteq Counter

\* The control bits of a board are the ones that were set and not unset since,
\* by pb_set_radio_control and pb_setup_filters, whatever calls that borrow
\* bits of the register came in between (if.c).
FlagsAsAsked ==
    \A b \in Board : asked[b].flags # Unknown => regs[b].control = asked[b].flags

\* "Set the number of data segments to be acquired" (radioprocessor.h): the
\* last number that was set is the one the board has.
SegmentsAsAsked ==
    \A b \in Board : asked[b].segments # Unknown => regs[b].segments = asked[b].segments

\* The same of the DC offset of pb_adc_zero, which shares misc_1.
OffsetAsAsked ==
    \A b \in Board : asked[b].offset # Unknown => regs[b].offset = asked[b].offset

\* What a board decimates by: the CIC filter, of which only a "wide" one has its
\* high bits from anybody, and the FIR filter.
Decimates(b) ==
    IF "RAM_DIRECT" \in regs[b].control THEN <<1, 1>>
    ELSE <<1 + regs[b].cic + IF kind[b].cic = "wide" THEN Half * regs[b].cic2 ELSE 0,
           IF "BYPASS_FIR" \in regs[b].control THEN 1 ELSE regs[b].fir>>

\* "The overall decimation factor used is returned on success"
\* (radioprocessor.h): it is what the two registers of the CIC filter and that
\* of the FIR filter say, until a filter is changed by name.
DecimationAsAnswered ==
    \A b \in Board : asked[b].decimation # Unknown => Decimates(b) = asked[b].decimation

\* A counter that was reset is zero until the board counts again.
ZeroedAreZero == \A b \in Board : zeroed[b] \cap counting[b] = {}

=============================================================================

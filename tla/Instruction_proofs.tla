--------------------------- MODULE Instruction_proofs ---------------------------
(***************************************************************************)
(* What the instruction functions send, for any operands, flags, opcodes,  *)
(* data and lengths and any width of the board's words.  A call is one     *)
(* step, so the inductive invariant only says that what was sent is the    *)
(* result of the call; the lemmas are about the functions, from            *)
(* pb_inst_direct up to those that call others, and about the partitions   *)
(* of the flag word, one for each design of boards.                        *)
(***************************************************************************)
EXTENDS Instruction, FiniteSetTheorems, TLAPS

Functions == Packers \cup {"pb_inst_pbonly64", "pb_4C_inst", "pb_4C_stop"}
Timing == [inst : Inst, data : Int, length : Int]

-----------------------------------------------------------------------------
(* The capabilities, as far as the proofs need them.                       *)

Facts(c) ==
    /\ c.accepts \in Nat /\ c.keeps \in Nat
    /\ c.accepts <= c.keeps \/ c.keeps = 8
    /\ c.usb2 => c.keeps = 96 /\ c.design # "sp16"
    /\ c.ff \in BOOLEAN
    /\ c.design \in {"dds2", "dds2wide", "dds1"} => c.ff

LEMMA CapsFacts == \A b \in DOMAIN Caps : Facts(Caps[b])
<1>1. Facts(Plain)
  BY DEF Facts, Plain
<1>2. Facts(Radio)
  BY DEF Facts, Plain, Radio
<1>3. Facts(Shaped)
  BY DEF Facts, Plain, Radio, Shaped
<1>4. Facts(NoAcq)
  BY DEF Facts, Plain, Radio, Shaped, NoAcq
<1>5. Facts(Cyclops)
  BY DEF Facts, Plain, Radio, Shaped, Cyclops
<1>6. Facts(Usb2)
  BY DEF Facts, Plain, Usb2
<1>7. Facts(Dds2)
  BY DEF Facts, Plain, Usb2, Dds2
<1>8. Facts(Caps.amcc)
  <2>1. Caps.amcc = [Plain EXCEPT !.design = "rf", !.freq = 6, !.cos = 6, !.sin = 6, !.tx = 6]
    BY DEF Caps
  <2>. QED
    BY <2>1 DEF Facts, Plain
<1>9. Facts(Caps.esr)
  BY <1>1 DEF Caps
<1>10. Facts(Caps.esr908)
  <2>1. Caps.esr908 = [Plain EXCEPT !.keeps = 8, !.ff = TRUE]
    BY DEF Caps
  <2>. QED
    BY <2>1 DEF Facts, Plain
<1>11. Facts(Caps.core4)
  <2>1. Caps.core4 = [Plain EXCEPT !.design = "4C"]
    BY DEF Caps
  <2>. QED
    BY <2>1 DEF Facts, Plain
<1>12. Facts(Caps.pcie)
  <2>1. Caps.pcie = [Plain EXCEPT !.ff = TRUE]
    BY DEF Caps
  <2>. QED
    BY <2>1 DEF Facts, Plain
<1>13. Facts(Caps.sp16)
  <2>1. Caps.sp16 = [Plain EXCEPT !.design = "sp16"]
    BY DEF Caps
  <2>. QED
    BY <2>1 DEF Facts, Plain
<1>14. Facts(Caps.rp10_4)
  BY <1>2 DEF Caps
<1>15. Facts(Caps.rp10_8)
  BY <1>3 DEF Caps
<1>16. Facts(Caps.rp10_10)
  <2>1. Caps.rp10_10 = [Shaped EXCEPT !.design = "topspin", !.freq = 2, !.tx = 1, !.ff = TRUE]
    BY DEF Caps
  <2>. QED
    BY <2>1 DEF Facts, Shaped, Radio, Plain
<1>17. Facts(Caps.rp12_6)
  <2>1. Caps.rp12_6 = [Shaped EXCEPT !.design = "progression", !.freq = 2, !.tx = 2,
                              !.ff = TRUE]
    BY DEF Caps
  <2>. QED
    BY <2>1 DEF Facts, Shaped, Radio, Plain
<1>18. Facts(Caps.rp10_15)
  <2>1. Caps.rp10_15 = [NoAcq EXCEPT !.design = "pbdds15"]
    BY DEF Caps
  <2>. QED
    BY <2>1 DEF Facts, NoAcq, Shaped, Radio, Plain
<1>19. Facts(Caps.rp10_16)
  <2>1. Caps.rp10_16 = [NoAcq EXCEPT !.design = "pbdds16", !.freq = 10, !.tx = 3]
    BY DEF Caps
  <2>. QED
    BY <2>1 DEF Facts, NoAcq, Shaped, Radio, Plain
<1>20. Facts(Caps.rp10_19)
  <2>1. Caps.rp10_19 = [NoAcq EXCEPT !.design = "pbdds19", !.freq = 10, !.tx = 3, !.amp = 10,
                              !.accepts = 32, !.keeps = 32]
    BY DEF Caps
  <2>. QED
    BY <2>1 DEF Facts, NoAcq, Shaped, Radio, Plain
<1>21. Facts(Caps.rp10_21)
  BY <1>5 DEF Caps
<1>22. Facts(Caps.rp12_16)
  <2>1. Caps.rp12_16 = [Cyclops EXCEPT !.design = "cyclops7", !.freq = 4, !.tx = 4,
                              !.accepts = 32, !.keeps = 32]
    BY DEF Caps
  <2>. QED
    BY <2>1 DEF Facts, Cyclops, Shaped, Radio, Plain
<1>23. Facts(Caps.rp12_8)
  <2>1. Caps.rp12_8 = [Shaped EXCEPT !.freq = 5, !.tx = 5, !.ff = TRUE]
    BY DEF Caps
  <2>. QED
    BY <2>1 DEF Facts, Shaped, Radio, Plain
<1>24. Facts(Caps.rpg)
  <2>1. Caps.rpg = [Shaped EXCEPT !.design = "rpg", !.tx = 7, !.cyclops = TRUE]
    BY DEF Caps
  <2>. QED
    BY <2>1 DEF Facts, Shaped, Radio, Plain
<1>25. Facts(Caps.usbpb)
  BY <1>6 DEF Caps
<1>26. Facts(Caps.dds14_1)
  BY <1>7 DEF Caps
<1>27. Facts(Caps.dds14_3)
  <2>1. Caps.dds14_3 = [Dds2 EXCEPT !.design = "dds2wide", !.dfreq = 10, !.dphase = 7,
                              !.damp = 10]
    BY DEF Caps
  <2>. QED
    BY <2>1 DEF Facts, Dds2, Usb2, Plain
<1>28. Facts(Caps.dds12_19)
  <2>1. Caps.dds12_19 = [Dds2 EXCEPT !.design = "dds1", !.dfreq = 10, !.dphase = 7,
                              !.damp = 10, !.freq = 5, !.cos = 2, !.sin = 2, !.tx = 5, !.amp = 2,
                              !.noacq = TRUE, !.second = FALSE]
    BY DEF Caps
  <2>. QED
    BY <2>1 DEF Facts, Dds2, Usb2, Plain
<1>29. DOMAIN Caps =
          {"amcc", "esr", "esr908", "core4", "pcie", "sp16", "rp10_4", "rp10_8", "rp10_10",
           "rp12_6", "rp10_15", "rp10_16", "rp10_19", "rp10_21", "rp12_16", "rp12_8", "rpg",
           "usbpb", "dds14_1", "dds14_3", "dds12_19"}
  BY DEF Caps
<1>. QED
  BY <1>8, <1>9, <1>10, <1>11, <1>12, <1>13, <1>14, <1>15, <1>16, <1>17, <1>18,
     <1>19, <1>20, <1>21, <1>22, <1>23, <1>24, <1>25, <1>26, <1>27, <1>28, <1>29

LEMMA BoardFacts == ASSUME board \in Boards PROVE Facts(Board)
BY CapsFacts, BoardsAssumption DEF Board

-----------------------------------------------------------------------------
(* What is right about the result r of a call with opcode inst, count n    *)
(* and a length of so many cycles, whatever is packed into its word.       *)

LeastOf(inst) == IF inst = "LOOP" THEN 1 ELSE IF inst = "LONG_DELAY" THEN 2 ELSE 0

Typed(r) ==
    /\ r.answer \in {0, -1, -91} /\ r.put \in BOOLEAN
    /\ r.word \subseteq Bit
    /\ r.data \in 0 .. DataRange - 1 /\ r.delay \in 0 .. DelayRange - 1

Answered(r) == r.put <=> r.answer >= 0

WaitFor(d, cycles) ==
    \/ d = cycles
    \/ ~has_FF_fix /\ EndsInFF(cycles) /\ d = cycles - 1
    \/ cycles \notin 0 .. DelayRange - 1

Waits(r, cycles) == r.put => WaitFor(r.delay, cycles)

Repeats(r, inst, n) ==
    r.put => r.data + LeastOf(inst) = n \/ n \notin 0 .. LeastOf(inst) + DataRange - 1

Right(r, inst, n, cycles) ==
    Typed(r) /\ Answered(r) /\ Waits(r, cycles) /\ Repeats(r, inst, n)

Safe(r) == (r.put /\ ~Board.ff /\ ~has_FF_fix) => ~EndsInFF(r.delay)

LEMMA Refused ==
    ASSUME NEW code \in {-1, -91}, NEW inst, NEW n, NEW cycles
    PROVE  Right(Refuse(code), inst, n, cycles) /\ Safe(Refuse(code))
<1>1. /\ Refuse(code).answer = code /\ Refuse(code).put = FALSE /\ Refuse(code).word = {}
      /\ Refuse(code).data = 0 /\ Refuse(code).delay = 0
  BY DEF Refuse
<1>2. Typed(Refuse(code))
  <2>1. 0 \in 0 .. DataRange - 1 /\ 0 \in 0 .. DelayRange - 1
    BY InstructionAssumption
  <2>. QED
    BY <1>1, <2>1 DEF Typed
<1>3. Answered(Refuse(code))
  BY <1>1 DEF Answered
<1>. QED
  BY <1>1, <1>2, <1>3 DEF Right, Waits, Repeats, Safe

\* A count that is not refused is sent as one that the board repeats as asked.
LEMMA CountSent ==
    ASSUME NEW inst \in Inst, NEW n \in Int, ~BadCount(inst, n)
    PROVE  /\ Counted(inst, n) % DataRange \in 0 .. DataRange - 1
           /\ \/ (Counted(inst, n) % DataRange) + LeastOf(inst) = n
              \/ n \notin 0 .. LeastOf(inst) + DataRange - 1
<1>. DEFINE m == Counted(inst, n)
<1>1. DataRange \in Nat \ {0}
  BY InstructionAssumption
<1>2. m \in Int /\ m = n - LeastOf(inst) /\ LeastOf(inst) \in 0 .. 2
  BY DEF Counted, LeastOf
<1>3. n \in 0 .. LeastOf(inst) + DataRange - 1 => m \in 0 .. DataRange - 1
  BY <1>1, <1>2 DEF BadCount, LeastOf
<1>. HIDE DEF m
<1>4. m % DataRange \in 0 .. DataRange - 1 /\ (m \in 0 .. DataRange - 1 => m % DataRange = m)
  BY <1>1, <1>2
<1>. QED
  BY <1>2, <1>3, <1>4 DEF m

LEMMA DirectRight ==
    ASSUME board \in Boards, NEW word, NEW inst \in Inst, NEW n \in Int, ~BadCount(inst, n),
           NEW d \in 0 .. DelayRange - 1, NEW cycles \in Int, WaitFor(d, cycles)
    PROVE  /\ Right(PbInstDirect(word, inst, Counted(inst, n), d), inst, n, cycles)
           /\ Board.ff \/ has_FF_fix \/ ~EndsInFF(d) =>
                 Safe(PbInstDirect(word, inst, Counted(inst, n), d))
<1>. DEFINE r == PbInstDirect(word, inst, Counted(inst, n), d)
<1>1. CASE r = Refuse(-1)
  BY <1>1, Refused
<1>2. CASE r = [answer |-> 0, put |-> TRUE,
                word |-> word \cap (0 .. Board.keeps - 1)
                              \cap (IF Board.usb2 THEN Bit ELSE 0 .. 31),
                inst |-> inst, data |-> Counted(inst, n) % DataRange, delay |-> d]
  <2>1. r.word \subseteq Bit
    BY <1>2 DEF Bit
  <2>2. /\ r.answer = 0 /\ r.put = TRUE /\ r.data = Counted(inst, n) % DataRange /\ r.delay = d
    BY <1>2
  <2>. HIDE DEF r
  <2>3. Typed(r) /\ Repeats(r, inst, n)
    BY <2>1, <2>2, CountSent DEF Typed, Repeats
  <2>4. Answered(r) /\ Waits(r, cycles)
    BY <2>2 DEF Answered, Waits
  <2>5. Board.ff \/ has_FF_fix \/ ~EndsInFF(d) => Safe(r)
    BY <2>2 DEF Safe
  <2>. QED
    BY <2>3, <2>4, <2>5 DEF r, Right
<1>. QED
  BY <1>1, <1>2 DEF PbInstDirect

\* A delay that the counter can hold is converted as it is.
LEMMA Converted ==
    ASSUME NEW cycles \in Int
    PROVE  /\ RoundUint(cycles) \in 0 .. DelayRange - 1
           /\ RoundUint(cycles) = cycles \/ cycles \notin 0 .. DelayRange - 1
           /\ RoundInt(cycles) >= 2 =>
                 RoundInt(cycles) = cycles /\ cycles \in 0 .. DelayRange - 1
<1>1. DelayRange \in Nat \ {0}
  BY InstructionAssumption
<1>2. /\ RoundUint(cycles) \in 0 .. DelayRange - 1
      /\ cycles \in 0 .. DelayRange - 1 => RoundUint(cycles) = cycles
  BY <1>1 DEF RoundUint
<1>3. RoundInt(cycles) >= 2 => RoundInt(cycles) = cycles /\ cycles \in 0 .. DelayRange - 1
  BY <1>1 DEF RoundInt
<1>. QED
  BY <1>2, <1>3

\* The correction leaves a delay that the core counter can count to, and is the
\* one cycle that the board may wait less.
LEMMA Corrected ==
    ASSUME has_FF_fix \in BOOLEAN, NEW cycles \in Int, NEW d \in 0 .. DelayRange - 1,
           d = cycles \/ cycles \notin 0 .. DelayRange - 1
    PROVE  /\ FixFF(d) \in 0 .. DelayRange - 1
           /\ WaitFor(FixFF(d), cycles)
           /\ has_FF_fix \/ ~EndsInFF(FixFF(d))
<1>1. DelayRange \in Nat /\ Byte \in Nat \ {0, 1}
  BY InstructionAssumption
<1>2. CASE ~has_FF_fix /\ EndsInFF(d)
  <2>1. FixFF(d) = d - 1
    BY <1>2 DEF FixFF
  <2>2. d \in Nat /\ d % Byte = Byte - 1 /\ d > Byte - 1
    BY <1>1, <1>2 DEF EndsInFF
  <2>3. (d - 1) % Byte # Byte - 1
    BY <1>1, <2>2, SMTT(30)
  <2>4. d - 1 \in 0 .. DelayRange - 1
    BY <1>1, <2>2
  <2>. QED
    BY <1>2, <2>1, <2>3, <2>4 DEF WaitFor, EndsInFF
<1>3. CASE ~(~has_FF_fix /\ EndsInFF(d))
  <2>1. FixFF(d) = d
    BY <1>3 DEF FixFF
  <2>. QED
    BY <1>3, <2>1 DEF WaitFor
<1>. QED
  BY <1>2, <1>3

LEMMA RoundedInt ==
    ASSUME NEW length \in Int, NEW cycles \in Int
    PROVE  Rounded(length, cycles) \in Int
BY DEF Rounded

-----------------------------------------------------------------------------
(* The functions.                                                          *)

LEMMA Pbonly64Right ==
    ASSUME board \in Boards, has_FF_fix \in BOOLEAN,
           NEW flags, NEW inst \in Inst, NEW data \in Int, NEW length \in Int
    PROVE  LET r == PbInstPbonly64(flags, inst, data, length)
           IN  Right(r, inst, data, Rounded(length, 3)) /\ Safe(r)
<1>. DEFINE r == PbInstPbonly64(flags, inst, data, length)
            cycles == Rounded(length, 3)
            d == RoundUint(cycles)
            ordered == IF Board.design = "sp16" THEN Reversed(flags \cap (0 .. 31)) ELSE flags
<1>1. CASE r = Refuse(-1) \/ r = Refuse(-91)
  BY <1>1, Refused
<1>2. CASE ~BadCount(inst, data) /\ r = PbInstDirect(ordered, inst, Counted(inst, data), FixFF(d))
  <2>1. cycles \in Int
    BY RoundedInt
  <2>. HIDE DEF cycles
  <2>2. d \in 0 .. DelayRange - 1 /\ (d = cycles \/ cycles \notin 0 .. DelayRange - 1)
    BY <2>1, Converted
  <2>. HIDE DEF d, ordered
  <2>3. /\ FixFF(d) \in 0 .. DelayRange - 1 /\ WaitFor(FixFF(d), cycles)
        /\ has_FF_fix \/ ~EndsInFF(FixFF(d))
    BY <2>1, <2>2, Corrected
  <2>. QED
    BY <1>2, <2>1, <2>3, DirectRight DEF cycles
<1>. QED
  BY <1>1, <1>2 DEF PbInstPbonly64

LEMMA Dds2Right ==
    ASSUME board \in Boards, has_FF_fix \in BOOLEAN, Supports,
           NEW o, NEW inst \in Inst, NEW data \in Int, NEW length \in Int
    PROVE  LET r == PbInstDds2(o, inst, data, length)
           IN  Right(r, inst, data, Rounded(length, 3)) /\ Safe(r)
<1>. DEFINE r == PbInstDds2(o, inst, data, length)
            cycles == Rounded(length, 3)
            d == RoundUint(cycles)
            word == Pack({s \in Packing(Board.design) : s.op \notin {"shape", "shape1"}}, o)
<1>1. CASE r = Refuse(-1) \/ r = Refuse(-91)
  BY <1>1, Refused
<1>2. CASE ~BadCount(inst, data) /\ r = PbInstDirect(word, inst, Counted(inst, data), d)
  <2>1. cycles \in Int /\ Board.ff
    BY RoundedInt, BoardFacts DEF Facts, Supports
  <2>. HIDE DEF cycles
  <2>2. d \in 0 .. DelayRange - 1 /\ WaitFor(d, cycles)
    BY <2>1, Converted DEF WaitFor
  <2>. HIDE DEF d, word
  <2>. QED
    BY <1>2, <2>1, <2>2, DirectRight DEF cycles
<1>. QED
  BY <1>1, <1>2 DEF PbInstDds2

LEMMA Dds2ShapeRight ==
    ASSUME board \in Boards, has_FF_fix \in BOOLEAN,
           NEW o, NEW inst \in Inst, NEW data \in Int, NEW length \in Int
    PROVE  LET r == PbInstDds2Shape(o, inst, data, length)
           IN  Right(r, inst, data, Rounded(length, 3)) /\ Safe(r)
<1>. DEFINE r == PbInstDds2Shape(o, inst, data, length)
            cycles == Rounded(length, 3)
            d == RoundInt(cycles)
            word == Pack(Packing(Board.design), o)
<1>1. CASE r = Refuse(-1) \/ r = Refuse(-91)
  BY <1>1, Refused
<1>2. CASE Supports /\ ~(d < 2) /\ ~BadCount(inst, data)
           /\ r = PbInstDirect(word, inst, Counted(inst, data), d)
  <2>1. cycles \in Int /\ Board.ff /\ DelayRange \in Nat
    BY <1>2, RoundedInt, BoardFacts, InstructionAssumption DEF Facts, Supports
  <2>. HIDE DEF cycles
  <2>2. d \in Int
    BY <2>1 DEF RoundInt
  <2>3. d \in 0 .. DelayRange - 1 /\ WaitFor(d, cycles)
    BY <1>2, <2>1, <2>2, Converted DEF WaitFor
  <2>. HIDE DEF d, word
  <2>. QED
    BY <1>2, <2>1, <2>3, DirectRight DEF cycles
<1>. QED
  BY <1>1, <1>2 DEF PbInstDds2Shape

LEMMA RpgRight ==
    ASSUME NEW o, NEW inst \in Inst, NEW data \in Int, NEW length \in Int
    PROVE  Right(PbInstRpg(o, inst, data, length), inst, data, Rounded(length, 3))
<1>. DEFINE r == PbInstRpg(o, inst, data, length)
            cycles == Rounded(length, 3)
            low == [o EXCEPT !["flags"] = @ \cap (0 .. 3)]
            sign == IF 27 \in o["amp"] THEN 32 .. 63 ELSE {}
            word == (Shift(Packing("rpg"), low) \cap (0 .. 31)) \cup sign
<1>1. CASE r = Refuse(-1)
  BY <1>1, Refused
<1>2. CASE ~BadCount(inst, data)
           /\ r = [answer |-> 0, put |-> TRUE, inst |-> inst, word |-> word,
                   data |-> Counted(inst, data) % DataRange, delay |-> RoundUint(cycles)]
  <2>1. word \subseteq Bit
    BY DEF Bit
  <2>2. /\ r.answer = 0 /\ r.put = TRUE /\ r.word = word
        /\ r.data = Counted(inst, data) % DataRange /\ r.delay = RoundUint(cycles)
    BY <1>2
  <2>3. cycles \in Int
    BY RoundedInt
  <2>. HIDE DEF r, word, cycles
  <2>4. Typed(r) /\ Repeats(r, inst, data)
    BY <1>2, <2>1, <2>2, <2>3, CountSent, Converted DEF Typed, Repeats
  <2>5. Answered(r) /\ Waits(r, cycles)
    BY <2>2, <2>3, Converted DEF Answered, Waits, WaitFor
  <2>. QED
    BY <2>4, <2>5 DEF r, cycles, Right
<1>. QED
  BY <1>1, <1>2 DEF PbInstRpg

LEMMA RadioShapeRight ==
    ASSUME board \in Boards, has_FF_fix \in BOOLEAN,
           NEW o, NEW inst \in Inst, NEW data \in Int, NEW length \in Int
    PROVE  LET r == PbInstRadioShape(o, inst, data, length)
           IN  /\ Right(r, inst, data, Rounded(length, 3))
               /\ Board.design # "rpg" => Safe(r)
<1>. DEFINE all == NoCyclops(o)
            first == [all EXCEPT !["freq1"] = {}, !["tx1"] = {}, !["amp1"] = {}]
            word == Pack(Packing(Board.design), all)
            r == PbInstRadioShape(o, inst, data, length)
<1>1. \/ r = PbInstDds2Shape(first, inst, data, length)
      \/ Board.design = "rpg" /\ r = PbInstRpg(all, inst, data, length)
      \/ r = Refuse(-1)
      \/ r = PbInstPbonly64(word, inst, data, length)
  BY DEF PbInstRadioShape
<1>. HIDE DEF r, word, first, all
<1>2. CASE r = PbInstDds2Shape(first, inst, data, length)
  BY <1>2, Dds2ShapeRight DEF r
<1>3. CASE Board.design = "rpg" /\ r = PbInstRpg(all, inst, data, length)
  BY <1>3, RpgRight DEF r
<1>4. CASE r = Refuse(-1)
  BY <1>4, Refused DEF r
<1>5. CASE r = PbInstPbonly64(word, inst, data, length)
  BY <1>5, Pbonly64Right DEF r
<1>. QED
  BY <1>1, <1>2, <1>3, <1>4, <1>5

LEMMA RadioShapeCyclopsRight ==
    ASSUME board \in Boards, has_FF_fix \in BOOLEAN,
           NEW o, NEW inst \in Inst, NEW data \in Int, NEW length \in Int
    PROVE  LET r == PbInstRadioShapeCyclops(o, inst, data, length)
           IN  /\ Right(r, inst, data, Rounded(length, 3))
               /\ Board.design # "rpg" => Safe(r)
<1>. DEFINE word == Pack(Packing(Board.design), o)
            r == PbInstRadioShapeCyclops(o, inst, data, length)
<1>1. \/ r = Refuse(-1)
      \/ Board.design = "rpg" /\ r = PbInstRpg(o, inst, data, length)
      \/ r = PbInstPbonly64(word, inst, data, length)
  BY DEF PbInstRadioShapeCyclops
<1>. HIDE DEF r, word
<1>2. CASE r = Refuse(-1)
  BY <1>2, Refused DEF r
<1>3. CASE Board.design = "rpg" /\ r = PbInstRpg(o, inst, data, length)
  BY <1>3, RpgRight DEF r
<1>4. CASE r = PbInstPbonly64(word, inst, data, length)
  BY <1>4, Pbonly64Right DEF r
<1>. QED
  BY <1>1, <1>2, <1>3, <1>4

LEMMA RadioRight ==
    ASSUME board \in Boards, has_FF_fix \in BOOLEAN,
           NEW o, NEW inst \in Inst, NEW data \in Int, NEW length \in Int
    PROVE  LET r == PbInstRadio(o, inst, data, length)
           IN  /\ Right(r, inst, data, Rounded(length, 3))
               /\ Board.design # "rpg" => Safe(r)
<1>. DEFINE first == [o EXCEPT !["amp"] = {}, !["freq1"] = {}, !["tx1"] = {}, !["amp1"] = {}]
            unshaped == Unshaped(o)
            word == Pack(RadioSlices, o)
            r == PbInstRadio(o, inst, data, length)
<1>1. \/ Supports /\ r = PbInstDds2(first, inst, data, length)
      \/ r = Refuse(-1)
      \/ r = PbInstRadioShape(unshaped, inst, data, length)
      \/ r = PbInstPbonly64(word, inst, data, length)
  BY DEF PbInstRadio, Supports
<1>. HIDE DEF r, word, unshaped, first
<1>2. CASE Supports /\ r = PbInstDds2(first, inst, data, length)
  BY <1>2, Dds2Right DEF r
<1>3. CASE r = Refuse(-1)
  BY <1>3, Refused DEF r
<1>4. CASE r = PbInstRadioShape(unshaped, inst, data, length)
  BY <1>4, RadioShapeRight DEF r
<1>5. CASE r = PbInstPbonly64(word, inst, data, length)
  BY <1>5, Pbonly64Right DEF r
<1>. QED
  BY <1>1, <1>2, <1>3, <1>4, <1>5

LEMMA TworfRight ==
    ASSUME board \in Boards, has_FF_fix \in BOOLEAN,
           NEW o, NEW inst \in Inst, NEW data \in Int, NEW length \in Int
    PROVE  LET r == PbInstTworf(o, inst, data, length)
           IN  Right(r, inst, data, Rounded(length, 3)) /\ Safe(r)
<1>. DEFINE low(f) == IF o[f] = {} THEN {0} ELSE {}
            all == [o EXCEPT !["txen"] = low("txen"), !["rxen"] = low("rxen"),
                             !["flags"] = @ \cap (0 .. 23)]
            word == Shift(RfSlices, all) \cap (0 .. 31)
            r == PbInstTworf(o, inst, data, length)
<1>1. r = Refuse(-1) \/ r = PbInstPbonly64(word, inst, data, length)
  BY DEF PbInstTworf
<1>. HIDE DEF r, word
<1>2. CASE r = Refuse(-1)
  BY <1>2, Refused DEF r
<1>3. CASE r = PbInstPbonly64(word, inst, data, length)
  BY <1>3, Pbonly64Right DEF r
<1>. QED
  BY <1>1, <1>2, <1>3

\* The 4C board refuses what is longer than a quarter of what the others take;
\* another board is sent an ordinary instruction.
LEMMA Core4Right ==
    ASSUME board \in Boards, has_FF_fix \in BOOLEAN, NEW o, NEW length \in Int
    PROVE  LET r == Pb4CInst(o, length)
               cycles == Rounded(length, IF Board.design = "4C" THEN 1 ELSE 3)
           IN  /\ Typed(r) /\ Answered(r) /\ Waits(r, cycles)
               /\ Board.design # "4C" => Safe(r)
<1>. DEFINE r == Pb4CInst(o, length)
            cycles == Rounded(length, IF Board.design = "4C" THEN 1 ELSE 3)
            d == RoundUint(Rounded(length, 1))
            word == o["flags"] \cap {0}
<1>1. CASE Board.design # "4C"
  <2>1. r = PbInstPbonly64(o["flags"], "CONTINUE", 0, length) /\ cycles = Rounded(length, 3)
    BY <1>1 DEF Pb4CInst
  <2>2. "CONTINUE" \in Inst
    BY DEF Inst
  <2>. QED
    BY <2>1, <2>2, Pbonly64Right DEF Right
<1>2. CASE Board.design = "4C" /\ r = Refuse(-91)
  BY <1>2, Refused DEF Right
<1>3. CASE Board.design = "4C"
           /\ r = [answer |-> 0, put |-> TRUE, word |-> word, inst |-> "CONTINUE",
                   data |-> 0, delay |-> d]
  <2>1. cycles = Rounded(length, 1) /\ Rounded(length, 1) \in Int
    BY <1>3, RoundedInt
  <2>2. d \in 0 .. DelayRange - 1 /\ (d = cycles \/ cycles \notin 0 .. DelayRange - 1)
    BY <2>1, Converted
  <2>3. word \subseteq Bit /\ 0 \in 0 .. DataRange - 1
    BY InstructionAssumption DEF Bit
  <2>4. r.answer = 0 /\ r.put = TRUE /\ r.word = word /\ r.data = 0 /\ r.delay = d
    BY <1>3
  <2>. HIDE DEF r, cycles, d, word
  <2>5. Typed(r)
    BY <2>2, <2>3, <2>4 DEF Typed
  <2>6. Answered(r) /\ Waits(r, cycles)
    BY <2>2, <2>4 DEF Answered, Waits, WaitFor
  <2>. QED
    BY <1>3, <2>5, <2>6 DEF r, cycles
<1>. QED
  BY <1>1, <1>2, <1>3 DEF Pb4CInst

LEMMA Core4StopRight ==
    ASSUME board \in Boards, has_FF_fix \in BOOLEAN, NEW length \in Int
    PROVE  LET r == Pb4CStop(length)
               cycles == Rounded(length, IF Board.design = "4C" THEN 1 ELSE 3)
           IN  /\ Typed(r) /\ Answered(r) /\ Waits(r, cycles)
               /\ Board.design # "4C" => Safe(r)
<1>. DEFINE r == Pb4CStop(length)
            inst == Pb4CInst(Zero, length)
            cycles == Rounded(length, IF Board.design = "4C" THEN 1 ELSE 3)
<1>1. CASE Board.design # "4C"
  <2>1. r = PbInstPbonly64({}, "STOP", 0, length) /\ cycles = Rounded(length, 3)
    BY <1>1 DEF Pb4CStop
  <2>2. "STOP" \in Inst
    BY DEF Inst
  <2>. QED
    BY <2>1, <2>2, Pbonly64Right DEF Right
<1>2. CASE Board.design = "4C"
  <2>1. Typed(inst) /\ Answered(inst) /\ Waits(inst, cycles)
    BY Core4Right
  <2>2. inst = Refuse(-91) \/ inst = [answer |-> 0, put |-> TRUE, word |-> Zero["flags"] \cap {0},
                                      inst |-> "CONTINUE", data |-> 0,
                                      delay |-> RoundUint(Rounded(length, 1))]
    BY <1>2 DEF Pb4CInst
  <2>3. r = IF inst.put THEN [inst EXCEPT !.inst = "STOP"] ELSE inst
    BY <1>2 DEF Pb4CStop
  <2>4. /\ r.answer = inst.answer /\ r.put = inst.put /\ r.word = inst.word
        /\ r.data = inst.data /\ r.delay = inst.delay
    <3>1. CASE inst = Refuse(-91)
      <4>1. inst.put = FALSE
        BY <3>1 DEF Refuse
      <4>. HIDE DEF r, inst
      <4>. QED
        BY <2>3, <4>1
    <3>2. CASE inst # Refuse(-91)
      <4>. DEFINE w == Zero["flags"] \cap {0}
                  dl == RoundUint(Rounded(length, 1))
      <4>1. inst = [answer |-> 0, put |-> TRUE, word |-> w, inst |-> "CONTINUE",
                    data |-> 0, delay |-> dl]
        BY <2>2, <3>2
      <4>. HIDE DEF r, inst, w, dl
      <4>2. r = [inst EXCEPT !.inst = "STOP"]
        BY <2>3, <4>1
      <4>. QED
        BY <4>1, <4>2
    <3>. QED
      BY <3>1, <3>2
  <2>. HIDE DEF r, inst, cycles
  <2>5. Typed(r) /\ Answered(r) /\ Waits(r, cycles)
    BY <2>1, <2>4 DEF Typed, Answered, Waits
  <2>. QED
    BY <1>2, <2>5 DEF r, cycles
<1>. QED
  BY <1>1, <1>2

-----------------------------------------------------------------------------
(* The result of a call.                                                   *)

\* The functions whose instructions the core counter of the board counts.
CoreCounts(fn) == ~(fn \in {"pb_4C_inst", "pb_4C_stop"} /\ Board.design = "4C")
CyclesOf(fn, t) == Rounded(t.length, IF CoreCounts(fn) THEN 3 ELSE 1)

Encoded(fn, t, r) ==
    /\ Waits(r, CyclesOf(fn, t))
    /\ fn # "pb_inst_dds2" \/ Supports => Answered(r)
    /\ fn \notin {"pb_4C_inst", "pb_4C_stop"} => Repeats(r, t.inst, t.data)
    /\ CoreCounts(fn) /\ Board.design # "rpg" => Safe(r)

LEMMA ResultEncoded ==
    ASSUME board \in Boards, has_FF_fix \in BOOLEAN,
           NEW fn \in Functions, NEW o, NEW flags, NEW t \in Timing
    PROVE  Typed(Result(fn, o, flags, t)) /\ Encoded(fn, t, Result(fn, o, flags, t))
<1>. DEFINE r == Result(fn, o, flags, t)
<1>. SUFFICES Typed(r) /\ Encoded(fn, t, r)
  OBVIOUS
<1>1. /\ board \in Boards /\ has_FF_fix \in BOOLEAN
      /\ t.inst \in Inst /\ t.data \in Int /\ t.length \in Int
      /\ fn \in Functions /\ r = Result(fn, o, flags, t)
  BY DEF Timing
<1>. HIDE DEF r
<1>2. /\ fn \notin {"pb_4C_inst", "pb_4C_stop"} =>
            CoreCounts(fn) /\ CyclesOf(fn, t) = Rounded(t.length, 3)
      /\ fn \in {"pb_4C_inst", "pb_4C_stop"} =>
            /\ CoreCounts(fn) <=> Board.design # "4C"
            /\ CyclesOf(fn, t) = Rounded(t.length, IF Board.design = "4C" THEN 1 ELSE 3)
  BY DEF CoreCounts, CyclesOf
<1>3. CASE fn = "pb_inst_pbonly64"
  <2>1. r = PbInstPbonly64(flags, t.inst, t.data, t.length)
    BY <1>1, <1>3 DEF Result
  <2>. QED
    BY <1>1, <1>2, <1>3, <2>1, Pbonly64Right DEF Right, Encoded
<1>4. CASE fn = "pb_inst_tworf"
  <2>1. r = PbInstTworf(o, t.inst, t.data, t.length)
    BY <1>1, <1>4 DEF Result
  <2>. QED
    BY <1>1, <1>2, <1>4, <2>1, TworfRight DEF Right, Encoded
<1>5. CASE fn = "pb_inst_radio"
  <2>1. r = PbInstRadio(o, t.inst, t.data, t.length)
    BY <1>1, <1>5 DEF Result
  <2>. QED
    BY <1>1, <1>2, <1>5, <2>1, RadioRight DEF Right, Encoded
<1>6. CASE fn = "pb_inst_radio_shape"
  <2>1. r = PbInstRadioShape(o, t.inst, t.data, t.length)
    BY <1>1, <1>6 DEF Result
  <2>. QED
    BY <1>1, <1>2, <1>6, <2>1, RadioShapeRight DEF Right, Encoded
<1>7. CASE fn = "pb_inst_radio_shape_cyclops"
  <2>1. r = PbInstRadioShapeCyclops(o, t.inst, t.data, t.length)
    BY <1>1, <1>7 DEF Result
  <2>. QED
    BY <1>1, <1>2, <1>7, <2>1, RadioShapeCyclopsRight DEF Right, Encoded
<1>8. CASE fn = "pb_inst_dds2_shape"
  <2>1. r = PbInstDds2Shape(o, t.inst, t.data, t.length)
    BY <1>1, <1>8 DEF Result
  <2>. QED
    BY <1>1, <1>2, <1>8, <2>1, Dds2ShapeRight DEF Right, Encoded
<1>9. CASE fn = "pb_inst_dds2"
  <2>1. r = PbInstDds2(o, t.inst, t.data, t.length)
    BY <1>1, <1>9 DEF Result
  <2>2. CASE Supports
    BY <1>1, <1>2, <1>9, <2>1, <2>2, Dds2Right DEF Right, Encoded
  <2>3. CASE ~Supports
    <3>1. r = Refuse(0)
      BY <2>1, <2>3 DEF PbInstDds2
    <3>2. /\ r.answer = 0 /\ r.put = FALSE /\ r.word = {}
          /\ r.data = 0 /\ r.delay = 0
      BY <3>1 DEF Refuse
    <3>3. 0 \in 0 .. DataRange - 1 /\ 0 \in 0 .. DelayRange - 1
      BY InstructionAssumption
    <3>. QED
      BY <1>9, <2>3, <3>2, <3>3 DEF Typed, Waits, Repeats, Safe, Encoded
  <2>. QED
    BY <2>2, <2>3
<1>10. CASE fn = "pb_4C_inst"
  <2>1. r = Pb4CInst(o, t.length)
    BY <1>1, <1>10 DEF Result
  <2>. QED
    BY <1>1, <1>2, <1>10, <2>1, Core4Right DEF Encoded
<1>11. CASE fn = "pb_4C_stop"
  <2>1. r = Pb4CStop(t.length)
    BY <1>1, <1>11 DEF Result
  <2>. QED
    BY <1>1, <1>2, <1>11, <2>1, Core4StopRight DEF Encoded
<1>. QED
  BY <1>1, <1>3, <1>4, <1>5, <1>6, <1>7, <1>8, <1>9, <1>10, <1>11 DEF Functions, Packers

-----------------------------------------------------------------------------
(* The flags of pb_inst_pbonly64, on a board with room for them.           *)

Carries(flags, r) ==
    (r.put /\ Board.keeps # 8 /\ (Board.usb2 \/ flags \subseteq 0 .. 31)) =>
        {Output(i) : i \in r.word} = flags

LEMMA FlagsKept ==
    ASSUME board \in Boards, NEW flags \in SUBSET (0 .. 63),
           NEW inst, NEW data, NEW length
    PROVE  Carries(flags, PbInstPbonly64(flags, inst, data, length))
<1>. DEFINE r == PbInstPbonly64(flags, inst, data, length)
            ordered == IF Board.design = "sp16" THEN Reversed(flags \cap (0 .. 31)) ELSE flags
<1>1. SUFFICES ASSUME r.put, Board.keeps # 8, Board.usb2 \/ flags \subseteq 0 .. 31
               PROVE  {Output(i) : i \in r.word} = flags
  BY DEF Carries
<1>2. /\ Board.accepts \in Nat /\ Board.keeps \in Nat /\ Board.accepts <= Board.keeps
      /\ Board.usb2 => Board.keeps = 96 /\ Board.design # "sp16"
  BY <1>1, BoardFacts DEF Facts
<1>3. /\ r.word = (ordered \cap (0 .. Board.keeps - 1))
                     \cap (IF Board.usb2 THEN Bit ELSE 0 .. 31)
      /\ ~Board.usb2 => (ordered \cap (0 .. 31)) \ (0 .. Board.accepts - 1) = {}
  <2>. DEFINE count == Counted(inst, data)
              d == FixFF(RoundUint(Rounded(length, 3)))
  <2>1. /\ r = PbInstDirect(ordered, inst, count, d)
    <3>1. r = Refuse(-1) \/ r = Refuse(-91) \/ r = PbInstDirect(ordered, inst, count, d)
      BY DEF PbInstPbonly64
    <3>2. Refuse(-1).put = FALSE /\ Refuse(-91).put = FALSE
      BY DEF Refuse
    <3>. QED
      BY <1>1, <3>1, <3>2
  <2>2. Refuse(-1).put = FALSE
    BY DEF Refuse
  <2>. HIDE DEF r, ordered, count, d
  <2>. QED
    BY <1>1, <2>1, <2>2 DEF PbInstDirect
<1>4. r.word = ordered
  <2>1. Board.usb2 => ordered = flags /\ flags \subseteq 0 .. 63
    BY <1>2
  <2>2. ~Board.usb2 => ordered \subseteq 0 .. 31
    <3>1. CASE Board.design = "sp16"
      <4>1. ordered = Reversed(flags \cap (0 .. 31))
        BY <3>1
      <4>. HIDE DEF ordered
      <4>. QED
        BY <4>1 DEF Reversed
    <3>2. CASE Board.design # "sp16"
      <4>1. ordered = flags
        BY <3>2
      <4>. QED
        BY <1>1, <4>1
    <3>. QED
      BY <3>1, <3>2
  <2>. HIDE DEF r, ordered
  <2>3. CASE Board.usb2
    <3>1. r.word = (ordered \cap (0 .. 95)) \cap (0 .. 95)
      <4>1. Board.keeps - 1 = 95
        BY <1>2, <2>3
      <4>. QED
        BY <1>3, <2>3, <4>1 DEF Bit
    <3>2. \A i \in ordered : i \in 0 .. 95
      <4>1. ordered = flags
        BY <2>1, <2>3, Zenon
      <4>2. \A i \in flags : i \in 0 .. 95
        OBVIOUS
      <4>. QED
        BY <4>1, <4>2
    <3>. QED
      BY <3>1, <3>2, Zenon
  <2>4. CASE ~Board.usb2
    BY <1>2, <1>3, <2>2, <2>4
  <2>. QED
    BY <2>3, <2>4
<1>5. CASE Board.design = "sp16"
  <2>1. r.word = Reversed(flags)
    <3>1. flags \cap (0 .. 31) = flags
      BY <1>1, <1>2, <1>5
    <3>. QED
      BY <1>4, <1>5, <3>1
  <2>. HIDE DEF r
  <2>2. \A i : Output(i) = IF i = 0 THEN 1 ELSE IF i = 1 THEN 0 ELSE i
    BY <1>5 DEF Output
  <2>3. r.word = {Output(i) : i \in flags}
    BY <2>1, <2>2 DEF Reversed
  <2>4. \A i \in flags : Output(Output(i)) = i
    BY <2>2
  <2>5. ASSUME NEW j \in r.word PROVE Output(j) \in flags
    <3>1. PICK i \in flags : j = Output(i)
      BY <2>3
    <3>. QED
      BY <2>4, <3>1
  <2>6. ASSUME NEW i \in flags PROVE \E j \in r.word : i = Output(j)
    BY <2>3, <2>4
  <2>. QED
    BY <2>5, <2>6
<1>6. CASE Board.design # "sp16"
  <2>1. \A i : Output(i) = i
    BY <1>6 DEF Output
  <2>2. r.word = flags
    BY <1>4, <1>6
  <2>. HIDE DEF r
  <2>. QED
    BY <2>1, <2>2
<1>. QED
  BY <1>5, <1>6

-----------------------------------------------------------------------------
(* The invariant.                                                          *)

Inv ==
    /\ board \in Boards /\ has_FF_fix \in BOOLEAN
    /\ Typed(sent)
    /\ call = NoCall => sent.put = FALSE
    /\ call # NoCall =>
          /\ call.fn \in Functions /\ call.t \in Timing
          /\ Encoded(call.fn, call.t, sent)
          /\ call.fn = "pb_inst_pbonly64" => Carries(call.flags, sent)

LEMMA NothingTyped == Typed(Refuse(0)) /\ Refuse(0).put = FALSE
<1>1. /\ Refuse(0).answer = 0 /\ Refuse(0).put = FALSE /\ Refuse(0).word = {}
      /\ Refuse(0).data = 0 /\ Refuse(0).delay = 0
  BY DEF Refuse
<1>2. 0 \in 0 .. DataRange - 1 /\ 0 \in 0 .. DelayRange - 1
  BY InstructionAssumption
<1>. QED
  BY <1>1, <1>2 DEF Typed

LEMMA InitInv == Init => Inv
<1>. SUFFICES ASSUME Init PROVE Inv
  OBVIOUS
<1>1. board \in Boards /\ has_FF_fix = Board.ff /\ call = NoCall /\ sent = Refuse(0)
  BY DEF Init
<1>2. Board.ff \in BOOLEAN
  BY <1>1, BoardFacts DEF Facts
<1>. QED
  BY <1>1, <1>2, NothingTyped DEF Inv

LEMMA PerformInv ==
    ASSUME Inv, NEW fn \in Functions, NEW o, NEW flags \in SUBSET (0 .. 63),
           NEW t \in Timings, Perform(fn, o, flags, t)
    PROVE  Inv'
<1>. DEFINE r == Result(fn, o, flags, t)
<1>1. /\ call' = [fn |-> fn, ops |-> o, flags |-> flags, t |-> t]
      /\ sent' = r /\ board' = board /\ has_FF_fix' = has_FF_fix
  BY DEF Perform
<1>2. t \in Timing /\ board \in Boards /\ has_FF_fix \in BOOLEAN
  BY InstructionAssumption DEF Timing, Inv
<1>3. Typed(r) /\ Encoded(fn, t, r)
  BY <1>2, ResultEncoded
<1>. HIDE DEF r
<1>4. call'.fn = fn /\ call'.t = t /\ call'.flags = flags /\ call' # NoCall
  BY <1>1 DEF Functions, Packers, NoCall
<1>5. Typed(sent')
  BY <1>1, <1>3
<1>6. Encoded(call.fn, call.t, sent)'
  BY <1>1, <1>3, <1>4 DEF Encoded, CoreCounts, CyclesOf, Supports, Answered, Waits, WaitFor,
                          Repeats, Safe, Board
<1>7. call'.fn = "pb_inst_pbonly64" => Carries(call.flags, sent)'
  <2>1. SUFFICES ASSUME fn = "pb_inst_pbonly64" PROVE Carries(call.flags, sent)'
    BY <1>4
  <2>2. Carries(flags, r)
    BY <1>2, <2>1, FlagsKept DEF r, Result, Timing
  <2>. QED
    BY <1>1, <1>4, <2>2 DEF Carries, Output, Board
<1>. QED
  BY <1>1, <1>2, <1>4, <1>5, <1>6, <1>7 DEF Inv

LEMMA NextInv ==
    ASSUME Inv, [Next]_vars
    PROVE  Inv'
<1>1. CASE PackedInst
  BY <1>1, PerformInv DEF PackedInst, Functions
<1>2. CASE PlainInst
  <2>1. "pb_inst_pbonly64" \in Functions /\ "pb_4C_inst" \in Functions /\ "pb_4C_stop" \in Functions
    BY DEF Functions
  <2>2. PICK flags \in FlagWords, t \in Timings :
            \/ Perform("pb_inst_pbonly64", Zero, flags, t)
            \/ Perform("pb_4C_inst", [Zero EXCEPT !["flags"] = flags], {}, t)
            \/ Perform("pb_4C_stop", Zero, {}, t)
    BY <1>2 DEF PlainInst
  <2>3. flags \in SUBSET (0 .. 63) /\ {} \in SUBSET (0 .. 63)
    BY InstructionAssumption
  <2>4. CASE Perform("pb_inst_pbonly64", Zero, flags, t)
    BY <2>1, <2>3, <2>4, PerformInv
  <2>5. CASE Perform("pb_4C_inst", [Zero EXCEPT !["flags"] = flags], {}, t)
    BY <2>1, <2>3, <2>5, PerformInv
  <2>6. CASE Perform("pb_4C_stop", Zero, {}, t)
    BY <2>1, <2>3, <2>6, PerformInv
  <2>. QED
    BY <2>2, <2>4, <2>5, <2>6
<1>3. CASE PbBypassFFFix
  BY <1>3 DEF PbBypassFFFix, Inv, Typed
<1>4. CASE Return
  BY <1>4, NothingTyped DEF Return, Inv
<1>5. CASE UNCHANGED vars
  BY <1>5 DEF vars, Inv, Carries, Output, Encoded, CoreCounts, CyclesOf, Supports, Answered,
              Waits, WaitFor, Repeats, Safe, Board
<1>. QED
  BY <1>1, <1>2, <1>3, <1>4, <1>5 DEF Next

LEMMA Invariance == Spec => []Inv
BY InitInv, NextInv, PTL DEF Spec

-----------------------------------------------------------------------------
(* The partitions of the word: no two slices share a bit, and there is     *)
(* room for what the board's limits accept.                                *)

\* Operands of one bit.
Enabling == {"txen", "rxen", "rst", "trig", "real", "imag", "swap", "txen1", "rst1"}

\* Two slices are the same, or one lies below the other.
Apart(s, t) ==
    \/ s.op = t.op /\ s.from = t.from /\ s.width = t.width /\ s.at = t.at
    \/ s.at + s.width <= t.at
    \/ t.at + t.width <= s.at

\* A partition of the low n bits.
Sliced(P, n) ==
    /\ \A s \in P : /\ s.op \in Field /\ s.from \in Nat /\ s.width \in Nat \ {0} /\ s.at \in Nat
                    /\ s.at + s.width <= n
    /\ \A s, t \in P : Apart(s, t)

\* How many bits an operand has that is accepted.
Bits(op, freq, tx, amp) ==
    IF op \in Enabling THEN 1
    ELSE IF op \in {"shape", "shape1"} THEN 3
    ELSE IF op \in {"cos", "sin"} THEN 2
    ELSE IF op \in {"freq", "freq1"} THEN freq
    ELSE IF op \in {"tx", "tx1"} THEN tx
    ELSE amp

\* The slices of an operand hold its low n bits.
Ample(P, op, n) ==
    \A i \in 0 .. n - 1 : \E t \in P : t.op = op /\ t.from <= i /\ i < t.from + t.width

\* Every operand that the word has a slice for has its bits in the word.
Room(P, freq, tx, amp) ==
    \A s \in P : s.op # "flags" => s.op # "rx" /\ Ample(P, s.op, Bits(s.op, freq, tx, amp))

LEMMA StandardRoom == Sliced(Standard(4, 4), 24) /\ Room(Standard(4, 4), 4, 4, 2)
<1>1. \A s \in Standard(4, 4) :
          /\ s.op \in Field /\ s.from \in Nat /\ s.width \in Nat \ {0} /\ s.at \in Nat
          /\ s.at + s.width <= 24
  BY DEF Standard, PhaseSlices, LowSlices, OneBit, Slice, Field
<1>2. \A s, t \in Standard(4, 4) : Apart(s, t)
  BY DEF Apart, Standard, PhaseSlices, LowSlices, OneBit, Slice
<1>3. Room(Standard(4, 4), 4, 4, 2)
  BY DEF Room, Ample, Bits, Enabling, Standard, PhaseSlices, LowSlices, OneBit, Slice
<1>. QED
  BY <1>1, <1>2, <1>3 DEF Sliced

LEMMA CyclopsRoom == Sliced(CyclopsSlices(2), 24) /\ Room(CyclopsSlices(2), 3, 2, 2)
<1>1. \A s \in CyclopsSlices(2) :
          /\ s.op \in Field /\ s.from \in Nat /\ s.width \in Nat \ {0} /\ s.at \in Nat
          /\ s.at + s.width <= 24
  BY DEF CyclopsSlices, PhaseSlices, LowSlices, OneBit, Slice, Field
<1>2. \A s, t \in CyclopsSlices(2) : Apart(s, t)
  BY DEF Apart, CyclopsSlices, PhaseSlices, LowSlices, OneBit, Slice
<1>3. Room(CyclopsSlices(2), 3, 2, 2)
  BY DEF Room, Ample, Bits, Enabling, CyclopsSlices, PhaseSlices, LowSlices, OneBit, Slice
<1>. QED
  BY <1>1, <1>2, <1>3 DEF Sliced

LEMMA Cyclops7Room == Sliced(Cyclops7Slices, 32) /\ Room(Cyclops7Slices, 4, 4, 2)
<1>1. \A s \in Cyclops7Slices :
          /\ s.op \in Field /\ s.from \in Nat /\ s.width \in Nat \ {0} /\ s.at \in Nat
          /\ s.at + s.width <= 32
  BY DEF Cyclops7Slices, PhaseSlices, LowSlices, OneBit, Slice, Field
<1>2. \A s, t \in Cyclops7Slices : Apart(s, t)
  BY DEF Apart, Cyclops7Slices, PhaseSlices, LowSlices, OneBit, Slice
<1>3. Room(Cyclops7Slices, 4, 4, 2)
  BY DEF Room, Ample, Bits, Enabling, Cyclops7Slices, PhaseSlices, LowSlices, OneBit, Slice
<1>. QED
  BY <1>1, <1>2, <1>3 DEF Sliced

LEMMA RadioRoom == Sliced(RadioSlices, 24) /\ Room(RadioSlices, 4, 7, -1)
<1>1. \A s \in RadioSlices :
          /\ s.op \in Field /\ s.from \in Nat /\ s.width \in Nat \ {0} /\ s.at \in Nat
          /\ s.at + s.width <= 24
  BY DEF RadioSlices, PhaseSlices, OneBit, Slice, Field
<1>2. \A s, t \in RadioSlices : Apart(s, t)
  BY DEF Apart, RadioSlices, PhaseSlices, OneBit, Slice
<1>3. Room(RadioSlices, 4, 7, -1)
  BY DEF Room, Ample, Bits, Enabling, RadioSlices, PhaseSlices, OneBit, Slice
<1>. QED
  BY <1>1, <1>2, <1>3 DEF Sliced

LEMMA TopspinRoom == Sliced(TopspinSlices, 24) /\ Room(TopspinSlices, 2, 1, 2)
<1>1. \A s \in TopspinSlices :
          /\ s.op \in Field /\ s.from \in Nat /\ s.width \in Nat \ {0} /\ s.at \in Nat
          /\ s.at + s.width <= 24
  BY DEF TopspinSlices, PhaseSlices, LowSlices, OneBit, Slice, Field
<1>2. \A s, t \in TopspinSlices : Apart(s, t)
  BY DEF Apart, TopspinSlices, PhaseSlices, LowSlices, OneBit, Slice
<1>3. Room(TopspinSlices, 2, 1, 2)
  BY DEF Room, Ample, Bits, Enabling, TopspinSlices, PhaseSlices, LowSlices, OneBit, Slice
<1>. QED
  BY <1>1, <1>2, <1>3 DEF Sliced

LEMMA ProgressionRoom == Sliced(ProgressionSlices, 24) /\ Room(ProgressionSlices, 2, 2, 2)
<1>1. \A s \in ProgressionSlices :
          /\ s.op \in Field /\ s.from \in Nat /\ s.width \in Nat \ {0} /\ s.at \in Nat
          /\ s.at + s.width <= 24
  BY DEF ProgressionSlices, PhaseSlices, LowSlices, OneBit, Slice, Field
<1>2. \A s, t \in ProgressionSlices : Apart(s, t)
  BY DEF Apart, ProgressionSlices, PhaseSlices, LowSlices, OneBit, Slice
<1>3. Room(ProgressionSlices, 2, 2, 2)
  BY DEF Room, Ample, Bits, Enabling, ProgressionSlices, PhaseSlices, LowSlices, OneBit, Slice
<1>. QED
  BY <1>1, <1>2, <1>3 DEF Sliced

LEMMA Pbdds15Room ==
    /\ Sliced(PbddsSlices("pbdds15", 2), 24)
    /\ Room(PbddsSlices("pbdds15", 2), 4, 4, 2)
<1>1. \A s \in PbddsSlices("pbdds15", 2) :
          /\ s.op \in Field /\ s.from \in Nat /\ s.width \in Nat \ {0} /\ s.at \in Nat
          /\ s.at + s.width <= 24
  BY DEF PbddsSlices, LowSlices, OneBit, Slice, Field
<1>2. \A s, t \in PbddsSlices("pbdds15", 2) : Apart(s, t)
  BY DEF Apart, PbddsSlices, LowSlices, OneBit, Slice
<1>3. Room(PbddsSlices("pbdds15", 2), 4, 4, 2)
  BY DEF Room, Ample, Bits, Enabling, PbddsSlices, LowSlices, OneBit, Slice
<1>. QED
  BY <1>1, <1>2, <1>3 DEF Sliced

LEMMA Pbdds16Room ==
    /\ Sliced(PbddsSlices("pbdds16", 2), 24)
    /\ Room(PbddsSlices("pbdds16", 2), 10, 3, 2)
<1>1. \A s \in PbddsSlices("pbdds16", 2) :
          /\ s.op \in Field /\ s.from \in Nat /\ s.width \in Nat \ {0} /\ s.at \in Nat
          /\ s.at + s.width <= 24
  BY DEF PbddsSlices, LowSlices, OneBit, Slice, Field
<1>2. \A s, t \in PbddsSlices("pbdds16", 2) : Apart(s, t)
  BY DEF Apart, PbddsSlices, LowSlices, OneBit, Slice
<1>3. Room(PbddsSlices("pbdds16", 2), 10, 3, 2)
  BY DEF Room, Ample, Bits, Enabling, PbddsSlices, LowSlices, OneBit, Slice
<1>. QED
  BY <1>1, <1>2, <1>3 DEF Sliced

LEMMA Dds2Room == Sliced(Dds2Slices("dds2"), 96) /\ Room(Dds2Slices("dds2"), 4, 3, 2)
<1>1. \A s \in Dds2Slices("dds2") :
          /\ s.op \in Field /\ s.from \in Nat /\ s.width \in Nat \ {0} /\ s.at \in Nat
          /\ s.at + s.width <= 96
  BY DEF Dds2Slices, OneBit, Slice, Field
<1>2. \A s, t \in Dds2Slices("dds2") : Apart(s, t)
  BY DEF Apart, Dds2Slices, OneBit, Slice
<1>3. Room(Dds2Slices("dds2"), 4, 3, 2)
  BY DEF Room, Ample, Bits, Enabling, Dds2Slices, OneBit, Slice
<1>. QED
  BY <1>1, <1>2, <1>3 DEF Sliced

LEMMA Dds2WideRoom ==
    /\ Sliced(Dds2Slices("dds2wide"), 96)
    /\ Room(Dds2Slices("dds2wide"), 10, 7, 10)
<1>1. \A s \in Dds2Slices("dds2wide") :
          /\ s.op \in Field /\ s.from \in Nat /\ s.width \in Nat \ {0} /\ s.at \in Nat
          /\ s.at + s.width <= 96
  BY DEF Dds2Slices, OneBit, Slice, Field
<1>2. \A s, t \in Dds2Slices("dds2wide") : Apart(s, t)
  BY DEF Apart, Dds2Slices, OneBit, Slice
<1>3. Room(Dds2Slices("dds2wide"), 10, 7, 10)
  <2>1. Ample(Dds2Slices("dds2wide"), "tx", 7)
    <3>1. /\ Slice("tx", 0, 4, 28) \in Dds2Slices("dds2wide")
          /\ Slice("tx", 4, 3, 32) \in Dds2Slices("dds2wide")
      BY DEF Dds2Slices
    <3>. QED
      BY <3>1 DEF Ample, Slice
  <2>2. Ample(Dds2Slices("dds2wide"), "shape", 3)
    <3>1. /\ Slice("shape", 0, 2, 62) \in Dds2Slices("dds2wide")
          /\ Slice("shape", 2, 1, 64) \in Dds2Slices("dds2wide")
      BY DEF Dds2Slices
    <3>. QED
      BY <3>1 DEF Ample, Slice
  <2>8. \A s \in Dds2Slices("dds2wide") : s.op \notin {"flags", "tx", "shape"} =>
            s.op # "rx" /\ Ample(Dds2Slices("dds2wide"), s.op, Bits(s.op, 10, 7, 10))
    BY DEF Ample, Bits, Enabling, Dds2Slices, OneBit, Slice
  <2>. QED
    BY <2>1, <2>2, <2>8 DEF Room, Bits, Enabling
<1>. QED
  BY <1>1, <1>2, <1>3 DEF Sliced

LEMMA Dds1Room == Sliced(Dds2Slices("dds1"), 96) /\ Room(Dds2Slices("dds1"), 10, 7, 10)
<1>1. \A s \in Dds2Slices("dds1") :
          /\ s.op \in Field /\ s.from \in Nat /\ s.width \in Nat \ {0} /\ s.at \in Nat
          /\ s.at + s.width <= 96
  BY DEF Dds2Slices, OneBit, Slice, Field
<1>2. \A s, t \in Dds2Slices("dds1") : Apart(s, t)
  BY DEF Apart, Dds2Slices, OneBit, Slice
<1>3. Room(Dds2Slices("dds1"), 10, 7, 10)
  <2>1. Ample(Dds2Slices("dds1"), "amp", 10)
    <3>1. /\ Slice("amp", 0, 9, 23) \in Dds2Slices("dds1")
          /\ Slice("amp", 9, 1, 32) \in Dds2Slices("dds1")
      BY DEF Dds2Slices
    <3>. QED
      BY <3>1 DEF Ample, Slice
  <2>8. \A s \in Dds2Slices("dds1") : s.op \notin {"flags", "amp"} =>
            s.op # "rx" /\ Ample(Dds2Slices("dds1"), s.op, Bits(s.op, 10, 7, 10))
    BY DEF Ample, Bits, Enabling, Dds2Slices, OneBit, Slice
  <2>. QED
    BY <2>1, <2>8 DEF Room, Bits, Enabling
<1>. QED
  BY <1>1, <1>2, <1>3 DEF Sliced

-----------------------------------------------------------------------------
(* Which board has which partition and which limits.                       *)

\* Boards whose words all selects fit that the library accepts.
RadioBoards == {"rp10_4", "rp10_8", "rp10_10", "rp12_6", "rp10_15", "rp10_16", "rp10_21",
                "rp12_16"}
DdsBoards == {"dds14_1", "dds14_3", "dds12_19"}
NarrowBoards == {"rp12_8", "rp10_19", "rpg"}
PlainBoards == {"esr", "esr908", "core4", "pcie", "sp16", "usbpb"}

RadioFits(c) ==
    /\ c.usb2 = FALSE /\ c.keeps \in 1 .. 32
    /\ Sliced(Packing(c.design), c.keeps) /\ Room(Packing(c.design), c.freq, c.tx, c.amp)
    /\ \A s \in Packing(c.design) : s.op \notin {"freq1", "tx1", "amp1"}
    /\ c.freq \in 1 .. 32 /\ c.tx \in 1 .. 32
    /\ c.noacq = FALSE => c.cos = 2 /\ c.sin = 2
    /\ c.noacq = TRUE => \A s \in Packing(c.design) : s.op \notin {"cos", "sin", "trig"}
    /\ c.cos \in {2, None} /\ c.sin \in {2, None}
    /\ c.amp \in {2, None}
    /\ c.shape = TRUE => c.amp = 2
    /\ c.shape = FALSE =>
          c.design = "radio" /\ \A s \in Packing(c.design) :
              s.op \notin {"amp", "shape", "shape1", "real", "imag", "swap"}
    /\ c.noacq \in BOOLEAN /\ c.shape \in BOOLEAN
    /\ c.design \in {"radio", "standard", "topspin", "progression", "pbdds15", "pbdds16",
                     "cyclops", "cyclops7"}

DdsFits(c) ==
    /\ c.usb2 = TRUE /\ c.keeps = 96
    /\ c.design \in {"dds2", "dds2wide", "dds1"}
    /\ Sliced(Packing(c.design), 96) /\ Room(Packing(c.design), c.dfreq, c.dphase, c.damp)
    /\ c.dfreq \in 1 .. 32 /\ c.dphase \in 1 .. 32 /\ c.damp \in 1 .. 32
    /\ \A s \in Packing(c.design) : s.op \notin {"cos", "sin", "trig", "real", "imag", "swap"}
    /\ c.design # "dds1" =>
          /\ c.second = TRUE /\ c.noacq = FALSE /\ c.freq = None /\ c.amp = None
    /\ c.design = "dds1" => \A s \in Packing(c.design) :
                                s.op \notin {"freq1", "tx1", "amp1", "shape1"}
    /\ c.cyclops = FALSE

PlainFits(c) ==
    /\ c.design \in {"none", "4C", "sp16"}
    /\ c.freq = None /\ c.shape = FALSE

LEMMA RadioBoardsFit == \A b \in RadioBoards : RadioFits(Caps[b])
<1>1. RadioFits(Caps.rp10_4)
  <2>1. Caps.rp10_4 = Radio
    BY DEF Caps
  <2>2. Packing("radio") = RadioSlices
    BY DEF Packing
  <2>3. \A s \in RadioSlices :
            s.op \notin {"freq1", "tx1", "amp1", "amp", "shape", "shape1", "real", "imag", "swap"}
    BY DEF RadioSlices, PhaseSlices, OneBit, Slice
  <2>. QED
    BY <2>1, <2>2, <2>3, RadioRoom DEF RadioFits, Plain, Radio, None
<1>2. RadioFits(Caps.rp10_8)
  <2>1. Caps.rp10_8 = Shaped
    BY DEF Caps
  <2>2. Packing("standard") = Standard(4, 4)
    BY DEF Packing
  <2>3. \A s \in Standard(4, 4) : s.op \notin {"freq1", "tx1", "amp1"}
    BY DEF Standard, PhaseSlices, LowSlices, OneBit, Slice
  <2>. QED
    BY <2>1, <2>2, <2>3, StandardRoom DEF RadioFits, Plain, Radio, Shaped, None
<1>3. RadioFits(Caps.rp10_10)
  <2>1. Caps.rp10_10 = [Shaped EXCEPT !.design = "topspin", !.freq = 2, !.tx = 1, !.ff = TRUE]
    BY DEF Caps
  <2>2. Packing("topspin") = TopspinSlices
    BY DEF Packing
  <2>3. \A s \in TopspinSlices : s.op \notin {"freq1", "tx1", "amp1"}
    BY DEF TopspinSlices, PhaseSlices, LowSlices, OneBit, Slice
  <2>. QED
    BY <2>1, <2>2, <2>3, TopspinRoom DEF RadioFits, Plain, Radio, Shaped, None
<1>4. RadioFits(Caps.rp12_6)
  <2>1. Caps.rp12_6 = [Shaped EXCEPT !.design = "progression", !.freq = 2, !.tx = 2,
                                   !.ff = TRUE]
    BY DEF Caps
  <2>2. Packing("progression") = ProgressionSlices
    BY DEF Packing
  <2>3. \A s \in ProgressionSlices : s.op \notin {"freq1", "tx1", "amp1"}
    BY DEF ProgressionSlices, PhaseSlices, LowSlices, OneBit, Slice
  <2>. QED
    BY <2>1, <2>2, <2>3, ProgressionRoom DEF RadioFits, Plain, Radio, Shaped, None
<1>5. RadioFits(Caps.rp10_15)
  <2>1. Caps.rp10_15 = [NoAcq EXCEPT !.design = "pbdds15"]
    BY DEF Caps
  <2>2. Packing("pbdds15") = PbddsSlices("pbdds15", 2)
    BY DEF Packing
  <2>3. \A s \in PbddsSlices("pbdds15", 2) :
            s.op \notin {"freq1", "tx1", "amp1", "cos", "sin", "trig"}
    BY DEF PbddsSlices, LowSlices, OneBit, Slice
  <2>. QED
    BY <2>1, <2>2, <2>3, Pbdds15Room DEF RadioFits, Plain, Radio, Shaped, NoAcq, None
<1>6. RadioFits(Caps.rp10_16)
  <2>1. Caps.rp10_16 = [NoAcq EXCEPT !.design = "pbdds16", !.freq = 10, !.tx = 3]
    BY DEF Caps
  <2>2. Packing("pbdds16") = PbddsSlices("pbdds16", 2)
    BY DEF Packing
  <2>3. \A s \in PbddsSlices("pbdds16", 2) :
            s.op \notin {"freq1", "tx1", "amp1", "cos", "sin", "trig"}
    BY DEF PbddsSlices, LowSlices, OneBit, Slice
  <2>. QED
    BY <2>1, <2>2, <2>3, Pbdds16Room DEF RadioFits, Plain, Radio, Shaped, NoAcq, None
<1>7. RadioFits(Caps.rp10_21)
  <2>1. Caps.rp10_21 = Cyclops
    BY DEF Caps
  <2>2. Packing("cyclops") = CyclopsSlices(2)
    BY DEF Packing
  <2>3. \A s \in CyclopsSlices(2) : s.op \notin {"freq1", "tx1", "amp1"}
    BY DEF CyclopsSlices, PhaseSlices, LowSlices, OneBit, Slice
  <2>. QED
    BY <2>1, <2>2, <2>3, CyclopsRoom DEF RadioFits, Plain, Radio, Shaped, Cyclops, None
<1>8. RadioFits(Caps.rp12_16)
  <2>1. Caps.rp12_16 = [Cyclops EXCEPT !.design = "cyclops7", !.freq = 4, !.tx = 4,
                                    !.accepts = 32, !.keeps = 32]
    BY DEF Caps
  <2>2. Packing("cyclops7") = Cyclops7Slices
    BY DEF Packing
  <2>3. \A s \in Cyclops7Slices : s.op \notin {"freq1", "tx1", "amp1"}
    BY DEF Cyclops7Slices, PhaseSlices, LowSlices, OneBit, Slice
  <2>. QED
    BY <2>1, <2>2, <2>3, Cyclops7Room DEF RadioFits, Plain, Radio, Shaped, Cyclops, None
<1>. QED
  BY <1>1, <1>2, <1>3, <1>4, <1>5, <1>6, <1>7, <1>8 DEF RadioBoards

LEMMA DdsBoardsFit == \A b \in DdsBoards : DdsFits(Caps[b])
<1>1. DdsFits(Caps.dds14_1)
  <2>1. Caps.dds14_1 = Dds2
    BY DEF Caps
  <2>2. Packing("dds2") = Dds2Slices("dds2")
    BY DEF Packing
  <2>3. \A s \in Dds2Slices("dds2") : s.op \notin {"cos", "sin", "trig", "real", "imag", "swap"}
    BY DEF Dds2Slices, OneBit, Slice
  <2>. QED
    BY <2>1, <2>2, <2>3, Dds2Room DEF DdsFits, Plain, Usb2, Dds2, None
<1>2. DdsFits(Caps.dds14_3)
  <2>1. Caps.dds14_3 = [Dds2 EXCEPT !.design = "dds2wide", !.dfreq = 10, !.dphase = 7,
                                    !.damp = 10]
    BY DEF Caps
  <2>2. Packing("dds2wide") = Dds2Slices("dds2wide")
    BY DEF Packing
  <2>3. \A s \in Dds2Slices("dds2wide") :
            s.op \notin {"cos", "sin", "trig", "real", "imag", "swap"}
    BY DEF Dds2Slices, OneBit, Slice
  <2>. QED
    BY <2>1, <2>2, <2>3, Dds2WideRoom DEF DdsFits, Plain, Usb2, Dds2, None
<1>3. DdsFits(Caps.dds12_19)
  <2>1. Caps.dds12_19 = [Dds2 EXCEPT !.design = "dds1", !.dfreq = 10, !.dphase = 7,
                              !.damp = 10, !.freq = 5, !.cos = 2, !.sin = 2, !.tx = 5, !.amp = 2,
                              !.noacq = TRUE, !.second = FALSE]
    BY DEF Caps
  <2>2. Packing("dds1") = Dds2Slices("dds1")
    BY DEF Packing
  <2>3. \A s \in Dds2Slices("dds1") :
            s.op \notin {"cos", "sin", "trig", "real", "imag", "swap",
                        "freq1", "tx1", "amp1", "shape1"}
    BY DEF Dds2Slices, OneBit, Slice
  <2>. QED
    BY <2>1, <2>2, <2>3, Dds1Room DEF DdsFits, Plain, Usb2, Dds2, None
<1>. QED
  BY <1>1, <1>2, <1>3 DEF DdsBoards

LEMMA PlainBoardsFit == \A b \in PlainBoards : PlainFits(Caps[b])
<1>1. PlainFits(Caps.esr)
  <2>1. Caps.esr = Plain
    BY DEF Caps
  <2>. QED
    BY <2>1 DEF PlainFits, Plain, None
<1>2. PlainFits(Caps.esr908)
  <2>1. Caps.esr908 = [Plain EXCEPT !.keeps = 8, !.ff = TRUE]
    BY DEF Caps
  <2>. QED
    BY <2>1 DEF PlainFits, Plain, None
<1>3. PlainFits(Caps.core4)
  <2>1. Caps.core4 = [Plain EXCEPT !.design = "4C"]
    BY DEF Caps
  <2>. QED
    BY <2>1 DEF PlainFits, Plain, None
<1>4. PlainFits(Caps.pcie)
  <2>1. Caps.pcie = [Plain EXCEPT !.ff = TRUE]
    BY DEF Caps
  <2>. QED
    BY <2>1 DEF PlainFits, Plain, None
<1>5. PlainFits(Caps.sp16)
  <2>1. Caps.sp16 = [Plain EXCEPT !.design = "sp16"]
    BY DEF Caps
  <2>. QED
    BY <2>1 DEF PlainFits, Plain, None
<1>6. PlainFits(Caps.usbpb)
  <2>1. Caps.usbpb = Usb2
    BY DEF Caps
  <2>. QED
    BY <2>1 DEF PlainFits, Plain, Usb2, None
<1>. QED
  BY <1>1, <1>2, <1>3, <1>4, <1>5, <1>6 DEF PlainBoards

LEMMA PlaceBits ==
    ASSUME NEW P, NEW op, NEW i
    PROVE  i \in Place(op, P) <=> \E s \in P : s.op = op /\ i \in s.from .. s.from + s.width - 1
BY DEF Place

\* A bit that an accepted operand may have has a place.
LEMMA Placed ==
    ASSUME NEW P, NEW n, Sliced(P, n), NEW op, NEW bits \in Int, Ample(P, op, bits),
           NEW v, v \subseteq 0 .. bits - 1
    PROVE  v \subseteq Place(op, P)
<1>1. ASSUME NEW i \in v PROVE i \in Place(op, P)
  <2>1. PICK t \in P : t.op = op /\ t.from <= i /\ i < t.from + t.width
    BY <1>1 DEF Ample
  <2>2. t.from \in Nat /\ t.width \in Nat /\ i \in Int
    BY <1>1 DEF Sliced
  <2>. QED
    BY <2>1, <2>2, PlaceBits
<1>. QED
  BY <1>1

LEMMA Cardinalities == Cardinality(0 .. 1) = 2 /\ Cardinality(0 .. 3) = 4
<1>1. \A k \in Int : Cardinality(0 .. k) = IF 0 > k THEN 0 ELSE k - 0 + 1
  BY FS_Interval, 0 \in Int
<1>2. Cardinality(0 .. 1) = (IF 0 > 1 THEN 0 ELSE 1 - 0 + 1)
  BY <1>1, 1 \in Int, Zenon
<1>3. Cardinality(0 .. 3) = (IF 0 > 3 THEN 0 ELSE 3 - 0 + 1)
  BY <1>1, 3 \in Int, Zenon
<1>. QED
  BY <1>2, <1>3

\* The select that more registers go with than the word can name.
LEMMA NarrowBoardsAre ==
    ASSUME board \in NarrowBoards
    PROVE  Narrow /\ board # "amcc"
<1>1. CASE board = "rp12_8"
  <2>1. Board = [Shaped EXCEPT !.freq = 5, !.tx = 5, !.ff = TRUE]
    BY <1>1 DEF Board, Caps
  <2>2. Board.design = "standard" /\ Board.freq = 5 /\ Board.usb2 = FALSE
    BY <2>1 DEF Shaped, Radio, Plain
  <2>3. Packing("standard") = Standard(4, 4)
    BY DEF Packing
  <2>4. /\ Slice("freq", 0, 4, 11) \in Standard(4, 4)
        /\ \A s \in Standard(4, 4) : s.op = "freq" => s.from = 0 /\ s.width = 4
    BY DEF Standard, PhaseSlices, LowSlices, OneBit, Slice
  <2>5. Packed("freq") = 0 .. 3
    BY <2>2, <2>3, <2>4 DEF Packed, Place, Slice
  <2>6. Cardinality(0 .. 3) = 4
    BY Cardinalities
  <2>7. "freq" \in DOMAIN Limits /\ Limits["freq"] = 5
    BY <2>2 DEF Limits
  <2>. QED
    BY <1>1, <2>2, <2>5, <2>6, <2>7 DEF Narrow
<1>2. CASE board = "rp10_19"
  <2>1. Board = [NoAcq EXCEPT !.design = "pbdds19", !.freq = 10, !.tx = 3, !.amp = 10,
                              !.accepts = 32, !.keeps = 32]
    BY <1>2 DEF Board, Caps
  <2>2. Board.design = "pbdds19" /\ Board.tx = 3 /\ Board.usb2 = FALSE
    BY <2>1 DEF NoAcq, Shaped, Radio, Plain
  <2>3. Packing("pbdds19") = PbddsSlices("pbdds19", 2)
    BY DEF Packing
  <2>4. /\ Slice("tx", 0, 2, 8) \in PbddsSlices("pbdds19", 2)
        /\ \A s \in PbddsSlices("pbdds19", 2) : s.op = "tx" => s.from = 0 /\ s.width = 2
    BY DEF PbddsSlices, OneBit, Slice
  <2>5. Packed("tx") = 0 .. 1
    BY <2>2, <2>3, <2>4 DEF Packed, Place, Slice
  <2>6. Cardinality(0 .. 1) = 2
    BY Cardinalities
  <2>7. "tx" \in DOMAIN Limits /\ Limits["tx"] = 3
    BY <2>2 DEF Limits
  <2>. QED
    BY <1>2, <2>2, <2>5, <2>6, <2>7 DEF Narrow
<1>3. CASE board = "rpg"
  <2>1. Board = [Shaped EXCEPT !.design = "rpg", !.tx = 7, !.cyclops = TRUE]
    BY <1>3 DEF Board, Caps
  <2>2. Board.design = "rpg" /\ Board.tx = 7 /\ Board.usb2 = FALSE
    BY <2>1 DEF Shaped, Radio, Plain
  <2>3. Packing("rpg") = CyclopsSlices(2)
    BY DEF Packing
  <2>4. /\ Slice("tx", 0, 2, 18) \in CyclopsSlices(2)
        /\ \A s \in CyclopsSlices(2) : s.op = "tx" => s.from = 0 /\ s.width = 2
    BY DEF CyclopsSlices, PhaseSlices, LowSlices, OneBit, Slice
  <2>5. Packed("tx") = 0 .. 1
    BY <2>2, <2>3, <2>4 DEF Packed, Place, Slice
  <2>6. Cardinality(0 .. 1) = 2
    BY Cardinalities
  <2>7. "tx" \in DOMAIN Limits /\ Limits["tx"] = 7
    BY <2>2 DEF Limits
  <2>. QED
    BY <1>3, <2>2, <2>5, <2>6, <2>7 DEF Narrow
<1>. QED
  BY <1>1, <1>2, <1>3 DEF NarrowBoards

-----------------------------------------------------------------------------
(* The word: what is packed into it is what the operands mean.             *)

Carried(P, ops, word) ==
    \A s \in P : \A k \in 0 .. s.width - 1 : (s.at + k \in word) <=> (s.from + k \in ops[s.op])

LEMMA PackCarries ==
    ASSUME NEW P, NEW n \in Nat, Sliced(P, n), NEW ops
    PROVE  /\ Carried(P, ops, Pack(P, ops))
           /\ \A s \in P : \A k \in 0 .. s.width - 1 : s.at + k \in 0 .. n - 1
<1>. DEFINE bits(s) == {s.at + k : k \in {j \in 0 .. s.width - 1 : s.from + j \in ops[s.op]}}
<1>0. Pack(P, ops) = UNION {bits(s) : s \in P}
  BY DEF Pack
<1>1. ASSUME NEW s \in P, NEW k \in 0 .. s.width - 1, s.from + k \in ops[s.op]
      PROVE  s.at + k \in Pack(P, ops)
  BY <1>0, <1>1
<1>2. ASSUME NEW s \in P, NEW k \in 0 .. s.width - 1, s.at + k \in Pack(P, ops)
      PROVE  s.from + k \in ops[s.op]
  <2>1. PICK t \in P : s.at + k \in bits(t)
    BY <1>0, <1>2
  <2>2. PICK j \in 0 .. t.width - 1 : s.at + k = t.at + j /\ t.from + j \in ops[t.op]
    BY <2>1
  <2>3. /\ s.at \in Nat /\ t.at \in Nat /\ s.width \in Nat /\ t.width \in Nat
        /\ s.from \in Nat /\ t.from \in Nat
        /\ Apart(s, t)
    BY DEF Sliced
  <2>4. s.op = t.op /\ s.from = t.from /\ s.at = t.at
    BY <2>2, <2>3 DEF Apart
  <2>5. k = j
    BY <2>2, <2>3, <2>4
  <2>. QED
    BY <2>2, <2>4, <2>5
<1>3. ASSUME NEW s \in P, NEW k \in 0 .. s.width - 1 PROVE s.at + k \in 0 .. n - 1
  <2>1. s.at \in Nat /\ s.width \in Nat /\ s.at + s.width <= n
    BY DEF Sliced
  <2>. QED
    BY <2>1
<1>. QED
  BY <1>1, <1>2, <1>3 DEF Carried

\* What is left of the word where the board keeps n bits of it.
LEMMA CutCarries ==
    ASSUME NEW P, NEW n \in Nat, Sliced(P, n), NEW ops, NEW word, Carried(P, ops, word),
           NEW kept, \A i \in 0 .. n - 1 : i \in kept <=> i \in word
    PROVE  Carried(P, ops, kept)
<1>1. \A s \in P : \A k \in 0 .. s.width - 1 : s.at + k \in 0 .. n - 1
  BY PackCarries
<1>. QED
  BY <1>1 DEF Carried

\* Operands that no slice is for do not matter.
LEMMA CarriedAlike ==
    ASSUME NEW P, NEW ops, NEW meant, NEW word, Carried(P, ops, word),
           \A s \in P : ops[s.op] = meant[s.op]
    PROVE  Carried(P, meant, word)
BY DEF Carried

-----------------------------------------------------------------------------
(* The functions that pack a word.                                         *)

\* The enabling operands are 0 or 1, and a shape select is one of 8.
Encodable(o) ==
    /\ o \in [Field -> SUBSET (0 .. 31)]
    /\ \A f \in Enabling : o[f] \subseteq {0}
    /\ o["shape"] \subseteq 0 .. 2 /\ o["shape1"] \subseteq 0 .. 2

\* The operands that have slices do not exceed the limits.
Chosen(P, ops, freq, tx, amp) ==
    \A s \in P : s.op # "flags" => ops[s.op] \subseteq 0 .. Bits(s.op, freq, tx, amp) - 1

AllPlaced(P, ops) == \A s \in P : s.op # "flags" => ops[s.op] \subseteq Place(s.op, P)

LEMMA ChosenPlaced ==
    ASSUME NEW P, NEW n, Sliced(P, n), NEW freq \in Int, NEW tx \in Int, NEW amp \in Int,
           Room(P, freq, tx, amp), NEW ops, Chosen(P, ops, freq, tx, amp)
    PROVE  AllPlaced(P, ops)
<1>. SUFFICES ASSUME NEW s \in P, s.op # "flags"
              PROVE  ops[s.op] \subseteq Place(s.op, P)
  BY DEF AllPlaced
<1>1. Bits(s.op, freq, tx, amp) \in Int
  BY DEF Bits
<1>2. Ample(P, s.op, Bits(s.op, freq, tx, amp))
  BY DEF Room
<1>3. ops[s.op] \subseteq 0 .. Bits(s.op, freq, tx, amp) - 1
  BY DEF Chosen
<1>. QED
  BY <1>1, <1>2, <1>3, Placed

LEMMA PbonlyWord ==
    ASSUME ~Board.usb2, Board.design # "sp16", NEW flags, NEW inst, NEW data, NEW length,
           PbInstPbonly64(flags, inst, data, length).put
    PROVE  PbInstPbonly64(flags, inst, data, length).word =
               (flags \cap (0 .. Board.keeps - 1)) \cap (0 .. 31)
<1>. DEFINE r == PbInstPbonly64(flags, inst, data, length)
            count == Counted(inst, data)
            d == FixFF(RoundUint(Rounded(length, 3)))
<1>1. r = Refuse(-1) \/ r = Refuse(-91) \/ r = PbInstDirect(flags, inst, count, d)
  BY DEF PbInstPbonly64
<1>2. Refuse(-1).put = FALSE /\ Refuse(-91).put = FALSE
  BY DEF Refuse
<1>3. r.put
  OBVIOUS
<1>. HIDE DEF r, count, d
<1>4. r = PbInstDirect(flags, inst, count, d)
  BY <1>1, <1>2, <1>3
<1>. QED
  BY <1>2, <1>3, <1>4 DEF r, PbInstDirect

LEMMA RadioFacts ==
    ASSUME board \in RadioBoards
    PROVE  RadioFits(Board)
BY RadioBoardsFit DEF Board

LEMMA RadioWord ==
    ASSUME board \in RadioBoards, NEW ops, NEW inst, NEW data, NEW length,
           PbInstPbonly64(Pack(Packing(Board.design), ops), inst, data, length).put
    PROVE  Carried(Packing(Board.design), ops,
                   PbInstPbonly64(Pack(Packing(Board.design), ops), inst, data, length).word)
<1>. DEFINE P == Packing(Board.design)
            word == Pack(P, ops)
            r == PbInstPbonly64(word, inst, data, length)
<1>1. /\ ~Board.usb2 /\ Board.design # "sp16" /\ Board.keeps \in 1 .. 32
      /\ Sliced(P, Board.keeps)
  BY RadioFacts DEF RadioFits
<1>2. r.word = (word \cap (0 .. Board.keeps - 1)) \cap (0 .. 31)
  BY <1>1, PbonlyWord
<1>. HIDE DEF P, word
<1>. HIDE DEF r
<1>3. \A i \in 0 .. Board.keeps - 1 : i \in r.word <=> i \in word
  BY <1>1, <1>2
<1>4. Carried(P, ops, word)
  BY <1>1, PackCarries DEF word
<1>5. Carried(P, ops, r.word)
  BY <1>1, <1>3, <1>4, CutCarries
<1>. QED
  BY <1>5 DEF r, word, P

\* What a radio shape function that was not refused sends.
LEMMA ShapePut ==
    ASSUME board \in RadioBoards, NEW o, NEW inst, NEW data, NEW length,
           PbInstRadioShape(o, inst, data, length).put
    PROVE  /\ ~ShapeRefused(o)
           /\ Carried(Packing(Board.design), NoCyclops(o),
                      PbInstRadioShape(o, inst, data, length).word)
<1>1. Board.design # "dds1" /\ Board.design # "rpg"
  BY RadioFacts DEF RadioFits
<1>2. Refuse(-1).put = FALSE
  BY DEF Refuse
<1>3. ~ShapeRefused(o)
  BY <1>1, <1>2 DEF PbInstRadioShape
<1>4. PbInstRadioShape(o, inst, data, length) =
          PbInstPbonly64(Pack(Packing(Board.design), NoCyclops(o)), inst, data, length)
  BY <1>1, <1>3 DEF PbInstRadioShape
<1>. QED
  BY <1>3, <1>4, RadioWord

LEMMA CyclopsPut ==
    ASSUME board \in RadioBoards, NEW o, NEW inst, NEW data, NEW length,
           PbInstRadioShapeCyclops(o, inst, data, length).put
    PROVE  /\ ~ShapeRefused(o)
           /\ Carried(Packing(Board.design), o,
                      PbInstRadioShapeCyclops(o, inst, data, length).word)
<1>1. Board.design # "rpg"
  BY RadioFacts DEF RadioFits
<1>2. Refuse(-1).put = FALSE
  BY DEF Refuse
<1>3. ~ShapeRefused(o)
  BY <1>2 DEF PbInstRadioShapeCyclops
<1>4. Board.cyclops
  BY <1>2 DEF PbInstRadioShapeCyclops
<1>5. PbInstRadioShapeCyclops(o, inst, data, length) =
          PbInstPbonly64(Pack(Packing(Board.design), o), inst, data, length)
  BY <1>1, <1>3, <1>4 DEF PbInstRadioShapeCyclops
<1>. QED
  BY <1>3, <1>5, RadioWord

\* A select that is in the word was looked at, by pb_inst_radio or by the caller.
Checked(o) ==
    \A op \in {"freq", "cos", "sin", "tx", "amp"} :
        Packed(op) # {} => Within(o[op], Limits[op])

LEMMA PackedSlice ==
    ASSUME NEW n, Sliced(Packing(Board.design), n), NEW s \in Packing(Board.design)
    PROVE  Packed(s.op) # {}
<1>1. s.from \in Nat /\ s.width \in Nat \ {0}
  BY DEF Sliced
<1>2. s.from \in Place(s.op, Packing(Board.design))
  BY <1>1, PlaceBits
<1>. QED
  BY <1>2 DEF Packed

LEMMA CheckedChosen ==
    ASSUME board \in RadioBoards, NEW o, Encodable(o), Checked(o)
    PROVE  Chosen(Packing(Board.design), o, Board.freq, Board.tx, Board.amp)
<1>. DEFINE P == Packing(Board.design)
<1>1. RadioFits(Board)
  BY RadioFacts
<1>2. Sliced(P, Board.keeps) /\ Room(P, Board.freq, Board.tx, Board.amp)
  BY <1>1 DEF RadioFits
<1>. SUFFICES ASSUME NEW s \in P, s.op # "flags"
              PROVE  o[s.op] \subseteq 0 .. Bits(s.op, Board.freq, Board.tx, Board.amp) - 1
  BY DEF Chosen
<1>3. s.op \in Field /\ s.op # "rx" /\ Packed(s.op) # {}
  BY <1>2, PackedSlice DEF Sliced, Room
<1>7. s.op \notin {"freq1", "tx1", "amp1"}
  BY <1>1 DEF RadioFits
<1>. HIDE DEF P
<1>4. CASE s.op \in Enabling
  <2>1. Bits(s.op, Board.freq, Board.tx, Board.amp) = 1
    BY <1>4 DEF Bits
  <2>2. o[s.op] \subseteq {0}
    BY <1>4 DEF Encodable
  <2>. QED
    BY <2>1, <2>2
<1>5. CASE s.op \in {"shape", "shape1"}
  <2>1. Bits(s.op, Board.freq, Board.tx, Board.amp) = 3
    BY <1>5 DEF Bits, Enabling
  <2>2. o[s.op] \subseteq 0 .. 2
    BY <1>5 DEF Encodable
  <2>. QED
    BY <2>1, <2>2
<1>6. CASE s.op \in {"freq", "cos", "sin", "tx", "amp"}
  <2>1. Within(o[s.op], Limits[s.op])
    BY <1>3, <1>6 DEF Checked
  <2>2. Limits[s.op] = Bits(s.op, Board.freq, Board.tx, Board.amp) \/ Limits[s.op] = None
    BY <1>1, <1>6 DEF Limits, Bits, Enabling, RadioFits
  <2>3. Limits[s.op] # None
    BY <2>1 DEF Within, None
  <2>. QED
    BY <2>1, <2>2, <2>3 DEF Within
<1>. QED
  BY <1>3, <1>4, <1>5, <1>6, <1>7 DEF Field, Enabling

\* What a call of fn with operands o stands for.
MeantBy(fn, o) ==
    CASE fn = "pb_inst_radio" -> NoCyclops(Unshaped(o))
      [] fn = "pb_inst_radio_shape" -> NoCyclops(o)
      [] fn = "pb_inst_dds2" -> [o EXCEPT !["shape"] = {0, 1, 2}, !["shape1"] = {0, 1, 2}]
      [] fn = "pb_inst_tworf" -> [o EXCEPT !["txen"] = {0} \ @, !["rxen"] = {0} \ @]
      [] OTHER -> o

LEMMA OperandsMeant ==
    ASSUME NEW o, Encodable(o)
    PROVE  /\ Encodable(NoCyclops(o)) /\ Encodable(Unshaped(o))
           /\ \A f \in Field \ {"real", "imag", "swap"} : NoCyclops(o)[f] = o[f]
           /\ \A f \in Field \ {"shape", "shape1", "amp"} : Unshaped(o)[f] = o[f]
           /\ Unshaped(o)["amp"] = {}
<1>1. o \in [Field -> SUBSET (0 .. 31)]
  BY DEF Encodable
<1>2. /\ \A f \in Field \ {"real", "imag", "swap"} : NoCyclops(o)[f] = o[f]
      /\ NoCyclops(o)["real"] = {0} /\ NoCyclops(o)["imag"] = {0} /\ NoCyclops(o)["swap"] = {}
      /\ NoCyclops(o) \in [Field -> SUBSET (0 .. 31)]
  BY <1>1 DEF NoCyclops, Field
<1>3. /\ \A f \in Field \ {"shape", "shape1", "amp"} : Unshaped(o)[f] = o[f]
      /\ Unshaped(o)["shape"] = {0, 1, 2} /\ Unshaped(o)["shape1"] = {0, 1, 2}
      /\ Unshaped(o)["amp"] = {}
      /\ Unshaped(o) \in [Field -> SUBSET (0 .. 31)]
  BY <1>1 DEF Unshaped, Field
<1>4. {0, 1, 2} \subseteq 0 .. 2 /\ Enabling \subseteq Field
  BY DEF Enabling, Field
<1>5. Encodable(NoCyclops(o))
  <2>1. ASSUME NEW f \in Enabling PROVE NoCyclops(o)[f] \subseteq {0}
    BY <1>2, <1>4 DEF Encodable
  <2>2. NoCyclops(o)["shape"] = o["shape"] /\ NoCyclops(o)["shape1"] = o["shape1"]
    BY <1>2 DEF Field
  <2>. QED
    BY <1>2, <2>1, <2>2 DEF Encodable
<1>6. Encodable(Unshaped(o))
  <2>1. ASSUME NEW f \in Enabling PROVE Unshaped(o)[f] \subseteq {0}
    <3>1. f \in Field \ {"shape", "shape1", "amp"}
      BY DEF Enabling, Field
    <3>. QED
      BY <1>3, <3>1 DEF Encodable
  <2>. QED
    BY <1>3, <1>4, <2>1 DEF Encodable
<1>. QED
  BY <1>2, <1>3, <1>5, <1>6

LEMMA RadioPlaced ==
    ASSUME board \in RadioBoards, NEW o, Encodable(o), Checked(o)
    PROVE  AllPlaced(Packing(Board.design), o)
<1>1. /\ Sliced(Packing(Board.design), Board.keeps)
      /\ Room(Packing(Board.design), Board.freq, Board.tx, Board.amp)
      /\ Board.freq \in Int /\ Board.tx \in Int /\ Board.amp \in Int
  BY RadioFacts DEF RadioFits, None
<1>. QED
  BY <1>1, CheckedChosen, ChosenPlaced

\* pb_inst_radio looks at all the selects that it does not set itself.
LEMMA RadioCarried ==
    ASSUME board \in RadioBoards, NEW o, Encodable(o), NEW inst, NEW data, NEW length,
           PbInstRadio(o, inst, data, length).put
    PROVE  /\ Carried(Packing(Board.design), NoCyclops(Unshaped(o)),
                      PbInstRadio(o, inst, data, length).word)
           /\ AllPlaced(Packing(Board.design), NoCyclops(Unshaped(o)))
<1>. DEFINE P == Packing(Board.design)
            meant == NoCyclops(Unshaped(o))
<1>1. RadioFits(Board)
  BY RadioFacts
<1>2. Refuse(-1).put = FALSE
  BY DEF Refuse
<1>3. /\ Board.design # "dds1"
      /\ Within(o["freq"], Board.freq) /\ Within(o["tx"], Board.tx)
      /\ ~Board.noacq => Within(o["cos"], Board.cos) /\ Within(o["sin"], Board.sin)
      /\ PbInstRadio(o, inst, data, length) =
             IF Board.shape THEN PbInstRadioShape(Unshaped(o), inst, data, length)
             ELSE PbInstPbonly64(Pack(RadioSlices, o), inst, data, length)
  BY <1>1, <1>2 DEF PbInstRadio, RadioFits
<1>4. /\ Encodable(meant) /\ meant["amp"] = {}
      /\ \A f \in {"freq", "tx", "cos", "sin"} : meant[f] = o[f]
      /\ \A f \in Field \ {"amp", "shape", "shape1", "real", "imag", "swap"} : meant[f] = o[f]
  BY OperandsMeant DEF Field
<1>5. Carried(P, meant, PbInstRadio(o, inst, data, length).word)
  <2>1. CASE Board.shape
    <3>1. PbInstRadio(o, inst, data, length) = PbInstRadioShape(Unshaped(o), inst, data, length)
      BY <1>3, <2>1
    <3>. QED
      BY <3>1, ShapePut
  <2>2. CASE ~Board.shape
    <3>1. /\ P = RadioSlices
          /\ \A s \in P : s.op \notin {"amp", "shape", "shape1", "real", "imag", "swap"}
      BY <1>1, <2>2 DEF RadioFits, Packing
    <3>2. PbInstRadio(o, inst, data, length) = PbInstPbonly64(Pack(P, o), inst, data, length)
      BY <1>3, <2>2, <3>1
    <3>3. Carried(P, o, PbInstRadio(o, inst, data, length).word)
      BY <3>2, RadioWord
    <3>4. \A s \in P : s.op \in Field
      BY <1>1 DEF RadioFits, Sliced
    <3>. HIDE DEF P, meant
    <3>5. \A s \in P : o[s.op] = meant[s.op]
      BY <1>4, <3>1, <3>4
    <3>. QED
      BY <3>3, <3>5, CarriedAlike
  <2>. QED
    BY <2>1, <2>2
<1>6. Checked(meant)
  <2>. SUFFICES ASSUME NEW op \in {"freq", "cos", "sin", "tx", "amp"}, Packed(op) # {}
                PROVE  Within(meant[op], Limits[op])
    BY DEF Checked
  <2>1. PICK s \in P : s.op = op
    BY DEF Packed, Place
  <2>. HIDE DEF P, meant
  <2>2. CASE op \in {"freq", "tx"}
    BY <1>3, <1>4, <2>2 DEF Limits
  <2>3. CASE op \in {"cos", "sin"}
    <3>1. ~Board.noacq
      BY <1>1, <2>1, <2>3 DEF RadioFits, P
    <3>. QED
      BY <1>3, <1>4, <2>3, <3>1 DEF Limits
  <2>4. CASE op = "amp"
    <3>1. Board.shape = TRUE
      BY <1>1, <2>1, <2>4 DEF RadioFits, P
    <3>2. Limits["amp"] = 2
      BY <1>1, <3>1 DEF RadioFits, Limits
    <3>. QED
      BY <1>4, <2>4, <3>2 DEF Within
  <2>. QED
    BY <2>2, <2>3, <2>4
<1>. HIDE DEF meant
<1>7. AllPlaced(P, meant)
  BY <1>4, <1>6, RadioPlaced
<1>. QED
  BY <1>5, <1>7 DEF meant

LEMMA RadioShapeCarried ==
    ASSUME board \in RadioBoards, NEW o, Encodable(o), Checked(o),
           NEW inst, NEW data, NEW length
    PROVE  /\ PbInstRadioShape(o, inst, data, length).put =>
                 /\ Carried(Packing(Board.design), NoCyclops(o),
                            PbInstRadioShape(o, inst, data, length).word)
                 /\ AllPlaced(Packing(Board.design), NoCyclops(o))
           /\ PbInstRadioShapeCyclops(o, inst, data, length).put =>
                 /\ Carried(Packing(Board.design), o,
                            PbInstRadioShapeCyclops(o, inst, data, length).word)
                 /\ AllPlaced(Packing(Board.design), o)
<1>1. Encodable(NoCyclops(o)) /\ Checked(NoCyclops(o))
  BY OperandsMeant DEF Checked, Field
<1>2. AllPlaced(Packing(Board.design), o) /\ AllPlaced(Packing(Board.design), NoCyclops(o))
  BY <1>1, RadioPlaced
<1>. QED
  BY <1>2, ShapePut, CyclopsPut

-----------------------------------------------------------------------------
(* Boards with DDS registers.                                              *)

LEMMA DdsFacts ==
    ASSUME board \in DdsBoards
    PROVE  DdsFits(Board)
BY DdsBoardsFit DEF Board

\* The word holds any part of the partition that was packed.
LEMMA DdsWord ==
    ASSUME board \in DdsBoards, NEW Q, Q \subseteq Packing(Board.design), NEW o, NEW inst,
           NEW data, NEW delay,
           PbInstDirect(Pack(Q, o), inst, data, delay).put
    PROVE  Carried(Q, o, PbInstDirect(Pack(Q, o), inst, data, delay).word)
<1>. DEFINE word == Pack(Q, o)
            r == PbInstDirect(word, inst, data, delay)
<1>1. Board.usb2 /\ Board.keeps = 96 /\ Sliced(Packing(Board.design), 96)
  BY DdsFacts DEF DdsFits
<1>2. Sliced(Q, 96)
  BY <1>1 DEF Sliced
<1>3. Carried(Q, o, word)
  BY <1>2, PackCarries
<1>. HIDE DEF word
<1>4. r.word = (word \cap (0 .. Board.keeps - 1)) \cap Bit
  BY <1>1 DEF PbInstDirect
<1>5. Board.keeps - 1 = 95
  BY <1>1
<1>6. \A i \in 0 .. 96 - 1 : i \in r.word <=> i \in word
  BY <1>4, <1>5 DEF Bit
<1>. HIDE DEF r
<1>7. Carried(Q, o, r.word)
  BY <1>2, <1>3, <1>6, CutCarries
<1>. QED
  BY <1>7 DEF r, word

LEMMA DdsPlaced ==
    ASSUME board \in DdsBoards, NEW o, Encodable(o), DdsInRange(o)
    PROVE  AllPlaced(Packing(Board.design), o)
<1>. DEFINE P == Packing(Board.design)
<1>1. DdsFits(Board)
  BY DdsFacts
<1>2. /\ Sliced(P, 96) /\ Room(P, Board.dfreq, Board.dphase, Board.damp)
      /\ Board.dfreq \in Int /\ Board.dphase \in Int /\ Board.damp \in Int
  BY <1>1 DEF DdsFits
<1>3. ASSUME NEW s \in P, s.op # "flags"
      PROVE  o[s.op] \subseteq 0 .. Bits(s.op, Board.dfreq, Board.dphase, Board.damp) - 1
  <2>1. s.op \in Field /\ s.op # "rx" /\ s.op \notin {"cos", "sin"}
    BY <1>1, <1>2, <1>3 DEF Sliced, Room, DdsFits
  <2>2. s.op \in {"freq1", "tx1", "amp1"} =>
            /\ SecondBits(Board.dfreq) = Board.dfreq /\ SecondBits(Board.dphase) = Board.dphase
            /\ SecondBits(Board.damp) = Board.damp
    BY <1>1 DEF DdsFits, SecondBits
  <2>. HIDE DEF P
  <2>3. CASE s.op \in Enabling
    <3>1. Bits(s.op, Board.dfreq, Board.dphase, Board.damp) = 1
      BY <2>3 DEF Bits
    <3>2. o[s.op] \subseteq {0}
      BY <2>3 DEF Encodable
    <3>. QED
      BY <3>1, <3>2
  <2>4. CASE s.op \in {"shape", "shape1"}
    <3>1. Bits(s.op, Board.dfreq, Board.dphase, Board.damp) = 3
      BY <2>4 DEF Bits, Enabling
    <3>2. o[s.op] \subseteq 0 .. 2
      BY <2>4 DEF Encodable
    <3>. QED
      BY <3>1, <3>2
  <2>5. CASE s.op \in {"freq", "tx", "amp", "freq1", "tx1", "amp1"}
    <3>1. Within(o[s.op], Bits(s.op, Board.dfreq, Board.dphase, Board.damp))
      BY <2>2, <2>5 DEF DdsInRange, Bits, Enabling
    <3>. QED
      BY <3>1 DEF Within
  <2>. QED
    BY <1>3, <2>1, <2>3, <2>4, <2>5 DEF Field, Enabling
<1>. QED
  BY <1>2, <1>3, ChosenPlaced DEF Chosen

\* Without shapes, on the slices that are left.
LEMMA Dds2Carried ==
    ASSUME board \in DdsBoards, NEW o, Encodable(o), NEW inst, NEW data, NEW length,
           PbInstDds2(o, inst, data, length).put
    PROVE  /\ Carried({s \in Packing(Board.design) : s.op \notin {"shape", "shape1"}}, o,
                      PbInstDds2(o, inst, data, length).word)
           /\ AllPlaced(Packing(Board.design), o)
<1>. DEFINE Q == {s \in Packing(Board.design) : s.op \notin {"shape", "shape1"}}
            delay == RoundUint(Rounded(length, 3))
<1>1. Refuse(-1).put = FALSE /\ Refuse(-91).put = FALSE /\ Refuse(0).put = FALSE
  BY DEF Refuse
<1>2. /\ DdsInRange(o)
      /\ PbInstDds2(o, inst, data, length) =
             PbInstDirect(Pack(Q, o), inst, Counted(inst, data), delay)
  BY <1>1 DEF PbInstDds2
<1>3. Q \subseteq Packing(Board.design)
  OBVIOUS
<1>. HIDE DEF Q
<1>4. Carried(Q, o, PbInstDds2(o, inst, data, length).word)
  BY <1>2, <1>3, DdsWord
<1>. QED
  BY <1>2, <1>4, DdsPlaced DEF Q

LEMMA Dds2ShapeCarried ==
    ASSUME board \in DdsBoards, NEW o, Encodable(o), NEW inst, NEW data, NEW length,
           PbInstDds2Shape(o, inst, data, length).put
    PROVE  /\ Carried(Packing(Board.design), o, PbInstDds2Shape(o, inst, data, length).word)
           /\ AllPlaced(Packing(Board.design), o)
<1>. DEFINE P == Packing(Board.design)
            delay == RoundInt(Rounded(length, 3))
<1>1. Refuse(-1).put = FALSE /\ Refuse(-91).put = FALSE
  BY DEF Refuse
<1>2. /\ DdsInRange(o)
      /\ PbInstDds2Shape(o, inst, data, length) =
             PbInstDirect(Pack(P, o), inst, Counted(inst, data), delay)
  BY <1>1 DEF PbInstDds2Shape
<1>3. P \subseteq P
  OBVIOUS
<1>4. Carried(P, o, PbInstDds2Shape(o, inst, data, length).word)
  BY <1>2, <1>3, DdsWord
<1>. QED
  BY <1>2, <1>4, DdsPlaced

-----------------------------------------------------------------------------
(* pb_inst_tworf, on the boards whose limits are estimates.                *)

\* Without a mask, operands that fit their places.
LEMMA ShiftPacks ==
    ASSUME NEW P, NEW n, Sliced(P, n), NEW ops,
           \A s \in P : s.from = 0 /\ ops[s.op] \subseteq 0 .. s.width - 1
    PROVE  Shift(P, ops) = Pack(P, ops)
<1>. DEFINE masked(s) == {s.at + k : k \in {j \in 0 .. s.width - 1 : s.from + j \in ops[s.op]}}
            shifted(s) == {s.at + k : k \in ops[s.op]}
<1>1. ASSUME NEW s \in P PROVE masked(s) = shifted(s)
  <2>1. s.from = 0 /\ s.width \in Nat /\ ops[s.op] \subseteq 0 .. s.width - 1
    BY DEF Sliced
  <2>2. {j \in 0 .. s.width - 1 : s.from + j \in ops[s.op]} = ops[s.op]
    BY <2>1
  <2>. QED
    BY <2>2
<1>2. Pack(P, ops) = UNION {masked(s) : s \in P} /\ Shift(P, ops) = UNION {shifted(s) : s \in P}
  BY DEF Shift, Pack
<1>. HIDE DEF masked, shifted
<1>. QED
  BY <1>1, <1>2

LEMMA RfSliced ==
    /\ Sliced(RfSlices, 24)
    /\ \A s \in RfSlices :
        /\ s.op \in {"freq", "tx", "rx", "txen", "rxen", "flags"} /\ s.from = 0
        /\ \A t \in RfSlices : s.op = t.op => s.width = t.width
    /\ \A s \in RfSlices : s.op \in {"txen", "rxen"} => s.width = 1
<1>1. \A s \in RfSlices : /\ s.op \in Field /\ s.from \in Nat /\ s.width \in Nat \ {0}
                          /\ s.at \in Nat /\ s.at + s.width <= 24
  BY DEF RfSlices, OneBit, Slice, Field
<1>2. \A s, t \in RfSlices : Apart(s, t)
  BY DEF Apart, RfSlices, OneBit, Slice
<1>3. \A s \in RfSlices :
        /\ s.op \in {"freq", "tx", "rx", "txen", "rxen", "flags"} /\ s.from = 0
        /\ \A t \in RfSlices : s.op = t.op => s.width = t.width
  BY DEF RfSlices, OneBit, Slice
<1>4. \A s \in RfSlices : s.op \in {"txen", "rxen"} => s.width = 1
  BY DEF RfSlices, OneBit, Slice
<1>. QED
  BY <1>1, <1>2, <1>3, <1>4 DEF Sliced

LEMMA TworfCarried ==
    ASSUME board = "amcc", NEW o, Encodable(o), NEW inst, NEW data, NEW length,
           \A op \in {"freq", "tx", "rx", "flags"} : o[op] \subseteq Packed(op),
           PbInstTworf(o, inst, data, length).put,
           NEW meant, meant = [o EXCEPT !["txen"] = {0} \ @, !["rxen"] = {0} \ @]
    PROVE  /\ Packing(Board.design) = RfSlices
           /\ Carried(RfSlices, meant, PbInstTworf(o, inst, data, length).word)
           /\ AllPlaced(RfSlices, meant)
<1>. DEFINE low(f) == IF o[f] = {} THEN {0} ELSE {}
            all == [o EXCEPT !["txen"] = low("txen"), !["rxen"] = low("rxen"),
                             !["flags"] = @ \cap (0 .. 23)]
            word == Shift(RfSlices, all) \cap (0 .. 31)
            r == PbInstTworf(o, inst, data, length)
<1>1. /\ Board = [Plain EXCEPT !.design = "rf", !.freq = 6, !.cos = 6, !.sin = 6, !.tx = 6]
  BY DEF Board, Caps
<1>2. ~Board.usb2 /\ Board.design = "rf" /\ Board.keeps = 24
  BY <1>1 DEF Plain
<1>3. Packing(Board.design) = RfSlices
  BY <1>2 DEF Packing
<1>4. /\ o \in [Field -> SUBSET (0 .. 31)] /\ o["txen"] \subseteq {0} /\ o["rxen"] \subseteq {0}
  BY DEF Encodable, Enabling
<1>5. ASSUME NEW s \in RfSlices, s.op \in {"freq", "tx", "rx", "flags"}
      PROVE  o[s.op] \subseteq 0 .. s.width - 1
  <2>1. ASSUME NEW i \in o[s.op] PROVE i \in 0 .. s.width - 1
    <3>1. i \in Place(s.op, RfSlices)
      BY <1>3, <1>5 DEF Packed
    <3>2. PICK t \in RfSlices : t.op = s.op /\ i \in t.from .. t.from + t.width - 1
      BY <3>1, PlaceBits
    <3>3. t.width = s.width /\ t.from = 0 /\ t.width \in Nat
      BY <3>2, RfSliced DEF Sliced
    <3>. QED
      BY <3>2, <3>3
  <2>. QED
    BY <2>1
<1>6. /\ meant["txen"] = {0} \ o["txen"] /\ meant["rxen"] = {0} \ o["rxen"]
      /\ \A f \in Field \ {"txen", "rxen"} : meant[f] = o[f]
  BY <1>4 DEF Field
<1>7. /\ all["txen"] = low("txen") /\ all["rxen"] = low("rxen")
      /\ all["flags"] = o["flags"] \cap (0 .. 23)
      /\ \A f \in Field \ {"txen", "rxen", "flags"} : all[f] = o[f]
  BY <1>4 DEF Field
<1>8. low("txen") = {0} \ o["txen"] /\ low("rxen") = {0} \ o["rxen"]
  BY <1>4
<1>. HIDE DEF low, all
<1>9. ASSUME NEW s \in RfSlices
      PROVE  all[s.op] = meant[s.op] /\ meant[s.op] \subseteq 0 .. s.width - 1
  <2>1. s.op \in {"freq", "tx", "rx", "txen", "rxen", "flags"} /\ s.width \in Nat
    BY RfSliced DEF Sliced
  <2>2. CASE s.op \in {"txen", "rxen"}
    <3>1. s.width = 1
      BY <2>2, RfSliced
    <3>. QED
      <4>1. all["txen"] = meant["txen"] /\ all["rxen"] = meant["rxen"]
        BY <1>6, <1>7, <1>8
      <4>2. meant["txen"] \subseteq {0} /\ meant["rxen"] \subseteq {0}
        BY <1>6
      <4>3. {0} \subseteq 0 .. s.width - 1
        BY <3>1
      <4>. QED
        BY <2>2, <4>1, <4>2, <4>3
  <2>3. CASE s.op \in {"freq", "tx", "rx"}
    BY <1>5, <1>6, <1>7, <2>3 DEF Field
  <2>4. CASE s.op = "flags"
    <3>1. o["flags"] \subseteq 0 .. s.width - 1
      BY <1>5, <2>4
    <3>2. s.width <= 24
      BY RfSliced DEF Sliced
    <3>3. o["flags"] \cap (0 .. 23) = o["flags"]
      BY <2>1, <3>1, <3>2
    <3>. QED
      BY <1>6, <1>7, <2>4, <3>1, <3>3 DEF Field
  <2>. QED
    BY <2>1, <2>2, <2>3, <2>4
<1>10. Shift(RfSlices, all) = Pack(RfSlices, all)
  BY <1>9, RfSliced, ShiftPacks
<1>11. r = PbInstPbonly64(word, inst, data, length)
  <2>1. Refuse(-1).put = FALSE
    BY DEF Refuse
  <2>. QED
    BY <2>1 DEF PbInstTworf, word, all, low
<1>. HIDE DEF word
<1>12. r.word = (word \cap (0 .. Board.keeps - 1)) \cap (0 .. 31)
  BY <1>2, <1>11, PbonlyWord
<1>. HIDE DEF r
<1>13. Board.keeps - 1 = 23
  BY <1>2
<1>14. \A i \in 0 .. 24 - 1 : i \in r.word <=> i \in Pack(RfSlices, all)
  BY <1>10, <1>12, <1>13 DEF word
<1>15. Carried(RfSlices, all, r.word)
  BY <1>14, RfSliced, PackCarries, CutCarries
<1>16. Carried(RfSlices, meant, r.word)
  BY <1>9, <1>15, CarriedAlike
<1>17. AllPlaced(RfSlices, meant)
  <2>. SUFFICES ASSUME NEW s \in RfSlices, NEW i \in meant[s.op]
                PROVE  i \in Place(s.op, RfSlices)
    BY DEF AllPlaced
  <2>1. i \in 0 .. s.width - 1 /\ s.from = 0 /\ s.width \in Nat
    BY <1>9, RfSliced DEF Sliced
  <2>. QED
    BY <2>1, PlaceBits
<1>. QED
  BY <1>3, <1>16, <1>17 DEF r

-----------------------------------------------------------------------------
(* Every function on every board.                                          *)

\* The slices of the board's word say what the operands mean, but for the shapes
\* that pb_inst_dds2 does not know.
Delivered(fn, o, r) ==
    \A s \in Packing(Board.design) :
        \/ Board.usb2 /\ fn \in {"pb_inst_dds2", "pb_inst_radio"} /\ s.op \in {"shape", "shape1"}
        \/ /\ \A k \in 0 .. s.width - 1 :
                  (s.at + k \in r.word) <=> (s.from + k \in MeantBy(fn, o)[s.op])
           /\ s.op # "flags" =>
                  MeantBy(fn, o)[s.op] \subseteq Place(s.op, Packing(Board.design))

LEMMA CarriedDelivered ==
    ASSUME NEW fn, NEW o, NEW r,
           Carried(Packing(Board.design), MeantBy(fn, o), r.word),
           AllPlaced(Packing(Board.design), MeantBy(fn, o))
    PROVE  Delivered(fn, o, r)
BY DEF Carried, AllPlaced, Delivered

LEMMA RadioDelivered ==
    ASSUME board \in RadioBoards, NEW fn \in Packers \ {"pb_inst_tworf"}, NEW o, Encodable(o),
           NEW flags, NEW t, Result(fn, o, flags, t).put,
           fn \in {"pb_inst_radio_shape", "pb_inst_radio_shape_cyclops"} => Checked(o)
    PROVE  Delivered(fn, o, Result(fn, o, flags, t))
<1>. DEFINE r == Result(fn, o, flags, t)
<1>1. CASE fn = "pb_inst_radio"
  <2>1. r = PbInstRadio(o, t.inst, t.data, t.length) /\ MeantBy(fn, o) = NoCyclops(Unshaped(o))
    BY <1>1 DEF Result, MeantBy
  <2>. HIDE DEF r
  <2>. QED
    BY <2>1, RadioCarried, CarriedDelivered DEF r
<1>2. CASE fn = "pb_inst_radio_shape"
  <2>1. r = PbInstRadioShape(o, t.inst, t.data, t.length) /\ MeantBy(fn, o) = NoCyclops(o)
    BY <1>2 DEF Result, MeantBy
  <2>. HIDE DEF r
  <2>. QED
    BY <1>2, <2>1, RadioShapeCarried, CarriedDelivered DEF r
<1>3. CASE fn = "pb_inst_radio_shape_cyclops"
  <2>1. r = PbInstRadioShapeCyclops(o, t.inst, t.data, t.length) /\ MeantBy(fn, o) = o
    BY <1>3 DEF Result, MeantBy
  <2>. HIDE DEF r
  <2>. QED
    BY <1>3, <2>1, RadioShapeCarried, CarriedDelivered DEF r
<1>4. CASE fn \in {"pb_inst_dds2", "pb_inst_dds2_shape"}
  <2>1. ~Supports
    BY RadioFacts DEF RadioFits, Supports
  <2>2. r = Refuse(0) \/ r = Refuse(-1)
    BY <1>4, <2>1 DEF Result, PbInstDds2, PbInstDds2Shape
  <2>. QED
    BY <2>2 DEF Refuse
<1>. QED
  BY <1>1, <1>2, <1>3, <1>4 DEF Packers

LEMMA DdsRadioDelivered ==
    ASSUME board \in DdsBoards, NEW o, Encodable(o), NEW inst, NEW data, NEW length,
           PbInstRadio(o, inst, data, length).put
    PROVE  Delivered("pb_inst_radio", o, PbInstRadio(o, inst, data, length))
<1>. DEFINE P == Packing(Board.design)
            first == [o EXCEPT !["amp"] = {}, !["freq1"] = {}, !["tx1"] = {}, !["amp1"] = {}]
            meant == MeantBy("pb_inst_radio", o)
            r == PbInstRadio(o, inst, data, length)
<1>1. DdsFits(Board)
  BY DdsFacts
<1>2. Board.design = "dds1"
  <2>1. SUFFICES ASSUME Board.design # "dds1" PROVE FALSE
    OBVIOUS
  <2>2. ~Within(o["freq"], Board.freq)
    BY <1>1, <2>1 DEF DdsFits, Within, None
  <2>3. r = Refuse(-1)
    BY <2>1, <2>2 DEF PbInstRadio
  <2>. QED
    BY <2>3 DEF Refuse
<1>3. r = PbInstDds2(first, inst, data, length)
  BY <1>2 DEF PbInstRadio
<1>4. /\ Encodable(first) /\ first["amp"] = {}
      /\ \A f \in Field \ {"amp", "freq1", "tx1", "amp1"} : first[f] = o[f]
  <2>1. o \in [Field -> SUBSET (0 .. 31)]
    BY DEF Encodable
  <2>2. /\ first \in [Field -> SUBSET (0 .. 31)] /\ first["amp"] = {}
        /\ \A f \in Field \ {"amp", "freq1", "tx1", "amp1"} : first[f] = o[f]
    BY <2>1 DEF Field
  <2>3. Enabling \subseteq Field \ {"amp", "freq1", "tx1", "amp1"}
    BY DEF Enabling, Field
  <2>. HIDE DEF first
  <2>4. \A f \in Enabling : first[f] \subseteq {0}
    BY <2>2, <2>3 DEF Encodable
  <2>5. first["shape"] = o["shape"] /\ first["shape1"] = o["shape1"]
    BY <2>2 DEF Field
  <2>. QED
    BY <2>2, <2>4, <2>5 DEF Encodable
<1>5. /\ meant = NoCyclops(Unshaped(o))
  BY DEF MeantBy
<1>6. /\ meant["amp"] = {}
      /\ \A f \in Field \ {"amp", "shape", "shape1", "real", "imag", "swap"} : meant[f] = o[f]
  BY <1>5, OperandsMeant DEF Field
<1>. HIDE DEF first, meant, r
<1>7. /\ Carried({s \in P : s.op \notin {"shape", "shape1"}}, first, r.word)
      /\ AllPlaced(P, first)
  BY <1>3, <1>4, Dds2Carried DEF r
<1>8. ASSUME NEW s \in P, s.op \notin {"shape", "shape1"} PROVE first[s.op] = meant[s.op]
  <2>1. /\ s.op \in Field
        /\ s.op \notin {"cos", "sin", "trig", "real", "imag", "swap", "freq1", "tx1", "amp1"}
    BY <1>1, <1>2 DEF DdsFits, Sliced
  <2>. QED
    BY <1>4, <1>6, <1>8, <2>1
<1>9. ASSUME NEW s \in P
      PROVE  \/ Board.usb2 /\ s.op \in {"shape", "shape1"}
             \/ /\ \A k \in 0 .. s.width - 1 :
                       (s.at + k \in r.word) <=> (s.from + k \in meant[s.op])
                /\ s.op # "flags" => meant[s.op] \subseteq Place(s.op, P)
  <2>1. CASE s.op \in {"shape", "shape1"}
    BY <1>1, <2>1 DEF DdsFits
  <2>2. CASE s.op \notin {"shape", "shape1"}
    BY <1>7, <1>8, <2>2 DEF Carried, AllPlaced
  <2>. QED
    BY <2>1, <2>2
<1>. QED
  BY <1>9 DEF Delivered, meant, r

LEMMA DdsShapeDelivered ==
    ASSUME board \in DdsBoards, NEW o, Encodable(o), NEW inst, NEW data, NEW length,
           PbInstRadioShape(o, inst, data, length).put
    PROVE  Delivered("pb_inst_radio_shape", o, PbInstRadioShape(o, inst, data, length))
<1>. DEFINE P == Packing(Board.design)
            all == NoCyclops(o)
            first == [all EXCEPT !["freq1"] = {}, !["tx1"] = {}, !["amp1"] = {}]
            r == PbInstRadioShape(o, inst, data, length)
<1>1. DdsFits(Board)
  BY DdsFacts
<1>2. Board.design = "dds1"
  <2>1. SUFFICES ASSUME Board.design # "dds1" PROVE FALSE
    OBVIOUS
  <2>2. ShapeRefused(o) /\ Board.design # "rpg"
    BY <1>1, <2>1 DEF DdsFits, ShapeRefused, Within, None
  <2>3. r = Refuse(-1)
    BY <2>1, <2>2 DEF PbInstRadioShape
  <2>. QED
    BY <2>3 DEF Refuse
<1>3. r = PbInstDds2Shape(first, inst, data, length)
  BY <1>2 DEF PbInstRadioShape
<1>4. Encodable(all)
  BY OperandsMeant
<1>. HIDE DEF all
<1>5. /\ Encodable(first)
      /\ \A f \in Field \ {"freq1", "tx1", "amp1"} : first[f] = all[f]
  <2>1. all \in [Field -> SUBSET (0 .. 31)]
    BY <1>4 DEF Encodable
  <2>2. /\ first \in [Field -> SUBSET (0 .. 31)]
        /\ \A f \in Field \ {"freq1", "tx1", "amp1"} : first[f] = all[f]
    BY <2>1 DEF Field
  <2>3. Enabling \subseteq Field \ {"freq1", "tx1", "amp1"}
    BY DEF Enabling, Field
  <2>. HIDE DEF first
  <2>4. \A f \in Enabling : first[f] \subseteq {0}
    BY <1>4, <2>2, <2>3 DEF Encodable
  <2>5. first["shape"] = all["shape"] /\ first["shape1"] = all["shape1"]
    BY <2>2 DEF Field
  <2>. QED
    BY <1>4, <2>2, <2>4, <2>5 DEF Encodable
<1>. HIDE DEF first, r
<1>6. Carried(P, first, r.word) /\ AllPlaced(P, first)
  BY <1>3, <1>5, Dds2ShapeCarried DEF r
<1>7. \A s \in P : first[s.op] = all[s.op]
  <2>. SUFFICES ASSUME NEW s \in P PROVE first[s.op] = all[s.op]
    OBVIOUS
  <2>1. s.op \in Field /\ s.op \notin {"freq1", "tx1", "amp1"}
    BY <1>1, <1>2 DEF DdsFits, Sliced
  <2>. QED
    BY <1>5, <2>1
<1>8. Carried(P, all, r.word) /\ AllPlaced(P, all)
  BY <1>6, <1>7 DEF Carried, AllPlaced
<1>9. MeantBy("pb_inst_radio_shape", o) = all
  BY DEF MeantBy, all
<1>. QED
  BY <1>8, <1>9, CarriedDelivered DEF r

LEMMA DdsDelivered ==
    ASSUME board \in DdsBoards, NEW fn \in Packers \ {"pb_inst_tworf"}, NEW o, Encodable(o),
           NEW flags, NEW t, Result(fn, o, flags, t).put
    PROVE  Delivered(fn, o, Result(fn, o, flags, t))
<1>. DEFINE P == Packing(Board.design)
            r == Result(fn, o, flags, t)
<1>1. CASE fn = "pb_inst_radio"
  <2>1. r = PbInstRadio(o, t.inst, t.data, t.length)
    BY <1>1 DEF Result
  <2>. HIDE DEF r
  <2>. QED
    BY <1>1, <2>1, DdsRadioDelivered DEF r
<1>2. CASE fn = "pb_inst_radio_shape"
  <2>1. r = PbInstRadioShape(o, t.inst, t.data, t.length)
    BY <1>2 DEF Result
  <2>. HIDE DEF r
  <2>. QED
    BY <1>2, <2>1, DdsShapeDelivered DEF r
<1>3. CASE fn = "pb_inst_radio_shape_cyclops"
  <2>1. ~Board.cyclops
    BY DdsFacts DEF DdsFits
  <2>2. r = Refuse(-1)
    BY <1>3, <2>1 DEF Result, PbInstRadioShapeCyclops
  <2>. QED
    BY <2>2 DEF Refuse
<1>4. CASE fn = "pb_inst_dds2_shape"
  <2>1. r = PbInstDds2Shape(o, t.inst, t.data, t.length) /\ MeantBy(fn, o) = o
    BY <1>4 DEF Result, MeantBy
  <2>. HIDE DEF r
  <2>. QED
    BY <2>1, Dds2ShapeCarried, CarriedDelivered DEF r
<1>5. CASE fn = "pb_inst_dds2"
  <2>. DEFINE meant == MeantBy(fn, o)
  <2>1. /\ r = PbInstDds2(o, t.inst, t.data, t.length)
        /\ meant = [o EXCEPT !["shape"] = {0, 1, 2}, !["shape1"] = {0, 1, 2}]
    BY <1>5 DEF Result, MeantBy
  <2>2. \A f \in Field \ {"shape", "shape1"} : meant[f] = o[f]
    BY <2>1 DEF Encodable
  <2>. HIDE DEF meant, r
  <2>3. /\ Carried({s \in P : s.op \notin {"shape", "shape1"}}, o, r.word)
        /\ AllPlaced(P, o)
    BY <2>1, Dds2Carried DEF r
  <2>4. Board.usb2 /\ \A s \in P : s.op \in Field
    BY DdsFacts DEF DdsFits, Sliced
  <2>5. ASSUME NEW s \in P, s.op \notin {"shape", "shape1"}
        PROVE  /\ \A k \in 0 .. s.width - 1 :
                      (s.at + k \in r.word) <=> (s.from + k \in meant[s.op])
               /\ s.op # "flags" => meant[s.op] \subseteq Place(s.op, P)
    <3>1. o[s.op] = meant[s.op]
      BY <2>2, <2>4, <2>5
    <3>. QED
      BY <2>3, <2>5, <3>1 DEF Carried, AllPlaced
  <2>. QED
    BY <1>5, <2>4, <2>5 DEF Delivered, meant, r
<1>. QED
  BY <1>1, <1>2, <1>3, <1>4, <1>5 DEF Packers

LEMMA PlainRefuse ==
    ASSUME board \in PlainBoards, NEW fn \in Packers \ {"pb_inst_tworf"}, NEW o,
           NEW flags, NEW t
    PROVE  Result(fn, o, flags, t).put = FALSE
<1>1. PlainFits(Board)
  BY PlainBoardsFit DEF Board
<1>2. /\ ~Supports /\ Board.design \notin {"dds1", "rpg"} /\ ShapeRefused(o)
      /\ ~Within(o["freq"], Board.freq)
  BY <1>1 DEF PlainFits, Supports, ShapeRefused, Within, None
<1>3. Result(fn, o, flags, t) = Refuse(-1) \/ Result(fn, o, flags, t) = Refuse(0)
  BY <1>2 DEF Packers, Result, PbInstRadio, PbInstRadioShape, PbInstRadioShapeCyclops,
              PbInstDds2, PbInstDds2Shape
<1>. QED
  BY <1>3 DEF Refuse

-----------------------------------------------------------------------------
(* What a call packs is in the word that was sent.                         *)

PackedInv ==
    /\ board \in Boards
    /\ call.fn \in Packers =>
          /\ call.ops \in Operands
          /\ sent = Result(call.fn, call.ops, call.flags, call.t)

LEMMA PackedInvariance == Spec => []PackedInv
<1>1. Init => PackedInv
  BY DEF Init, PackedInv, NoCall, Packers
<1>2. PackedInv /\ [Next]_vars => PackedInv'
  <2>. SUFFICES ASSUME PackedInv, [Next]_vars
                PROVE  PackedInv'
    OBVIOUS
  <2>1. CASE PackedInst
    <3>1. PICK fn \in Packers, o \in Operands, t \in Timings : Perform(fn, o, {}, t)
      BY <2>1 DEF PackedInst
    <3>2. /\ call'.fn = fn /\ call'.ops = o /\ call'.flags = {} /\ call'.t = t
          /\ sent' = Result(fn, o, {}, t) /\ UNCHANGED <<board, has_FF_fix>>
      BY <3>1 DEF Perform
    <3>3. Result(fn, o, {}, t)' = Result(fn, o, {}, t)
      BY <3>2 DEF Result, PbInstPbonly64, PbInstTworf, PbInstRadio, PbInstRadioShape,
                  PbInstRadioShapeCyclops, PbInstDds2, PbInstDds2Shape, Pb4CInst, Pb4CStop,
                  PbInstRpg, PbInstDirect, ShapeRefused, DdsInRange, SecondBits, Supports,
                  FixFF, Board
    <3>. QED
      BY <3>2, <3>3 DEF PackedInv
  <2>2. CASE PlainInst
    <3>1. call'.fn \in {"pb_inst_pbonly64", "pb_4C_inst", "pb_4C_stop"} /\ board' = board
      BY <2>2 DEF PlainInst, Perform
    <3>. QED
      BY <3>1 DEF PackedInv, Packers
  <2>3. CASE PbBypassFFFix \/ Return
    <3>1. call'.fn = "none" /\ board' = board
      BY <2>3 DEF PbBypassFFFix, Return, NoCall
    <3>. QED
      BY <3>1 DEF PackedInv, Packers
  <2>4. CASE UNCHANGED vars
    <3>1. UNCHANGED <<board, has_FF_fix, call, sent>>
      BY <2>4 DEF vars
    <3>2. Result(call.fn, call.ops, call.flags, call.t)' =
              Result(call.fn, call.ops, call.flags, call.t)
      BY <3>1 DEF Result, PbInstPbonly64, PbInstTworf, PbInstRadio, PbInstRadioShape,
                  PbInstRadioShapeCyclops, PbInstDds2, PbInstDds2Shape, Pb4CInst, Pb4CStop,
                  PbInstRpg, PbInstDirect, ShapeRefused, DdsInRange, SecondBits, Supports,
                  FixFF, Board
    <3>. QED
      BY <3>1, <3>2 DEF PackedInv
  <2>. QED
    BY <2>1, <2>2, <2>3, <2>4 DEF Next
<1>. QED
  BY <1>1, <1>2, PTL DEF Spec

LEMMA PackedDelivered ==
    ASSUME PackedInv, call.fn \in Packers, sent.put, Encodable(call.ops),
           ~(Narrow /\ board # "amcc"), ~Overrun, ~Unchecked, ~WrongCall
    PROVE  Delivered(call.fn, call.ops, sent)
<1>1. /\ sent = Result(call.fn, call.ops, call.flags, call.t)
      /\ board \in DOMAIN Caps
  BY BoardsAssumption DEF PackedInv
<1>2. CASE board = "amcc"
  <2>1. Board.design = "rf"
    BY <1>2 DEF Board, Caps, Plain
  <2>2. call.fn = "pb_inst_tworf"
    BY <2>1 DEF WrongCall
  <2>3. sent = PbInstTworf(call.ops, call.t.inst, call.t.data, call.t.length)
    BY <1>1, <2>2 DEF Result
  <2>4. \A op \in {"freq", "tx", "rx", "flags"} : call.ops[op] \subseteq Packed(op)
    BY <1>2 DEF Overrun
  <2>5. MeantBy(call.fn, call.ops) =
            [call.ops EXCEPT !["txen"] = {0} \ @, !["rxen"] = {0} \ @]
    BY <2>2 DEF MeantBy
  <2>. QED
    BY <1>2, <2>3, <2>4, <2>5, TworfCarried, CarriedDelivered
<1>3. CASE board # "amcc"
  <2>1. board \in RadioBoards \cup DdsBoards \cup NarrowBoards \cup PlainBoards
    BY <1>1, <1>3 DEF Caps, RadioBoards, DdsBoards, NarrowBoards, PlainBoards
  <2>2. board \notin NarrowBoards
    BY NarrowBoardsAre
  <2>3. CASE board \in RadioBoards
    <3>1. call.fn \in Packers \ {"pb_inst_tworf"} /\ ~Board.usb2
      BY <2>3, RadioFacts DEF RadioFits, WrongCall
    <3>2. call.fn \in {"pb_inst_radio_shape", "pb_inst_radio_shape_cyclops"} =>
              Checked(call.ops)
      BY <3>1 DEF Unchecked, Checked, Limits
    <3>. QED
      BY <1>1, <2>3, <3>1, <3>2, RadioDelivered
  <2>4. CASE board \in DdsBoards
    <3>1. call.fn \in Packers \ {"pb_inst_tworf"}
      BY <2>4, DdsFacts DEF DdsFits, WrongCall
    <3>. QED
      BY <1>1, <2>4, <3>1, DdsDelivered
  <2>5. CASE board \in PlainBoards
    <3>1. call.fn \in Packers \ {"pb_inst_tworf"}
      BY <2>5, PlainBoardsFit DEF PlainFits, WrongCall, Board
    <3>. QED
      BY <1>1, <2>5, <3>1, PlainRefuse
  <2>. QED
    BY <2>1, <2>2, <2>3, <2>4, <2>5
<1>. QED
  BY <1>2, <1>3

-----------------------------------------------------------------------------
(* The theorems.                                                           *)

\* TypeOK: what the instruction functions send fits into the words of the board.
THEOREM InstructionTypes == Spec => []TypeOK
<1>1. Inv => TypeOK
  BY DEF Inv, Typed, TypeOK
<1>. QED
  BY <1>1, Invariance, PTL

\* AnsweredIsSent: an address is answered only for an instruction that was sent,
\* but for pb_inst_dds2 on a board without a second DDS.
THEOREM AddressesWereSent ==
    ASSUME "unsupported" \in Voids
    PROVE  Spec => []AnsweredIsSent
<1>1. Inv => AnsweredIsSent
  BY DEF Inv, Encoded, Answered, AnsweredIsSent
<1>. QED
  BY <1>1, Invariance, PTL

\* DelayHonest: whichever function is called, the board waits as long as asked, or
\* one cycle less where its core counter could not count to the delay, if the
\* length fits the counter.
THEOREM DelaysAreHonest ==
    ASSUME "length" \in Voids
    PROVE  Spec => []DelayHonest
<1>1. ASSUME Inv PROVE DelayHonest
  <2>1. SUFFICES ASSUME call # NoCall PROVE DelayHonest
    BY <1>1 DEF Inv, DelayHonest
  <2>2. Cycles = CyclesOf(call.fn, call.t)
    BY DEF Cycles, CyclesOf, ForCore, CoreCounts
  <2>. QED
    BY <1>1, <2>1, <2>2 DEF Inv, Encoded, Waits, WaitFor, DelayHonest
<1>. QED
  BY <1>1, Invariance, PTL

\* CounterSafe: no delay that ends in FF is sent to a core counter that fails on it,
\* but by pb_inst_rpg.
THEOREM CountersAreSafe ==
    ASSUME "rpg_counter" \in Voids
    PROVE  Spec => []CounterSafe
<1>1. ASSUME Inv PROVE CounterSafe
  <2>1. SUFFICES ASSUME call # NoCall PROVE CounterSafe
    BY <1>1 DEF Inv, CounterSafe
  <2>. QED
    BY <1>1, <2>1 DEF Inv, Encoded, CoreCounts, ForCore, Safe, CounterSafe
<1>. QED
  BY <1>1, Invariance, PTL

\* CountHonest: loops and long delays are repeated as often as asked, if the number
\* fits the board's counter.
THEOREM CountsAreHonest ==
    ASSUME "data" \in Voids
    PROVE  Spec => []CountHonest
<1>1. ASSUME Inv PROVE CountHonest
  <2>1. SUFFICES ASSUME call # NoCall PROVE CountHonest
    BY <1>1 DEF Inv, CountHonest
  <2>2. LeastOf(call.t.inst) = Least
    BY DEF LeastOf, Least
  <2>. QED
    BY <1>1, <2>1, <2>2 DEF Inv, Encoded, Repeats, CountHonest
<1>. QED
  BY <1>1, Invariance, PTL

\* FlagsCarried: pb_inst_pbonly64 sets the outputs it was asked to set, if the
\* board's word has room for them.
THEOREM FlagsAreCarried ==
    ASSUME "narrow" \in Voids
    PROVE  Spec => []FlagsCarried
<1>1. ASSUME Inv PROVE FlagsCarried
  <2>1. SUFFICES ASSUME call # NoCall PROVE FlagsCarried
    BY <1>1 DEF Inv, FlagsCarried
  <2>. QED
    BY <1>1, <2>1 DEF Inv, Carries, FlagsCarried, LostFlags
<1>. QED
  BY <1>1, Invariance, PTL

\* OperandsCarried: whatever an accepted instruction selects, on any board whose
\* word has room for its registers, each bit of each operand is at its place and
\* no two share one, if enabling operands are 0 or 1 and shapes are one of 8.
THEOREM OperandsAreCarried ==
    ASSUME {"narrow", "estimated", "unchecked", "wrong_call", "unshaped"} \subseteq Voids,
           \A o \in Operands : Encodable(o)
    PROVE  Spec => []OperandsCarried
<1>1. ASSUME PackedInv PROVE OperandsCarried
  <2>. SUFFICES ASSUME call.fn \in Packers, sent.put, ~Excused
                PROVE  \A s \in Hardware :
                           \/ Board.noacq /\ s.op \in {"cos", "sin", "trig"}
                           \/ Unselected(s.op)
                           \/ /\ \A k \in 0 .. s.width - 1 :
                                     (s.at + k \in sent.word) <=> (s.from + k \in Meant[s.op])
                              /\ s.op # "flags" => Meant[s.op] \subseteq Place(s.op, Hardware)
    BY DEF OperandsCarried
  <2>1. ~(Narrow /\ board # "amcc") /\ ~Overrun /\ ~Unchecked /\ ~WrongCall
    BY DEF Excused
  <2>2. Encodable(call.ops)
    BY <1>1 DEF PackedInv
  <2>3. Delivered(call.fn, call.ops, sent)
    BY <1>1, <2>1, <2>2, PackedDelivered
  <2>4. Hardware = Packing(Board.design)
    <3>1. /\ board \in {"amcc"} \cup RadioBoards \cup DdsBoards \cup NarrowBoards \cup PlainBoards
          /\ board \notin NarrowBoards
      BY <1>1, <2>1, BoardsAssumption, NarrowBoardsAre
         DEF PackedInv, Caps, RadioBoards, DdsBoards, NarrowBoards, PlainBoards
    <3>2. ASSUME board = "amcc" PROVE Board.design = "rf"
      BY <3>2 DEF Board, Caps, Plain
    <3>3. Board.design # "pbdds19"
      BY <3>1, <3>2, RadioFacts, DdsFacts, PlainBoardsFit DEF RadioFits, DdsFits, PlainFits, Board
    <3>. QED
      BY <3>3 DEF Hardware
  <2>5. Meant = MeantBy(call.fn, call.ops)
    BY DEF Meant, MeantBy
  <2>. QED
    BY <2>3, <2>4, <2>5 DEF Delivered, Unselected
<1>. QED
  BY <1>1, PackedInvariance, PTL

=============================================================================

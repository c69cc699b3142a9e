---------------------------- MODULE RadioRegs_proofs ----------------------------
(***************************************************************************)
(* The settings of RadioProcessors for any number of boards of any kind.   *)
(* Every call is a chain of accesses; as long as none is lost it leaves    *)
(* the registers in one way (Leaves), which is compared with what the call *)
(* was to do.  Each theorem names the hazards that have to void a setting  *)
(* for it to hold.                                                         *)
(***************************************************************************)
EXTENDS RadioRegs, TLAPS

SegmentBits == Bits \cup {"SEGMENT_RESET", "COUNT_RESET"}
Regs == [control : SUBSET Control, segments : SUBSET SegmentBits, offset : SUBSET OffsetBits,
         cic : 0 .. Half - 1, cic2 : 0 .. 15, fir : FirDecimation]
Outcome == [r : Regs, reset : SUBSET Counter, lost : BOOLEAN]

\* What may be asked of a board; NARROW_BW and OVERFLOW_RESET are never a flag
\* that a caller has set.
Settings ==
    [flags : (SUBSET (Flag \cup {"PCI_READ"})) \cup {Unknown},
     segments : (SUBSET Bits) \cup {Unknown},
     offset : (SUBSET OffsetBits) \cup {Unknown},
     decimation : (Decimation \X FirDecimation) \cup {Unknown}]

Types ==
    /\ kind \in [Board -> Kind] /\ cur_board \in Board
    /\ regs \in [Board -> Regs] /\ asked \in [Board -> Settings]
    /\ counting \in [Board -> SUBSET Counter] /\ zeroed \in [Board -> SUBSET Counter]

\* What a board's registers have to do with what was asked, each part with the
\* hazards that it needs to be void.
Agrees(r, a, cic) ==
    /\ ({"lost", "amp", "memory", "direct", "partial"} \subseteq Voids /\ a.flags # Unknown) =>
            r.control = a.flags
    /\ ({"lost", "ored"} \subseteq Voids /\ a.segments # Unknown) => r.segments = a.segments
    /\ ({"lost", "ored", "shared"} \subseteq Voids /\ a.offset # Unknown) => r.offset = a.offset
    /\ (/\ {"lost", "amp", "memory", "direct", "partial", "cut"} \subseteq Voids
        /\ a.decimation # Unknown) =>
            /\ "RAM_DIRECT" \notin r.control
            /\ a.decimation =
                   <<1 + r.cic + IF cic = "wide" THEN Half * r.cic2 ELSE 0,
                     IF "BYPASS_FIR" \in r.control THEN 1 ELSE r.fir>>

Inv ==
    /\ Types
    /\ \A b \in Board : Agrees(regs[b], asked[b], kind[b].cic)
    /\ {"lost", "first"} \subseteq Voids => \A b \in Board : zeroed[b] \cap counting[b] = {}

-----------------------------------------------------------------------------
(* Accesses.                                                               *)

\* A chain that, unless an access is lost, leaves the registers r and has reset
\* the counters z.
Leaves(T, r, z) ==
    /\ T \in SUBSET Outcome
    /\ \A t \in T : ~t.lost => t.r = r /\ t.reset = z

LEMMA BeforeLeaves ==
    ASSUME Types
    PROVE  Leaves(Before, regs[cur_board], {})
BY DEF Types, Before, Leaves, Outcome

LEMMA LostType ==
    ASSUME NEW T \in SUBSET Outcome
    PROVE  Lost(T) \in SUBSET Outcome /\ \A t \in Lost(T) : t.lost
BY DEF Lost, Outcome

\* The register itself decides what a write makes of the others.
LEMMA WriteLeaves ==
    ASSUME NEW T, NEW r, NEW z, Leaves(T, r, z), NEW reg, NEW v, NEW s,
           \A t \in T : LET u == [t EXCEPT !.r[reg] = v]
                        IN  /\ u \in Outcome /\ u.lost = t.lost /\ u.reset = t.reset
                            /\ t.r = r => u.r = s
    PROVE  Leaves(Write(T, reg, v), s, z)
<1>1. Lost(T) \in SUBSET Outcome /\ \A t \in Lost(T) : t.lost
  BY LostType DEF Leaves
<1>2. ASSUME NEW u \in Write(T, reg, v)
      PROVE  u \in Outcome /\ (~u.lost => u.r = s /\ u.reset = z)
  <2>1. CASE u \in Lost(T)
    BY <1>1, <2>1
  <2>2. CASE \E t \in T : u = [t EXCEPT !.r[reg] = v]
    BY <2>2 DEF Leaves
  <2>. QED
    BY <2>1, <2>2 DEF Write
<1>. QED
  BY <1>2 DEF Leaves

LEMMA WriteControl ==
    ASSUME NEW T, NEW r, NEW z, Leaves(T, r, z), NEW v \in SUBSET Control
    PROVE  Leaves(Write(T, "control", v), [r EXCEPT !.control = v], z)
<1>1. ASSUME NEW t \in T
      PROVE  /\ [t EXCEPT !.r["control"] = v] \in Outcome
             /\ [t EXCEPT !.r["control"] = v].lost = t.lost
             /\ [t EXCEPT !.r["control"] = v].reset = t.reset
             /\ [t EXCEPT !.r["control"] = v].r = [t.r EXCEPT !.control = v]
  BY DEF Leaves, Outcome, Regs
<1>. QED
  BY <1>1, WriteLeaves

LEMMA WriteSegments ==
    ASSUME NEW T, NEW r, NEW z, Leaves(T, r, z), NEW v \in SUBSET SegmentBits
    PROVE  Leaves(Write(T, "segments", v), [r EXCEPT !.segments = v], z)
<1>1. ASSUME NEW t \in T
      PROVE  /\ [t EXCEPT !.r["segments"] = v] \in Outcome
             /\ [t EXCEPT !.r["segments"] = v].lost = t.lost
             /\ [t EXCEPT !.r["segments"] = v].reset = t.reset
             /\ [t EXCEPT !.r["segments"] = v].r = [t.r EXCEPT !.segments = v]
  BY DEF Leaves, Outcome, Regs
<1>. QED
  BY <1>1, WriteLeaves

LEMMA WriteOffset ==
    ASSUME NEW T, NEW r, NEW z, Leaves(T, r, z), NEW v \in SUBSET OffsetBits
    PROVE  Leaves(Write(T, "offset", v), [r EXCEPT !.offset = v], z)
<1>1. ASSUME NEW t \in T
      PROVE  /\ [t EXCEPT !.r["offset"] = v] \in Outcome
             /\ [t EXCEPT !.r["offset"] = v].lost = t.lost
             /\ [t EXCEPT !.r["offset"] = v].reset = t.reset
             /\ [t EXCEPT !.r["offset"] = v].r = [t.r EXCEPT !.offset = v]
  BY DEF Leaves, Outcome, Regs
<1>. QED
  BY <1>1, WriteLeaves

LEMMA WriteFilters ==
    ASSUME NEW T, NEW r, NEW z, Leaves(T, r, z)
    PROVE  /\ \A v \in 0 .. Half - 1 : Leaves(Write(T, "cic", v), [r EXCEPT !.cic = v], z)
           /\ \A v \in 0 .. 15 : Leaves(Write(T, "cic2", v), [r EXCEPT !.cic2 = v], z)
           /\ \A d \in FirDecimation : Leaves(Write(T, "fir", d), [r EXCEPT !.fir = d], z)
<1>1. ASSUME NEW v \in 0 .. Half - 1
      PROVE  Leaves(Write(T, "cic", v), [r EXCEPT !.cic = v], z)
  <2>1. ASSUME NEW t \in T
        PROVE  /\ [t EXCEPT !.r["cic"] = v] \in Outcome
               /\ [t EXCEPT !.r["cic"] = v].lost = t.lost
               /\ [t EXCEPT !.r["cic"] = v].reset = t.reset
               /\ [t EXCEPT !.r["cic"] = v].r = [t.r EXCEPT !.cic = v]
    BY DEF Leaves, Outcome, Regs
  <2>. QED
    BY <2>1, WriteLeaves
<1>3. ASSUME NEW v \in 0 .. 15
      PROVE  Leaves(Write(T, "cic2", v), [r EXCEPT !.cic2 = v], z)
  <2>1. ASSUME NEW t \in T
        PROVE  /\ [t EXCEPT !.r["cic2"] = v] \in Outcome
               /\ [t EXCEPT !.r["cic2"] = v].lost = t.lost
               /\ [t EXCEPT !.r["cic2"] = v].reset = t.reset
               /\ [t EXCEPT !.r["cic2"] = v].r = [t.r EXCEPT !.cic2 = v]
    BY DEF Leaves, Outcome, Regs
  <2>. QED
    BY <2>1, WriteLeaves
<1>2. ASSUME NEW d \in FirDecimation
      PROVE  Leaves(Write(T, "fir", d), [r EXCEPT !.fir = d], z)
  <2>1. ASSUME NEW t \in T
        PROVE  /\ [t EXCEPT !.r["fir"] = d] \in Outcome
               /\ [t EXCEPT !.r["fir"] = d].lost = t.lost
               /\ [t EXCEPT !.r["fir"] = d].reset = t.reset
               /\ [t EXCEPT !.r["fir"] = d].r = [t.r EXCEPT !.fir = d]
    BY DEF Leaves, Outcome, Regs
  <2>. QED
    BY <2>1, WriteLeaves
<1>. QED
  BY <1>1, <1>2, <1>3

\* A counter that is reset while nothing is lost.
LEMMA ZeroLeaves ==
    ASSUME NEW T, NEW r, NEW z, Leaves(T, r, z), NEW c \in Counter
    PROVE  Leaves(Zero(T, c), r, z \cup {c})
<1>1. ASSUME NEW t \in T
      PROVE  /\ [t EXCEPT !.reset = @ \cup {c}] \in Outcome
             /\ [t EXCEPT !.reset = @ \cup {c}].lost = t.lost
             /\ [t EXCEPT !.reset = @ \cup {c}].r = t.r
             /\ [t EXCEPT !.reset = @ \cup {c}].reset = t.reset \cup {c}
  BY DEF Leaves, Outcome
<1>. QED
  BY <1>1 DEF Leaves, Zero

LEMMA LostLeaves ==
    ASSUME NEW T, NEW r, NEW z, Leaves(T, r, z)
    PROVE  Leaves(T \cup Lost(T), r, z)
BY LostType DEF Leaves

\* What is lost stays lost.
LEMMA LostStays ==
    ASSUME NEW T \in SUBSET Outcome, \A t \in T : t.lost, NEW reg, NEW v, NEW c
    PROVE  /\ \A t \in Write(T, reg, v) : t.lost
           /\ \A t \in Zero(T, c) : t.lost
<1>1. ASSUME NEW t \in T
      PROVE  [t EXCEPT !.r[reg] = v].lost = t.lost
  BY DEF Outcome
<1>. QED
  BY <1>1, LostType DEF Write, Zero

\* What a read of the control bits returns.
LEMMA ReadsControl ==
    ASSUME NEW T, NEW r, NEW z, Leaves(T, r, z), NEW t \in T,
           NEW o \in Reads(t, "control", {{}, Control})
    PROVE  /\ Leaves({o.t}, r, z) /\ o.v \in SUBSET Control
           /\ ~o.t.lost => o.v = r.control
<1>1. t \in Outcome /\ (~t.lost => t.r = r /\ t.reset = z)
  BY DEF Leaves
<1>2. CASE o = [t |-> t, v |-> t.r["control"]]
  <2>1. o.t = t /\ o.v = t.r.control
    BY <1>2
  <2>2. t.r.control \in SUBSET Control
    BY <1>1 DEF Outcome, Regs
  <2>. QED
    BY <1>1, <2>1, <2>2 DEF Leaves
<1>3. CASE \E x \in {{}, Control} : o = [t |-> [t EXCEPT !.lost = TRUE], v |-> x]
  <2>1. [t EXCEPT !.lost = TRUE] \in Outcome /\ [t EXCEPT !.lost = TRUE].lost
    BY <1>1 DEF Outcome
  <2>2. PICK x \in {{}, Control} : o = [t |-> [t EXCEPT !.lost = TRUE], v |-> x]
    BY <1>3
  <2>3. o.t = [t EXCEPT !.lost = TRUE] /\ o.v = x
    BY <2>2
  <2>4. o.t \in Outcome /\ o.t.lost /\ o.v \in SUBSET Control
    BY <2>1, <2>3
  <2>. QED
    BY <2>4 DEF Leaves
<1>. QED
  BY <1>2, <1>3 DEF Reads

\* Bits of the control register on and off.
LEMMA ChangeControl ==
    ASSUME NEW T, NEW r \in Regs, NEW z, Leaves(T, r, z), NEW on \in SUBSET Control, NEW off
    PROVE  Leaves(Change(T, "control", on, off), [r EXCEPT !.control = (@ \cup on) \ off], z)
<1>. DEFINE s == [r EXCEPT !.control = (r.control \cup on) \ off]
<1>1. ASSUME NEW t \in T, NEW o \in Reads(t, "control", {{}, Control})
      PROVE  Leaves(Write({o.t}, "control", (o.v \cup on) \ off), s, z)
  <2>. DEFINE v == (o.v \cup on) \ off
  <2>1. Leaves({o.t}, r, z) /\ v \in SUBSET Control /\ (~o.t.lost => o.v = r.control)
    BY <1>1, ReadsControl
  <2>2. Leaves(Write({o.t}, "control", v), [r EXCEPT !.control = v], z)
    BY <2>1, WriteControl
  <2>3. CASE o.t.lost
    <3>1. \A u \in Write({o.t}, "control", v) : u.lost
      BY <2>1, <2>3, LostStays DEF Leaves
    <3>. QED
      BY <2>2, <3>1 DEF Leaves
  <2>4. CASE ~o.t.lost
    BY <2>1, <2>2, <2>4
  <2>. QED
    BY <2>3, <2>4
<1>. HIDE DEF s
<1>2. ASSUME NEW u \in Change(T, "control", on, off)
      PROVE  u \in Outcome /\ (~u.lost => u.r = s /\ u.reset = z)
  <2>1. PICK t \in T : u \in UNION {Write({o.t}, "control", (o.v \cup on) \ off) :
                                     o \in Reads(t, "control", {{}, Control})}
    BY <1>2 DEF Change
  <2>2. PICK o \in Reads(t, "control", {{}, Control}) : u \in Write({o.t}, "control", (o.v \cup on) \ off)
    BY <2>1
  <2>. QED
    BY <1>1, <2>2 DEF Leaves
<1>3. Leaves(Change(T, "control", on, off), s, z)
  BY <1>2 DEF Leaves
<1>. QED
  BY <1>3 DEF s

\* The registers that are changed so only on rpg boards, where nothing is lost.
LEMMA ChangeSegments ==
    ASSUME Cur = "rpg", NEW T, NEW r \in Regs, NEW z, Leaves(T, r, z),
           NEW on \in SUBSET SegmentBits, NEW off
    PROVE  Leaves(Change(T, "segments", on, off), [r EXCEPT !.segments = (@ \cup on) \ off], z)
<1>. DEFINE s == [r EXCEPT !.segments = (r.segments \cup on) \ off]
<1>1. ASSUME NEW t \in T, NEW o \in Reads(t, "segments", {{}, Control})
      PROVE  Leaves(Write({o.t}, "segments", (o.v \cup on) \ off), s, z)
  <2>. DEFINE v == (t.r.segments \cup on) \ off
  <2>1. o.t = t /\ o.v = t.r.segments
    BY <1>1 DEF Reads, Lossy
  <2>2. t \in Outcome /\ v \in SUBSET SegmentBits /\ (~t.lost => t.r = r)
    BY DEF Leaves, Outcome, Regs
  <2>3. Leaves({t}, r, z)
    BY DEF Leaves
  <2>4. Leaves(Write({t}, "segments", v), [r EXCEPT !.segments = v], z)
    BY <2>2, <2>3, WriteSegments
  <2>5. CASE t.lost
    <3>1. \A u \in Write({t}, "segments", v) : u.lost
      BY <2>2, <2>5, LostStays
    <3>. QED
      BY <2>1, <2>4, <3>1 DEF Leaves
  <2>6. CASE ~t.lost
    BY <2>1, <2>2, <2>4, <2>6
  <2>. QED
    BY <2>5, <2>6
<1>. HIDE DEF s
<1>2. ASSUME NEW u \in Change(T, "segments", on, off)
      PROVE  u \in Outcome /\ (~u.lost => u.r = s /\ u.reset = z)
  <2>1. PICK t \in T : u \in UNION {Write({o.t}, "segments", (o.v \cup on) \ off) :
                                     o \in Reads(t, "segments", {{}, Control})}
    BY <1>2 DEF Change
  <2>2. PICK o \in Reads(t, "segments", {{}, Control}) : u \in Write({o.t}, "segments", (o.v \cup on) \ off)
    BY <2>1
  <2>. QED
    BY <1>1, <2>2 DEF Leaves
<1>3. Leaves(Change(T, "segments", on, off), s, z)
  BY <1>2 DEF Leaves
<1>. QED
  BY <1>3 DEF s

LEMMA ChangeOffset ==
    ASSUME Cur = "rpg", NEW T, NEW r \in Regs, NEW z, Leaves(T, r, z),
           NEW on \in SUBSET OffsetBits, NEW off
    PROVE  Leaves(Change(T, "offset", on, off), [r EXCEPT !.offset = (@ \cup on) \ off], z)
<1>. DEFINE s == [r EXCEPT !.offset = (r.offset \cup on) \ off]
<1>1. ASSUME NEW t \in T, NEW o \in Reads(t, "offset", {{}, Control})
      PROVE  Leaves(Write({o.t}, "offset", (o.v \cup on) \ off), s, z)
  <2>. DEFINE v == (t.r.offset \cup on) \ off
  <2>1. o.t = t /\ o.v = t.r.offset
    BY <1>1 DEF Reads, Lossy
  <2>2. t \in Outcome /\ v \in SUBSET OffsetBits /\ (~t.lost => t.r = r)
    BY DEF Leaves, Outcome, Regs
  <2>3. Leaves({t}, r, z)
    BY DEF Leaves
  <2>4. Leaves(Write({t}, "offset", v), [r EXCEPT !.offset = v], z)
    BY <2>2, <2>3, WriteOffset
  <2>5. CASE t.lost
    <3>1. \A u \in Write({t}, "offset", v) : u.lost
      BY <2>2, <2>5, LostStays
    <3>. QED
      BY <2>1, <2>4, <3>1 DEF Leaves
  <2>6. CASE ~t.lost
    BY <2>1, <2>2, <2>4, <2>6
  <2>. QED
    BY <2>5, <2>6
<1>. HIDE DEF s
<1>2. ASSUME NEW u \in Change(T, "offset", on, off)
      PROVE  u \in Outcome /\ (~u.lost => u.r = s /\ u.reset = z)
  <2>1. PICK t \in T : u \in UNION {Write({o.t}, "offset", (o.v \cup on) \ off) :
                                     o \in Reads(t, "offset", {{}, Control})}
    BY <1>2 DEF Change
  <2>2. PICK o \in Reads(t, "offset", {{}, Control}) : u \in Write({o.t}, "offset", (o.v \cup on) \ off)
    BY <2>1
  <2>. QED
    BY <1>1, <2>2 DEF Leaves
<1>3. Leaves(Change(T, "offset", on, off), s, z)
  BY <1>2 DEF Leaves
<1>. QED
  BY <1>3 DEF s

-----------------------------------------------------------------------------
(* The chains of the calls.                                                *)

\* Writing a register twice is writing it once.
LEMMA Rewritten ==
    ASSUME NEW r \in Regs, NEW v, NEW w
    PROVE  /\ [[r EXCEPT !.control = v] EXCEPT !.control = w] = [r EXCEPT !.control = w]
           /\ [[r EXCEPT !.segments = v] EXCEPT !.segments = w] = [r EXCEPT !.segments = w]
           /\ [[r EXCEPT !.offset = v] EXCEPT !.offset = w] = [r EXCEPT !.offset = w]
           /\ [r EXCEPT !.control = v].control = v
           /\ [r EXCEPT !.segments = v].segments = v
           /\ [r EXCEPT !.offset = v].offset = v
           /\ v \in SUBSET Control => [r EXCEPT !.control = v] \in Regs
           /\ v \in SUBSET SegmentBits => [r EXCEPT !.segments = v] \in Regs
           /\ v \in SUBSET OffsetBits => [r EXCEPT !.offset = v] \in Regs
BY DEF Regs

\* pb_set_amp leaves the control bits without the two that it borrows.
LEMMA AmplitudeLeaves ==
    ASSUME NEW T, NEW r \in Regs, NEW z, Leaves(T, r, z)
    PROVE  Leaves(Amplitude(T),
                  IF Cur = "rpg" THEN r
                  ELSE [r EXCEPT !.control = @ \ {"FORCE_AVG", "NARROW_BW"}], z)
<1>1. CASE Cur = "rpg"
  BY <1>1 DEF Amplitude
<1>2. CASE Cur # "rpg"
  <2>. DEFINE T1 == SetControl(T, {"FORCE_AVG"})
              T2 == SetControl(T1, {"NARROW_BW"})
              T3 == UnsetControl(T2, {"NARROW_BW"})
              T4 == UnsetControl(T3, {"FORCE_AVG"})
              c0 == r.control
              c1 == (c0 \cup {"FORCE_AVG"}) \ {}
              c2 == (c1 \cup {"NARROW_BW"}) \ {}
              c3 == (c2 \cup {}) \ {"NARROW_BW"}
              c4 == (c3 \cup {}) \ {"FORCE_AVG"}
              r1 == [r EXCEPT !.control = c1]
              r2 == [r EXCEPT !.control = c2]
              r3 == [r EXCEPT !.control = c3]
              r4 == [r EXCEPT !.control = c4]
  <2>1. c1 \in SUBSET Control /\ c2 \in SUBSET Control /\ c3 \in SUBSET Control
    BY DEF Regs, Control, Flag
  <2>2. c4 = c0 \ {"FORCE_AVG", "NARROW_BW"}
    OBVIOUS
  <2>3. {"FORCE_AVG"} \in SUBSET Control /\ {"NARROW_BW"} \in SUBSET Control
    BY DEF Control, Flag
  <2>. HIDE DEF c1, c2, c3, c4
  <2>4. r1 \in Regs /\ r2 \in Regs /\ r3 \in Regs
    BY <2>1, Rewritten
  <2>5. Leaves(T1, r1, z)
    BY <2>3, ChangeControl DEF SetControl, c1
  <2>6. Leaves(T2, r2, z)
    <3>1. r2 = [r1 EXCEPT !.control = (@ \cup {"NARROW_BW"}) \ {}]
      BY Rewritten DEF c2
    <3>. QED
      BY <2>3, <2>4, <2>5, <3>1, ChangeControl DEF SetControl
  <2>7. Leaves(T3, r3, z)
    <3>1. r3 = [r2 EXCEPT !.control = (@ \cup {}) \ {"NARROW_BW"}]
      BY Rewritten DEF c3
    <3>. QED
      BY <2>3, <2>4, <2>6, <3>1, ChangeControl DEF UnsetControl
  <2>8. Leaves(T4, r4, z)
    <3>1. r4 = [r3 EXCEPT !.control = (@ \cup {}) \ {"FORCE_AVG"}]
      BY Rewritten DEF c4
    <3>. QED
      BY <2>3, <2>4, <2>7, <3>1, ChangeControl DEF UnsetControl
  <2>. QED
    BY <1>2, <2>2, <2>8 DEF Amplitude
<1>. QED
  BY <1>1, <1>2

\* The overflow counter's reset bit is not left on, and takes nothing with it
\* but the bit in whose place it is.
LEMMA ControlPulseLeaves ==
    ASSUME NEW T, NEW r \in Regs, NEW z, Leaves(T, r, z)
    PROVE  Leaves(ControlPulse(T), r, z \cup {"overflow"})
<1>1. ASSUME NEW t \in T, NEW o \in Reads(t, "control", {{}, Control})
      PROVE  Leaves(Write(Zero(Write({o.t}, "control", o.v \cup {"OVERFLOW_RESET"}), "overflow"),
                          "control", o.v), r, z \cup {"overflow"})
  <2>. DEFINE v == o.v \cup {"OVERFLOW_RESET"}
              T1 == Write({o.t}, "control", v)
              T2 == Zero(T1, "overflow")
              T3 == Write(T2, "control", o.v)
  <2>1. Leaves({o.t}, r, z) /\ o.v \in SUBSET Control /\ (~o.t.lost => o.v = r.control)
    BY <1>1, ReadsControl
  <2>2. v \in SUBSET Control
    BY <2>1 DEF Control
  <2>3. Leaves(T1, [r EXCEPT !.control = v], z)
    BY <2>1, <2>2, WriteControl
  <2>4. Leaves(T2, [r EXCEPT !.control = v], z \cup {"overflow"})
    BY <2>3, ZeroLeaves DEF Counter
  <2>5. Leaves(T3, [[r EXCEPT !.control = v] EXCEPT !.control = o.v], z \cup {"overflow"})
    BY <2>1, <2>4, WriteControl
  <2>6. CASE o.t.lost
    <3>1. \A u \in T1 : u.lost
      BY <2>1, <2>6, LostStays DEF Leaves
    <3>2. \A u \in T2 : u.lost
      BY <2>3, <3>1, LostStays DEF Leaves
    <3>3. \A u \in T3 : u.lost
      BY <2>4, <3>2, LostStays DEF Leaves
    <3>. QED
      BY <2>5, <3>3 DEF Leaves
  <2>7. CASE ~o.t.lost
    <3>1. [[r EXCEPT !.control = v] EXCEPT !.control = o.v] = r
      BY <2>1, <2>7 DEF Regs
    <3>. QED
      BY <2>5, <3>1
  <2>. QED
    BY <2>6, <2>7
<1>2. ASSUME NEW u \in ControlPulse(T)
      PROVE  u \in Outcome /\ (~u.lost => u.r = r /\ u.reset = z \cup {"overflow"})
  <2>1. PICK t \in T : u \in UNION {Write(Zero(Write({o.t}, "control", o.v \cup {"OVERFLOW_RESET"}),
                                               "overflow"), "control", o.v) :
                                     o \in Reads(t, "control", {{}, Control})}
    BY <1>2 DEF ControlPulse
  <2>2. PICK o \in Reads(t, "control", {{}, Control}) :
            u \in Write(Zero(Write({o.t}, "control", o.v \cup {"OVERFLOW_RESET"}), "overflow"),
                        "control", o.v)
    BY <2>1
  <2>. QED
    BY <1>1, <2>2 DEF Leaves
<1>. QED
  BY <1>2 DEF Leaves

LEMMA OverflowLeaves ==
    ASSUME NEW T, NEW r \in Regs, NEW z, Leaves(T, r, z)
    PROVE  /\ Cur # "rpg" => Leaves(OverflowReset(T), r, z \cup {"overflow"})
           /\ Cur = "rpg" /\ kind[First].family # "rpg" => Leaves(OverflowReset(T), r, z)
           /\ Cur = "rpg" /\ kind[First].family = "rpg" =>
                 Leaves(OverflowReset(T), [r EXCEPT !.offset = @ \ {"OVERFLOW_RESET"}],
                        z \cup {"overflow"})
<1>1. CASE Cur # "rpg"
  BY <1>1, ControlPulseLeaves DEF OverflowReset
<1>2. CASE Cur = "rpg" /\ kind[First].family # "rpg"
  BY <1>2 DEF OverflowReset, MiscPulse
<1>3. CASE Cur = "rpg" /\ kind[First].family = "rpg"
  <2>. DEFINE o1 == (r.offset \cup {"OVERFLOW_RESET"}) \ {}
              r1 == [r EXCEPT !.offset = o1]
              r2 == [r EXCEPT !.offset = @ \ {"OVERFLOW_RESET"}]
              T1 == Change(T, "offset", {"OVERFLOW_RESET"}, {})
              T2 == Change(T1, "offset", {}, {"OVERFLOW_RESET"})
  <2>1. o1 \in SUBSET OffsetBits /\ {"OVERFLOW_RESET"} \in SUBSET OffsetBits
    BY DEF Regs, OffsetBits
  <2>2. Leaves(T1, r1, z)
    BY <1>3, <2>1, ChangeOffset
  <2>3. r1 \in Regs /\ r1.offset = o1 /\ r2 = [r1 EXCEPT !.offset = (o1 \cup {}) \ {"OVERFLOW_RESET"}]
    <3>1. (o1 \cup {}) \ {"OVERFLOW_RESET"} = r.offset \ {"OVERFLOW_RESET"}
      OBVIOUS
    <3>. HIDE DEF o1
    <3>. QED
      BY <2>1, <3>1, Rewritten
  <2>. HIDE DEF r1, r2, T1
  <2>4. Leaves(T2, [r1 EXCEPT !.offset = (@ \cup {}) \ {"OVERFLOW_RESET"}], z)
    BY <1>3, <2>2, <2>3, ChangeOffset
  <2>5. Leaves(T2, r2, z)
    BY <2>3, <2>4
  <2>6. Leaves(Zero(T2, "overflow"), r2, z \cup {"overflow"})
    BY <2>5, ZeroLeaves DEF Counter
  <2>. QED
    BY <1>3, <2>6 DEF OverflowReset, MiscPulse, T1, r2
<1>. QED
  BY <1>1, <1>2, <1>3

LEMMA CountLeaves ==
    ASSUME NEW T, NEW r \in Regs, NEW z, Leaves(T, r, z)
    PROVE  Leaves(CountReset(T),
                  IF Cur = "rpg" THEN [r EXCEPT !.segments = @ \ {"COUNT_RESET"}] ELSE r,
                  z \cup {"scan"})
<1>1. CASE Cur # "rpg"
  BY <1>1, LostLeaves, ZeroLeaves DEF CountReset, Counter
<1>2. CASE Cur = "rpg"
  <2>. DEFINE s1 == (r.segments \cup {"COUNT_RESET"}) \ {}
              r1 == [r EXCEPT !.segments = s1]
              r2 == [r EXCEPT !.segments = @ \ {"COUNT_RESET"}]
              T1 == Change(T, "segments", {"COUNT_RESET"}, {})
              T2 == Zero(T1, "scan")
              T3 == Change(T2, "segments", {}, {"COUNT_RESET"})
  <2>1. s1 \in SUBSET SegmentBits /\ {"COUNT_RESET"} \in SUBSET SegmentBits
    BY DEF Regs, SegmentBits
  <2>2. Leaves(T1, r1, z)
    BY <1>2, <2>1, ChangeSegments
  <2>3. Leaves(T2, r1, z \cup {"scan"})
    BY <2>2, ZeroLeaves DEF Counter
  <2>4. r1 \in Regs /\ r1.segments = s1 /\ r2 = [r1 EXCEPT !.segments = (s1 \cup {}) \ {"COUNT_RESET"}]
    <3>1. (s1 \cup {}) \ {"COUNT_RESET"} = r.segments \ {"COUNT_RESET"}
      OBVIOUS
    <3>. HIDE DEF s1
    <3>. QED
      BY <2>1, <3>1, Rewritten
  <2>. HIDE DEF r1, r2, T1, T2
  <2>5. Leaves(T3, [r1 EXCEPT !.segments = (@ \cup {}) \ {"COUNT_RESET"}], z \cup {"scan"})
    BY <1>2, <2>3, <2>4, ChangeSegments
  <2>6. Leaves(T3, r2, z \cup {"scan"})
    BY <2>4, <2>5
  <2>. QED
    BY <1>2, <2>6 DEF CountReset, T1, T2, r2
<1>. QED
  BY <1>1, <1>2

LEMMA SegmentsLeaves ==
    ASSUME NEW T, NEW r \in Regs, NEW z, Leaves(T, r, z), NEW bits \in SUBSET Bits
    PROVE  Leaves(Segments(T, bits),
                  [r EXCEPT !.segments = IF Cur = "rpg" THEN (@ \ {"SEGMENT_RESET"}) \cup bits
                                         ELSE bits], z \cup {"segment"})
<1>. DEFINE reset == {"SEGMENT_RESET"}
<1>0. reset \in SUBSET SegmentBits /\ bits \in SUBSET SegmentBits /\ reset \cup bits \in SUBSET SegmentBits
  BY DEF SegmentBits
<1>1. CASE Cur # "rpg"
  <2>. DEFINE r1 == [r EXCEPT !.segments = reset \cup bits]
              r2 == [r EXCEPT !.segments = bits]
  <2>1. Leaves(Write(T, "segments", reset \cup bits), r1, z)
    BY <1>0, WriteSegments
  <2>2. Leaves(Zero(Write(T, "segments", reset \cup bits), "segment"), r1, z \cup {"segment"})
    BY <2>1, ZeroLeaves DEF Counter
  <2>3. Leaves(Segments(T, bits), [r1 EXCEPT !.segments = bits], z \cup {"segment"})
    BY <1>0, <1>1, <2>2, WriteSegments DEF Segments
  <2>4. [r1 EXCEPT !.segments = bits] = r2
    BY Rewritten
  <2>. QED
    BY <1>1, <2>3, <2>4
<1>2. CASE Cur = "rpg"
  <2>. DEFINE s1 == (r.segments \cup reset) \ {}
              s2 == (s1 \cup {}) \ reset
              s3 == (s2 \cup bits) \ {}
              r1 == [r EXCEPT !.segments = s1]
              r2 == [r EXCEPT !.segments = s2]
              r3 == [r EXCEPT !.segments = s3]
              T1 == Change(T, "segments", reset, {})
              T2 == Change(Zero(T1, "segment"), "segments", {}, reset)
              T3 == Change(T2, "segments", bits, {})
              y == z \cup {"segment"}
  <2>1. s1 \in SUBSET SegmentBits /\ s2 \in SUBSET SegmentBits
    BY <1>0 DEF Regs
  <2>2. s3 = (r.segments \ {"SEGMENT_RESET"}) \cup bits
    OBVIOUS
  <2>3. Leaves(T1, r1, z)
    BY <1>0, <1>2, ChangeSegments
  <2>4. Leaves(Zero(T1, "segment"), r1, y)
    BY <2>3, ZeroLeaves DEF Counter
  <2>. HIDE DEF s1, s2, s3
  <2>5. r1 \in Regs /\ r2 \in Regs /\ r1.segments = s1 /\ r2.segments = s2
    BY <2>1, Rewritten
  <2>6. r2 = [r1 EXCEPT !.segments = (@ \cup {}) \ reset]
    BY Rewritten DEF s2
  <2>7. r3 = [r2 EXCEPT !.segments = (@ \cup bits) \ {}]
    BY Rewritten DEF s3
  <2>. HIDE DEF r1, r2, r3, T1
  <2>8. Leaves(T2, r2, y)
    BY <1>2, <2>4, <2>5, <2>6, ChangeSegments
  <2>. HIDE DEF T2
  <2>9. Leaves(T3, r3, y)
    BY <1>0, <1>2, <2>5, <2>7, <2>8, ChangeSegments
  <2>. QED
    BY <1>2, <2>2, <2>9 DEF Segments, T1, T2, r3
<1>. QED
  BY <1>1, <1>2

LEMMA OffsetLeaves ==
    ASSUME NEW T, NEW r \in Regs, NEW z, Leaves(T, r, z), NEW bits \in SUBSET OffsetBits
    PROVE  \E y : Leaves(Offset(T, bits),
                         [r EXCEPT !.offset = IF Cur = "rpg" THEN @ \cup bits ELSE bits], y)
<1>1. CASE Cur # "rpg"
  BY <1>1, WriteOffset DEF Offset
<1>2. CASE Cur = "rpg"
  <2>. DEFINE T1 == Change(T, "offset", bits, {})
              r1 == [r EXCEPT !.offset = r.offset \cup bits]
  <2>1. (r.offset \cup bits) \ {} = r.offset \cup bits
    OBVIOUS
  <2>2. Leaves(T1, r1, z)
    BY <1>2, <2>1, ChangeOffset
  <2>3. Leaves(Zero(T1, "overflow"), r1, z \cup {"overflow"})
    BY <2>2, ZeroLeaves DEF Counter
  <2>. QED
    BY <1>2, <2>2, <2>3 DEF Offset
<1>. QED
  BY <1>1, <1>2

LEMMA BypassLeaves ==
    ASSUME NEW T, NEW r \in Regs, NEW z, Leaves(T, r, z), NEW bypass \in BOOLEAN
    PROVE  Leaves(Bypass(T, bypass),
                  [r EXCEPT !.control = IF bypass THEN @ \cup {"BYPASS_FIR"} ELSE @ \ {"BYPASS_FIR"}],
                  z)
<1>1. {"BYPASS_FIR"} \in SUBSET Control /\ {} \in SUBSET Control
  BY DEF Control, Flag
<1>2. CASE bypass
  <2>1. (r.control \cup {"BYPASS_FIR"}) \ {} = r.control \cup {"BYPASS_FIR"}
    OBVIOUS
  <2>. QED
    BY <1>1, <1>2, <2>1, ChangeControl DEF Bypass, SetControl
<1>3. CASE ~bypass
  <2>1. (r.control \cup {}) \ {"BYPASS_FIR"} = r.control \ {"BYPASS_FIR"}
    OBVIOUS
  <2>. QED
    BY <1>1, <1>3, <2>1, ChangeControl DEF Bypass, UnsetControl
<1>. QED
  BY <1>2, <1>3

\* What the registers of the CIC filter hold is the decimation less 1.
LEMMA CicLeaves ==
    ASSUME NEW T, NEW r \in Regs, NEW z, Leaves(T, r, z), NEW d \in Nat, InRange(d),
           CicSize \in {"narrow", "wide", "cut"}
    PROVE  \E s :
              /\ Leaves(Cic(T, d), s, z) /\ s \in Regs
              /\ s.control = r.control /\ s.segments = r.segments /\ s.offset = r.offset
              /\ s.fir = r.fir
              /\ (CicSize = "cut" => High(d) = 0) =>
                     1 + s.cic + (IF CicSize = "wide" THEN Half * s.cic2 ELSE 0) = d
<1>. DEFINE low == Low(d)
            high == High(d)
            r1 == [r EXCEPT !.cic = low]
            r2 == [r1 EXCEPT !.cic2 = high]
<1>1. /\ low \in 0 .. Half - 1 /\ high \in 0 .. 15
      /\ d = 1 + low + Half * high /\ (high = 0 => d = 1 + low)
      /\ CicSize = "narrow" => high = 0
  <2>1. d - 1 \in Nat /\ d <= 1024 * 1024 - 1 /\ (CicSize = "narrow" => d <= 64 * 1024 - 1)
    BY SMT DEF InRange, CicMax, Half
  <2>. QED
    BY <2>1, SMT DEF Low, High, Half
<1>. HIDE DEF low, high
<1>2. Leaves(Write(T, "cic", low), r1, z)
  BY <1>1, WriteFilters
<1>3. Leaves(Write(Write(T, "cic", low), "cic2", high), r2, z)
  BY <1>1, <1>2, WriteFilters
<1>4. /\ r1 \in Regs /\ r1.control = r.control /\ r1.segments = r.segments
      /\ r1.offset = r.offset /\ r1.fir = r.fir /\ r1.cic = low
  BY <1>1 DEF Regs
<1>. HIDE DEF r1
<1>5. /\ r2 \in Regs /\ r2.control = r1.control /\ r2.segments = r1.segments
      /\ r2.offset = r1.offset /\ r2.fir = r1.fir /\ r2.cic = r1.cic /\ r2.cic2 = high
  BY <1>1, <1>4 DEF Regs
<1>. HIDE DEF r2
<1>6. CASE CicSize = "wide"
  <2>1. Cic(T, d) = Write(Write(T, "cic", low), "cic2", high)
    BY <1>6 DEF Cic, low, high
  <2>2. 1 + r2.cic + Half * r2.cic2 = d
    BY <1>1, <1>4, <1>5
  <2>. QED
    BY <1>3, <1>4, <1>5, <1>6, <2>1, <2>2
<1>7. CASE CicSize # "wide"
  <2>1. Cic(T, d) = Write(T, "cic", low)
    BY <1>7 DEF Cic, low
  <2>2. high = 0 => 1 + r1.cic + 0 = d
    BY <1>1, <1>4
  <2>3. (CicSize = "cut" => High(d) = 0) => high = 0
    BY <1>1, <1>7 DEF high
  <2>. QED
    BY <1>2, <1>4, <1>7, <2>1, <2>2, <2>3
<1>. QED
  BY <1>6, <1>7

-----------------------------------------------------------------------------
(* The end of a call.                                                      *)

\* What a call has to show: as long as nothing is lost, the registers that it
\* leaves agree with what it leaves as asked.
LEMMA EndsInv ==
    ASSUME Inv, NEW T, NEW r, NEW z, Leaves(T, r, z),
           NEW wants \in Settings, NEW done \in SUBSET Counter, Agrees(r, wants, CicSize),
           {"lost", "first"} \subseteq Voids => done \subseteq z,
           Ends(T, wants, done)
    PROVE  Inv'
<1>1. PICK t \in T :
        LET voided == t.lost /\ "lost" \in Voids
        IN  /\ regs' = [regs EXCEPT ![cur_board] = t.r]
            /\ counting' = [counting EXCEPT ![cur_board] = @ \ t.reset]
            /\ asked' = [asked EXCEPT ![cur_board] = IF voided THEN Nothing ELSE wants]
            /\ zeroed' = [zeroed EXCEPT ![cur_board] = IF voided THEN {} ELSE @ \cup done]
  BY DEF Ends
<1>2. /\ t \in Outcome /\ (~t.lost => t.r = r /\ t.reset = z)
      /\ UNCHANGED <<kind, cur_board>> /\ Types
  BY DEF Leaves, Ends, Inv
<1>3. Nothing \in Settings
  <2>1. /\ Unknown \in (SUBSET (Flag \cup {"PCI_READ"})) \cup {Unknown}
        /\ Unknown \in (SUBSET Bits) \cup {Unknown}
        /\ Unknown \in (SUBSET OffsetBits) \cup {Unknown}
        /\ Unknown \in (Decimation \X FirDecimation) \cup {Unknown}
    OBVIOUS
  <2>. QED
    BY <2>1, Zenon DEF Nothing, Settings
<1>4. Types'
  BY <1>1, <1>2, <1>3 DEF Types, Outcome
<1>5. /\ \A b \in Board : b # cur_board =>
              /\ regs'[b] = regs[b] /\ asked'[b] = asked[b]
              /\ zeroed'[b] = zeroed[b] /\ counting'[b] = counting[b]
      /\ regs'[cur_board] = t.r /\ counting'[cur_board] = counting[cur_board] \ t.reset
      /\ asked'[cur_board] = IF t.lost /\ "lost" \in Voids THEN Nothing ELSE wants
      /\ zeroed'[cur_board] = IF t.lost /\ "lost" \in Voids THEN {} ELSE zeroed[cur_board] \cup done
  BY <1>1, <1>2 DEF Types
<1>6. Agrees(t.r, asked'[cur_board], CicSize)
  <2>1. CASE ~t.lost
    BY <1>2, <1>5, <2>1
  <2>2. CASE t.lost /\ "lost" \in Voids
    BY <1>5, <2>2 DEF Agrees, Nothing
  <2>3. CASE "lost" \notin Voids
    BY <2>3 DEF Agrees
  <2>. QED
    BY <2>1, <2>2, <2>3
<1>7. ASSUME NEW b \in Board
      PROVE  Agrees(regs'[b], asked'[b], kind'[b].cic)
  <2>1. kind' = kind /\ Agrees(regs[b], asked[b], kind[b].cic)
    BY <1>2 DEF Inv
  <2>2. CASE b = cur_board
    BY <1>6, <1>5, <2>1, <2>2 DEF CicSize
  <2>3. CASE b # cur_board
    BY <1>5, <2>1, <2>3
  <2>. QED
    BY <2>2, <2>3
<1>8. ASSUME {"lost", "first"} \subseteq Voids, NEW b \in Board
      PROVE  zeroed'[b] \cap counting'[b] = {}
  BY <1>2, <1>5, <1>8 DEF Inv
<1>. QED
  BY <1>4, <1>7, <1>8 DEF Inv, Agrees

-----------------------------------------------------------------------------
(* The calls.                                                              *)

Fields(a) ==
    a = [flags |-> a.flags, segments |-> a.segments, offset |-> a.offset,
         decimation |-> a.decimation]

\* The selected board before a call.
LEMMA Selected ==
    ASSUME Inv
    PROVE  /\ regs[cur_board] \in Regs /\ Asked \in Settings
           /\ Agrees(regs[cur_board], Asked, CicSize)
           /\ Leaves(Before, regs[cur_board], {})
           /\ CicSize \in {"narrow", "wide", "cut"}
BY BeforeLeaves DEF Inv, Types, Asked, CicSize, Kind

\* Control bits that are asked for are the ones that are on.
LEMMA FlagsAgree ==
    ASSUME NEW r \in Regs, Asked \in Settings, Agrees(r, Asked, CicSize),
           NEW on \in SUBSET (Flag \cup {"PCI_READ"}), NEW off,
           "RAM_DIRECT" \in on => "BYPASS_FIR" \in on
    PROVE  /\ FlagsWith(on, off) \in Settings
           /\ Agrees([r EXCEPT !.control = (@ \cup on) \ off], FlagsWith(on, off), CicSize)
<1>. DEFINE c == (r.control \cup on) \ off
            a == Asked
            flags == IF a.flags = Unknown THEN a.flags ELSE (a.flags \cup on) \ off
            decimation == IF "BYPASS_FIR" \in on \cup off THEN Unknown ELSE a.decimation
            s == [r EXCEPT !.control = c]
            w == FlagsWith(on, off)
<1>1. w = [flags |-> flags, segments |-> a.segments, offset |-> a.offset,
           decimation |-> decimation]
  <2>1. w = [a EXCEPT !.flags = flags, !.decimation = decimation]
    BY DEF FlagsWith
  <2>2. a = [flags |-> a.flags, segments |-> a.segments, offset |-> a.offset,
             decimation |-> a.decimation]
    BY DEF Settings
  <2>. HIDE DEF w, a, flags, decimation
  <2>. QED
    BY <2>1, <2>2
<1>2. flags \in (SUBSET (Flag \cup {"PCI_READ"})) \cup {Unknown}
  BY DEF Settings
<1>3. decimation \in (Decimation \X FirDecimation) \cup {Unknown}
  BY DEF Settings
<1>4. s.control = c /\ s.segments = r.segments /\ s.offset = r.offset /\ s.cic = r.cic /\ s.cic2 = r.cic2 /\ s.fir = r.fir
  BY DEF Regs
<1>5. \/ decimation = Unknown
      \/ /\ decimation = a.decimation
         /\ "BYPASS_FIR" \in c <=> "BYPASS_FIR" \in r.control
         /\ "RAM_DIRECT" \in c => "RAM_DIRECT" \in r.control
  OBVIOUS
<1>6. flags # Unknown => a.flags # Unknown /\ flags = (a.flags \cup on) \ off
  OBVIOUS
<1>. HIDE DEF flags, decimation, s
<1>7. w \in Settings
  BY <1>1, <1>2, <1>3 DEF Settings
<1>8. /\ w.flags = flags /\ w.segments = a.segments /\ w.offset = a.offset
      /\ w.decimation = decimation
  BY <1>1
<1>. HIDE DEF w, a
<1>9. Agrees(s, w, CicSize)
  BY <1>4, <1>5, <1>6, <1>8 DEF Agrees, a
<1>. QED
  BY <1>7, <1>9 DEF s, w

LEMMA WithFields ==
    ASSUME Asked \in Settings, NEW v
    PROVE  /\ With("segments", v) = [flags |-> Asked.flags, segments |-> v,
                                    offset |-> Asked.offset, decimation |-> Asked.decimation]
           /\ With("offset", v) = [flags |-> Asked.flags, segments |-> Asked.segments,
                                  offset |-> v, decimation |-> Asked.decimation]
           /\ With("decimation", v) = [flags |-> Asked.flags, segments |-> Asked.segments,
                                      offset |-> Asked.offset, decimation |-> v]
<1>1. Asked = [flags |-> Asked.flags, segments |-> Asked.segments, offset |-> Asked.offset,
               decimation |-> Asked.decimation]
  BY DEF Settings
<1>. DEFINE a == Asked
<1>. HIDE DEF a
<1>2. /\ [a EXCEPT !.segments = v] = With("segments", v)
      /\ [a EXCEPT !.offset = v] = With("offset", v)
      /\ [a EXCEPT !.decimation = v] = With("decimation", v)
  BY DEF With, a
<1>3. a = [flags |-> a.flags, segments |-> a.segments, offset |-> a.offset,
           decimation |-> a.decimation]
  BY <1>1 DEF a
<1>4. /\ [a EXCEPT !.segments = v] = [flags |-> a.flags, segments |-> v,
                                     offset |-> a.offset, decimation |-> a.decimation]
      /\ [a EXCEPT !.offset = v] = [flags |-> a.flags, segments |-> a.segments,
                                   offset |-> v, decimation |-> a.decimation]
      /\ [a EXCEPT !.decimation = v] = [flags |-> a.flags, segments |-> a.segments,
                                       offset |-> a.offset, decimation |-> v]
  BY <1>3
<1>. QED
  BY <1>2, <1>4 DEF a

LEMMA ControlStep ==
    ASSUME Inv, PbSetRadioControl \/ PbUnsetRadioControl
    PROVE  Inv'
<1>. DEFINE r == regs[cur_board]
<1>1. r \in Regs /\ Asked \in Settings /\ Agrees(r, Asked, CicSize) /\ Leaves(Before, r, {})
  BY Selected
<1>2. ASSUME NEW control \in Directive
      PROVE  /\ control \in SUBSET Control /\ control \in SUBSET (Flag \cup {"PCI_READ"})
             /\ "RAM_DIRECT" \in control => "BYPASS_FIR" \in control
  BY DEF Directive, BypassFir, RamDirect, Control, Flag
<1>3. ASSUME NEW control \in Directive
      PROVE  /\ FlagsWith(control, {}) \in Settings
             /\ Agrees([r EXCEPT !.control = (@ \cup control) \ {}], FlagsWith(control, {}), CicSize)
             /\ FlagsWith({}, control) \in Settings
             /\ Agrees([r EXCEPT !.control = (@ \cup {}) \ control], FlagsWith({}, control), CicSize)
  <2>1. {} \in SUBSET (Flag \cup {"PCI_READ"}) /\ ("RAM_DIRECT" \in {} => "BYPASS_FIR" \in {})
    OBVIOUS
  <2>. QED
    BY <1>1, <1>2, <2>1, FlagsAgree
<1>4. ASSUME NEW control \in Directive, Ends(SetControl(Before, control), FlagsWith(control, {}), {})
      PROVE  Inv'
  <2>. DEFINE s == [r EXCEPT !.control = (@ \cup control) \ {}]
              a == FlagsWith(control, {})
  <2>1. Leaves(SetControl(Before, control), s, {})
    BY <1>1, <1>2, ChangeControl DEF SetControl
  <2>2. Agrees(s, a, CicSize) /\ a \in Settings /\ Ends(SetControl(Before, control), a, {})
    BY <1>3, <1>4
  <2>. HIDE DEF s, a
  <2>. QED
    BY <2>1, <2>2, EndsInv
<1>5. ASSUME NEW control \in Directive, Ends(UnsetControl(Before, control), FlagsWith({}, control), {})
      PROVE  Inv'
  <2>. DEFINE s == [r EXCEPT !.control = (@ \cup {}) \ control]
              a == FlagsWith({}, control)
  <2>1. Leaves(UnsetControl(Before, control), s, {})
    BY <1>1, ChangeControl DEF UnsetControl
  <2>2. Agrees(s, a, CicSize) /\ a \in Settings /\ Ends(UnsetControl(Before, control), a, {})
    BY <1>3, <1>5
  <2>. HIDE DEF s, a
  <2>. QED
    BY <2>1, <2>2, EndsInv
<1>6. CASE Refused
  BY <1>6 DEF Refused, Inv, Types
\* An rpg board does not change, and its user knows it.
<1>7. ASSUME NEW wants \in {FlagsWith(RamDirect, {}), FlagsWith({}, RamDirect)},
             Ends(Before, IgnoredWants(wants), {})
      PROVE  Inv'
  <2>1. CASE "direct" \in Voids
    <3>1. IgnoredWants(wants) = Asked
      BY <2>1 DEF IgnoredWants
    <3>. QED
      BY <1>1, <1>7, <3>1, EndsInv
  <2>2. CASE "direct" \notin Voids
    <3>1. IgnoredWants(wants) = wants /\ wants \in Settings
      BY <1>3, <2>2 DEF IgnoredWants, Directive
    <3>2. /\ wants.segments = Asked.segments /\ wants.offset = Asked.offset
      BY <1>1 DEF FlagsWith, Settings
    <3>3. Agrees(r, wants, CicSize)
      BY <1>1, <2>2, <3>2 DEF Agrees
    <3>. QED
      BY <1>1, <1>7, <3>1, <3>3, EndsInv
  <2>. QED
    BY <2>1, <2>2
<1>8. CASE PbSetRadioControl
  BY <1>4, <1>6, <1>7, <1>8, Zenon DEF PbSetRadioControl, Ignored
<1>9. CASE PbUnsetRadioControl
  BY <1>5, <1>6, <1>7, <1>9, Zenon DEF PbUnsetRadioControl, Ignored
<1>. QED
  BY <1>8, <1>9

LEMMA AmpStep ==
    ASSUME Inv, PbSetAmp
    PROVE  Inv'
<1>. DEFINE r == regs[cur_board]
            s == IF Cur = "rpg" THEN r
                 ELSE [r EXCEPT !.control = @ \ {"FORCE_AVG", "NARROW_BW"}]
            wants == IF Cur # "rpg" /\ "amp" \in Voids THEN FlagsWith({}, {"FORCE_AVG"}) ELSE Asked
<1>1. r \in Regs /\ Asked \in Settings /\ Agrees(r, Asked, CicSize) /\ Leaves(Before, r, {})
  BY Selected
<1>2. CASE Refused
  BY <1>2 DEF Refused, Inv, Types
<1>3. CASE Ends(Amplitude(Before), wants, {})
  <2>1. Leaves(Amplitude(Before), s, {})
    BY <1>1, AmplitudeLeaves
  <2>2. /\ FlagsWith({}, {"FORCE_AVG"}) \in Settings
        /\ Agrees([r EXCEPT !.control = (@ \cup {}) \ {"FORCE_AVG"}], FlagsWith({}, {"FORCE_AVG"}), CicSize)
    BY <1>1, FlagsAgree
  <2>3. CASE Cur = "rpg"
    BY <1>1, <1>3, <2>1, <2>3, EndsInv
  <2>4. CASE Cur # "rpg"
    <3>1. /\ s.control = r.control \ {"FORCE_AVG", "NARROW_BW"} /\ s.segments = r.segments
          /\ s.offset = r.offset /\ s.cic = r.cic /\ s.cic2 = r.cic2 /\ s.fir = r.fir
      BY <1>1, <2>4 DEF Regs
    <3>2. "BYPASS_FIR" \in s.control <=> "BYPASS_FIR" \in r.control
      BY <3>1
    <3>3. CASE "amp" \notin Voids
      <4>. HIDE DEF s
      <4>1. Agrees(s, Asked, CicSize)
        BY <1>1, <3>1, <3>2, <3>3 DEF Agrees
      <4>. QED
        BY <1>1, <1>3, <2>1, <3>3, <4>1, EndsInv
    <3>4. CASE "amp" \in Voids
      <4>. DEFINE f == FlagsWith({}, {"FORCE_AVG"})
                  q == [r EXCEPT !.control = (@ \cup {}) \ {"FORCE_AVG"}]
      <4>1. /\ q.control = r.control \ {"FORCE_AVG"} /\ q.segments = r.segments
            /\ q.offset = r.offset /\ q.cic = r.cic /\ q.cic2 = r.cic2 /\ q.fir = r.fir
        BY <1>1 DEF Regs
      <4>2. f.flags # Unknown => "NARROW_BW" \notin f.flags
        BY <2>2 DEF Settings, Flag
      <4>3. "BYPASS_FIR" \in q.control <=> "BYPASS_FIR" \in r.control
        BY <4>1
      <4>. HIDE DEF f, q, s
      <4>4. Agrees(q, f, CicSize) /\ f \in Settings
        BY <2>2 DEF f, q
      <4>5. (q.control = f.flags /\ f.flags # Unknown) => s.control = f.flags
        BY <3>1, <4>1, <4>2
      <4>6. Agrees(s, f, CicSize)
        BY <3>1, <3>2, <4>1, <4>3, <4>4, <4>5 DEF Agrees
      <4>7. wants = f
        BY <2>4, <3>4 DEF f
      <4>. QED
        BY <1>1, <1>3, <2>1, <4>4, <4>6, <4>7, EndsInv
    <3>. QED
      BY <3>3, <3>4
  <2>. QED
    BY <2>3, <2>4
<1>. QED
  BY <1>2, <1>3 DEF PbSetAmp

\* pb_get_data of a pci board writes back what it has read.
LEMMA PciReads ==
    ASSUME NEW r \in Regs, Cur = "pci", Before = {[r |-> r, reset |-> {}, lost |-> FALSE]}
    PROVE  Leaves(UNION {Write(Write({o.t}, "control", o.v \cup {"PCI_READ"}), "control", o.v) :
                            o \in Reads(CHOOSE t \in Before : TRUE, "control", {})}, r, {})
<1>. DEFINE t == [r |-> r, reset |-> {}, lost |-> FALSE]
            o == [t |-> t, v |-> r.control]
            v == r.control \cup {"PCI_READ"}
            T1 == Write({t}, "control", v)
<1>1. (CHOOSE x \in Before : TRUE) = t
  OBVIOUS
<1>2. Reads(t, "control", {}) = {o}
  BY DEF Reads, Lossy
<1>3. Leaves({t}, r, {}) /\ v \in SUBSET Control
  BY DEF Leaves, Outcome, Regs, Control
<1>4. Leaves(T1, [r EXCEPT !.control = v], {})
  BY <1>3, WriteControl
<1>5. r.control \in SUBSET Control
  BY DEF Regs
<1>6. Leaves(Write(T1, "control", r.control), [[r EXCEPT !.control = v] EXCEPT !.control = r.control], {})
  BY <1>4, <1>5, WriteControl
<1>7. [[r EXCEPT !.control = v] EXCEPT !.control = r.control] = r
  BY DEF Regs
<1>8. o.t = t /\ o.v = r.control
  OBVIOUS
<1>9. UNION {Write(Write({x.t}, "control", x.v \cup {"PCI_READ"}), "control", x.v) : x \in {o}}
        = Write(T1, "control", r.control)
  BY <1>8
<1>. HIDE DEF t, o, T1
<1>. QED
  BY <1>1, <1>2, <1>6, <1>7, <1>9

LEMMA DataStep ==
    ASSUME Inv, PbGetData
    PROVE  Inv'
<1>. DEFINE r == regs[cur_board]
            on == {"PCI_READ"}
            r1 == [r EXCEPT !.control = (@ \cup on) \ {}]
            r2 == [r EXCEPT !.control = (@ \cup {}) \ on]
<1>1. r \in Regs /\ Asked \in Settings /\ Agrees(r, Asked, CicSize) /\ Leaves(Before, r, {})
  BY Selected
<1>2. on \in SUBSET Control /\ on \in SUBSET (Flag \cup {"PCI_READ"})
  BY DEF Control
<1>3. Leaves(SetControl(Before, on), r1, {})
  BY <1>1, <1>2, ChangeControl DEF SetControl
<1>4. r1 \in Regs /\ r1.control = (r.control \cup on) \ {}
  BY <1>1, <1>2 DEF Regs
<1>5. /\ FlagsWith(on, {}) \in Settings /\ Agrees(r1, FlagsWith(on, {}), CicSize)
      /\ FlagsWith({}, on) \in Settings /\ Agrees(r2, FlagsWith({}, on), CicSize)
  BY <1>1, <1>2, FlagsAgree
<1>6. CASE Refused
  BY <1>6 DEF Refused, Inv, Types
<1>7. CASE Ends(UnsetControl(SetControl(Before, on), on), FlagsWith({}, on), {})
  <2>1. r2 = [r1 EXCEPT !.control = (@ \cup {}) \ on]
    <3>1. (((r.control \cup on) \ {}) \cup {}) \ on = (r.control \cup {}) \ on
      OBVIOUS
    <3>. QED
      BY <1>1, <3>1, Rewritten
  <2>. HIDE DEF r1, r2
  <2>2. Leaves(UnsetControl(SetControl(Before, on), on), r2, {})
    BY <1>3, <1>4, <2>1, ChangeControl DEF UnsetControl
  <2>. QED
    BY <1>5, <1>7, <2>2, EndsInv
<1>8. CASE Ends(SetControl(Before, on), IF "memory" \in Voids THEN FlagsWith(on, {}) ELSE Asked, {})
  <2>1. CASE "memory" \in Voids
    BY <1>3, <1>5, <1>8, <2>1, EndsInv
  <2>2. CASE "memory" \notin Voids
    <3>1. /\ r1.segments = r.segments /\ r1.offset = r.offset /\ r1.cic = r.cic /\ r1.cic2 = r.cic2 /\ r1.fir = r.fir
          /\ "BYPASS_FIR" \in r1.control <=> "BYPASS_FIR" \in r.control
      BY <1>1 DEF Regs
    <3>. HIDE DEF r1
    <3>2. Agrees(r1, Asked, CicSize)
      BY <1>1, <2>2, <3>1 DEF Agrees
    <3>. QED
      BY <1>1, <1>3, <1>8, <2>2, <3>2, EndsInv
  <2>. QED
    BY <2>1, <2>2
<1>9. CASE /\ Cur = "pci"
           /\ Ends(UNION {Write(Write({o.t}, "control", o.v \cup {"PCI_READ"}), "control", o.v) :
                             o \in Reads(CHOOSE t \in Before : TRUE, "control", {})}, Asked, {})
  <2>. DEFINE T == UNION {Write(Write({o.t}, "control", o.v \cup {"PCI_READ"}), "control", o.v) :
                             o \in Reads(CHOOSE t \in Before : TRUE, "control", {})}
  <2>1. Leaves(T, r, {})
    BY <1>1, <1>9, PciReads DEF Before
  <2>2. Ends(T, Asked, {})
    BY <1>9
  <2>. HIDE DEF T
  <2>. QED
    BY <1>1, <2>1, <2>2, EndsInv
<1>. QED
  BY <1>6, <1>7, <1>8, <1>9 DEF PbGetData

LEMMA OverflowStep ==
    ASSUME Inv, PbOverflow
    PROVE  Inv'
<1>. DEFINE r == regs[cur_board]
            pulsed == [r EXCEPT !.offset = @ \ {"OVERFLOW_RESET"}]
            s == IF Cur = "rpg" /\ kind[First].family = "rpg" THEN pulsed ELSE r
            wants == IF "shared" \in Voids /\ Cur = "rpg" /\ Asked.offset # Unknown
                     THEN IF "OVERFLOW_RESET" \in Asked.offset THEN With("offset", Unknown) ELSE Asked
                     ELSE Asked
            done == IF "first" \in Voids /\ Cur = "rpg" /\ kind[First].family # "rpg" THEN {} ELSE {"overflow"}
            z == IF Cur = "rpg" /\ kind[First].family # "rpg" THEN {} ELSE {"overflow"}
<1>1. r \in Regs /\ Asked \in Settings /\ Agrees(r, Asked, CicSize) /\ Leaves(Before, r, {})
  BY Selected
<1>2. CASE Refused
  BY <1>2 DEF Refused, Inv, Types
<1>3. CASE Ends(OverflowReset(Before), wants, done)
  <2>1. Leaves(OverflowReset(Before), s, z)
    BY <1>1, OverflowLeaves
  <2>2. With("offset", Unknown) = [flags |-> Asked.flags, segments |-> Asked.segments,
                                   offset |-> Unknown, decimation |-> Asked.decimation]
    BY <1>1, WithFields
  <2>3. wants = Asked \/ wants = With("offset", Unknown)
    OBVIOUS
  <2>4. wants \in Settings
    BY <1>1, <2>2, <2>3 DEF Settings
  <2>5. done \in SUBSET Counter /\ ({"lost", "first"} \subseteq Voids => done \subseteq z)
    BY DEF Counter
  <2>6. Agrees(s, wants, CicSize)
    <3>1. /\ s.control = r.control /\ s.segments = r.segments /\ s.cic = r.cic /\ s.cic2 = r.cic2 /\ s.fir = r.fir
          /\ s.offset = r.offset \/ (Cur = "rpg" /\ s.offset = r.offset \ {"OVERFLOW_RESET"})
      BY <1>1 DEF Regs
    <3>2. /\ wants.flags = Asked.flags /\ wants.segments = Asked.segments
          /\ wants.decimation = Asked.decimation
          /\ wants.offset # Unknown => wants.offset = Asked.offset
      BY <2>2, <2>3
    <3>3. ("shared" \in Voids /\ Cur = "rpg" /\ wants.offset # Unknown) =>
              "OVERFLOW_RESET" \notin Asked.offset
      BY <2>2
    <3>. HIDE DEF s, wants
    <3>4. ({"lost", "ored", "shared"} \subseteq Voids /\ wants.offset # Unknown) => s.offset = wants.offset
      BY <1>1, <3>1, <3>2, <3>3 DEF Agrees
    <3>. QED
      BY <1>1, <3>1, <3>2, <3>4 DEF Agrees
  <2>. HIDE DEF s, wants, done, z
  <2>. QED
    BY <1>3, <2>1, <2>4, <2>5, <2>6, EndsInv
<1>. QED
  BY <1>2, <1>3 DEF PbOverflow

LEMMA ScanStep ==
    ASSUME Inv, PbScanCount
    PROVE  Inv'
<1>. DEFINE r == regs[cur_board]
            s == IF Cur = "rpg" THEN [r EXCEPT !.segments = @ \ {"COUNT_RESET"}] ELSE r
<1>1. r \in Regs /\ Asked \in Settings /\ Agrees(r, Asked, CicSize) /\ Leaves(Before, r, {})
  BY Selected
<1>2. CASE Refused
  BY <1>2 DEF Refused, Inv, Types
<1>3. CASE Ends(CountReset(Before), Asked, {"scan"})
  <2>1. Leaves(CountReset(Before), s, {} \cup {"scan"})
    BY <1>1, CountLeaves
  <2>2. /\ s.control = r.control /\ s.offset = r.offset /\ s.cic = r.cic /\ s.cic2 = r.cic2 /\ s.fir = r.fir
        /\ s.segments = r.segments \/ s.segments = r.segments \ {"COUNT_RESET"}
    BY <1>1 DEF Regs
  <2>3. (r.segments = Asked.segments /\ Asked.segments # Unknown) => s.segments = r.segments
    BY <1>1, <2>2 DEF Bits, Settings
  <2>. HIDE DEF s
  <2>4. Agrees(s, Asked, CicSize)
    BY <1>1, <2>2, <2>3 DEF Agrees
  <2>5. {"scan"} \in SUBSET Counter /\ {"scan"} \subseteq {} \cup {"scan"}
    BY DEF Counter
  <2>. QED
    BY <1>1, <1>3, <2>1, <2>4, <2>5, EndsInv
<1>. QED
  BY <1>2, <1>3 DEF PbScanCount

\* The number of segments, if what the register had before does not show.
LEMMA SegmentsAgree ==
    ASSUME NEW bits \in SUBSET Bits, "ored" \in Voids, SegmentsAsked(bits) # Unknown
    PROVE  (IF Cur = "rpg" THEN (regs[cur_board].segments \ {"SEGMENT_RESET"}) \cup bits ELSE bits)
              = SegmentsAsked(bits)
<1>1. SegmentsAsked(bits) = bits /\ (Cur = "rpg" => regs[cur_board].segments \subseteq bits)
  BY DEF SegmentsAsked
<1>2. "SEGMENT_RESET" \notin bits
  BY DEF Bits
<1>. QED
  BY <1>1, <1>2

LEMMA SegmentsStep ==
    ASSUME Inv, PbSetScanSegments
    PROVE  Inv'
<1>. DEFINE r == regs[cur_board]
<1>1. r \in Regs /\ Asked \in Settings /\ Agrees(r, Asked, CicSize) /\ Leaves(Before, r, {})
  BY Selected
<1>2. CASE Refused
  BY <1>2 DEF Refused, Inv, Types
<1>3. ASSUME NEW bits \in SUBSET Bits,
             Ends(Segments(Before, bits), With("segments", SegmentsAsked(bits)), {"segment"})
      PROVE  Inv'
  <2>. DEFINE v == IF Cur = "rpg" THEN (r.segments \ {"SEGMENT_RESET"}) \cup bits ELSE bits
              s == [r EXCEPT !.segments = v]
              a == With("segments", SegmentsAsked(bits))
  <2>1. Leaves(Segments(Before, bits), s, {} \cup {"segment"})
    BY <1>1, SegmentsLeaves
  <2>2. /\ s.control = r.control /\ s.offset = r.offset /\ s.cic = r.cic /\ s.cic2 = r.cic2 /\ s.fir = r.fir
        /\ s.segments = v
    BY <1>1 DEF Regs
  <2>3. a = [flags |-> Asked.flags, segments |-> SegmentsAsked(bits), offset |-> Asked.offset,
             decimation |-> Asked.decimation]
    BY <1>1, WithFields
  <2>4. SegmentsAsked(bits) \in (SUBSET Bits) \cup {Unknown}
    BY DEF SegmentsAsked
  <2>. HIDE DEF a
  <2>5. a \in Settings
    BY <1>1, <2>3, <2>4 DEF Settings
  <2>6. /\ a.flags = Asked.flags /\ a.offset = Asked.offset /\ a.decimation = Asked.decimation
        /\ a.segments = SegmentsAsked(bits)
    BY <2>3
  <2>7. ("ored" \in Voids /\ a.segments # Unknown) => v = a.segments
    BY <2>6, SegmentsAgree
  <2>. HIDE DEF s, v
  <2>8. Agrees(s, a, CicSize)
    BY <1>1, <2>2, <2>6, <2>7 DEF Agrees
  <2>9. {"segment"} \in SUBSET Counter /\ {"segment"} \subseteq {} \cup {"segment"}
    BY DEF Counter
  <2>10. Ends(Segments(Before, bits), a, {"segment"})
    BY <1>3 DEF a
  <2>. QED
    BY <2>1, <2>5, <2>8, <2>9, <2>10, EndsInv
<1>. QED
  BY <1>2, <1>3 DEF PbSetScanSegments

LEMMA OffsetStep ==
    ASSUME Inv, PbAdcZero
    PROVE  Inv'
<1>. DEFINE r == regs[cur_board]
<1>1. r \in Regs /\ Asked \in Settings /\ Agrees(r, Asked, CicSize) /\ Leaves(Before, r, {})
  BY Selected
<1>2. PICK bits \in IF Cur = "rpg" THEN SUBSET OffsetBits ELSE {{}, {"bit0"}} :
        Ends(Offset(Before, bits),
             With("offset", IF "ored" \in Voids /\ Cur = "rpg" /\ ~(r.offset \subseteq bits)
                            THEN Unknown ELSE bits), {})
  BY DEF PbAdcZero
<1>. DEFINE u == IF "ored" \in Voids /\ Cur = "rpg" /\ ~(r.offset \subseteq bits) THEN Unknown ELSE bits
            a == With("offset", u)
            v == IF Cur = "rpg" THEN r.offset \cup bits ELSE bits
            s == [r EXCEPT !.offset = v]
<1>3. bits \in SUBSET OffsetBits
  BY <1>2 DEF OffsetBits
<1>4. PICK y : Leaves(Offset(Before, bits), s, y)
  BY <1>1, <1>3, OffsetLeaves
<1>5. /\ s.control = r.control /\ s.segments = r.segments /\ s.cic = r.cic /\ s.cic2 = r.cic2 /\ s.fir = r.fir
      /\ s.offset = v
  BY <1>1 DEF Regs
<1>6. ("ored" \in Voids /\ u # Unknown) => v = u
  OBVIOUS
<1>7. u \in (SUBSET OffsetBits) \cup {Unknown}
  BY <1>3
<1>8. Ends(Offset(Before, bits), a, {})
  BY <1>2
<1>. HIDE DEF u, v, s
<1>9. a = [flags |-> Asked.flags, segments |-> Asked.segments, offset |-> u,
           decimation |-> Asked.decimation]
  BY <1>1, WithFields
<1>. HIDE DEF a
<1>10. a \in Settings
  BY <1>1, <1>7, <1>9 DEF Settings
<1>11. Agrees(s, a, CicSize)
  <2>1. /\ a.flags = Asked.flags /\ a.segments = Asked.segments /\ a.decimation = Asked.decimation
        /\ a.offset = u
    BY <1>9
  <2>. QED
    BY <1>1, <1>5, <1>6, <2>1 DEF Agrees
<1>12. {} \in SUBSET Counter /\ {} \subseteq y
  OBVIOUS
<1>. QED
  BY <1>4, <1>8, <1>10, <1>11, <1>12, EndsInv

\* A filter that is set up by name.
LEMMA FilterStep ==
    ASSUME Inv, PbSetupCic \/ PbSetupFir
    PROVE  Inv'
<1>. DEFINE r == regs[cur_board]
            a == With("decimation", Unknown)
<1>1. r \in Regs /\ Asked \in Settings /\ Agrees(r, Asked, CicSize) /\ Leaves(Before, r, {})
  BY Selected
<1>2. a = [flags |-> Asked.flags, segments |-> Asked.segments, offset |-> Asked.offset,
           decimation |-> Unknown]
  BY <1>1, WithFields
<1>. HIDE DEF a
<1>3. a \in Settings
  BY <1>1, <1>2 DEF Settings
<1>4. /\ a.flags = Asked.flags /\ a.segments = Asked.segments /\ a.offset = Asked.offset
      /\ a.decimation = Unknown
  BY <1>2
<1>5. ASSUME NEW s, s.control = r.control, s.segments = r.segments, s.offset = r.offset
      PROVE  Agrees(s, a, CicSize)
  BY <1>1, <1>4, <1>5 DEF Agrees
<1>6. CASE Refused
  BY <1>6 DEF Refused, Inv, Types
<1>7. ASSUME NEW d \in Decimation, InRange(d), Ends(Cic(Before, d), a, {})
      PROVE  Inv'
  <2>1. PICK s : /\ Leaves(Cic(Before, d), s, {})
                 /\ s.control = r.control /\ s.segments = r.segments /\ s.offset = r.offset
    BY <1>1, <1>7, RadioAssumption, Selected, CicLeaves
  <2>2. Agrees(s, a, CicSize)
    BY <1>5, <2>1
  <2>. QED
    BY <1>3, <1>7, <2>1, <2>2, EndsInv
<1>8. ASSUME NEW d \in FirDecimation, Ends(Write(Before, "fir", d), a, {})
      PROVE  Inv'
  <2>. DEFINE s == [r EXCEPT !.fir = d]
  <2>1. Leaves(Write(Before, "fir", d), s, {})
    BY <1>1, WriteFilters
  <2>2. s.control = r.control /\ s.segments = r.segments /\ s.offset = r.offset
    BY <1>1 DEF Regs
  <2>. HIDE DEF s
  <2>3. Agrees(s, a, CicSize)
    BY <1>5, <2>2
  <2>. QED
    BY <1>3, <1>8, <2>1, <2>3, EndsInv
<1>. QED
  BY <1>6, <1>7, <1>8 DEF PbSetupCic, PbSetupFir, a

LEMMA FiltersStep ==
    ASSUME Inv, PbSetupFilters
    PROVE  Inv'
<1>. DEFINE r == regs[cur_board]
            B == {"BYPASS_FIR"}
            on(bypass) == IF bypass THEN B ELSE {}
            flags(bypass) == FlagsWith(on(bypass), B \ on(bypass))
<1>1. r \in Regs /\ Asked \in Settings /\ Agrees(r, Asked, CicSize) /\ Leaves(Before, r, {})
  BY Selected
<1>2. PICK bypass \in BOOLEAN :
        \/ \E d \in Decimation :
              /\ InRange(d)
              /\ Ends(Filters(Before, bypass, d),
                      [flags(bypass) EXCEPT !.decimation =
                          Answered(flags(bypass).flags, d, IF bypass THEN 1 ELSE 8)], {})
        \/ Ends(Bypass(Before, bypass), IF "partial" \in Voids THEN flags(bypass) ELSE Asked, {})
  BY DEF PbSetupFilters, BypassFir
<1>. DEFINE c == IF bypass THEN r.control \cup B ELSE r.control \ B
            s == [r EXCEPT !.control = c]
            f == flags(bypass)
<1>3. Leaves(Bypass(Before, bypass), s, {})
  <2>1. [r EXCEPT !.control = IF bypass THEN @ \cup {"BYPASS_FIR"} ELSE @ \ {"BYPASS_FIR"}] = s
    OBVIOUS
  <2>. QED
    BY <1>1, <2>1, BypassLeaves
<1>4. f \in Settings /\ Agrees(s, f, CicSize)
  <2>1. /\ on(bypass) \in SUBSET (Flag \cup {"PCI_READ"})
        /\ "RAM_DIRECT" \in on(bypass) => "BYPASS_FIR" \in on(bypass)
    BY DEF Flag
  <2>2. (r.control \cup on(bypass)) \ (B \ on(bypass)) = c
    OBVIOUS
  <2>3. /\ FlagsWith(on(bypass), B \ on(bypass)) \in Settings
        /\ Agrees([r EXCEPT !.control = (@ \cup on(bypass)) \ (B \ on(bypass))],
                  FlagsWith(on(bypass), B \ on(bypass)), CicSize)
    BY <1>1, <2>1, FlagsAgree
  <2>. HIDE DEF on, c
  <2>. QED
    BY <2>2, <2>3
<1>5. /\ s.control = c /\ s.segments = r.segments /\ s.offset = r.offset
      /\ s.cic = r.cic /\ s.cic2 = r.cic2 /\ s.fir = r.fir
  BY <1>1 DEF Regs
<1>6. c \in SUBSET Control
  BY <1>1 DEF Regs, Control, Flag
<1>7. s \in Regs
  BY <1>1, <1>6 DEF Regs
<1>8. "BYPASS_FIR" \in c <=> bypass
  OBVIOUS
<1>9. {} \in SUBSET Counter /\ {} \subseteq {}
  OBVIOUS
<1>. HIDE DEF c, s, f, on
<1>10. CASE Ends(Bypass(Before, bypass), IF "partial" \in Voids THEN f ELSE Asked, {})
  <2>1. CASE "partial" \in Voids
    BY <1>3, <1>4, <1>9, <1>10, <2>1, EndsInv
  <2>2. CASE "partial" \notin Voids
    <3>1. Agrees(s, Asked, CicSize)
      BY <1>1, <1>5, <2>2 DEF Agrees
    <3>. QED
      BY <1>1, <1>3, <1>9, <1>10, <2>2, <3>1, EndsInv
  <2>. QED
    BY <2>1, <2>2
<1>11. ASSUME NEW d \in Decimation, InRange(d),
              Ends(Filters(Before, bypass, d),
                   [f EXCEPT !.decimation = Answered(f.flags, d, IF bypass THEN 1 ELSE 8)], {})
       PROVE  Inv'
  <2>. DEFINE fir == IF bypass THEN 1 ELSE 8
              x == Answered(f.flags, d, fir)
              a == [f EXCEPT !.decimation = x]
              T == Bypass(Before, bypass)
  <2>1. PICK s1 : /\ Leaves(Cic(T, d), s1, {}) /\ s1 \in Regs
                  /\ s1.control = s.control /\ s1.segments = s.segments /\ s1.offset = s.offset
                  /\ (CicSize = "cut" => High(d) = 0) =>
                         1 + s1.cic + (IF CicSize = "wide" THEN Half * s1.cic2 ELSE 0) = d
    BY <1>3, <1>7, <1>11, RadioAssumption, Selected, CicLeaves
  <2>. DEFINE s2 == [s1 EXCEPT !.fir = 8]
              s3 == IF bypass THEN s1 ELSE s2
  <2>2. Leaves(Write(Cic(T, d), "fir", 8), s2, {})
    BY <2>1, WriteFilters DEF FirDecimation
  <2>3. Leaves(Filters(Before, bypass, d), s3, {})
    BY <2>1, <2>2 DEF Filters
  <2>4. /\ s3.control = s.control /\ s3.segments = s.segments /\ s3.offset = s.offset
        /\ s3.cic = s1.cic /\ s3.cic2 = s1.cic2 /\ (~bypass => s3.fir = 8)
    BY <2>1 DEF Regs
  <2>5. a = [flags |-> f.flags, segments |-> f.segments, offset |-> f.offset, decimation |-> x]
    BY <1>4 DEF Settings
  <2>6. x = Unknown \/ (x = <<d, fir>> /\ f.flags # Unknown /\ "RAM_DIRECT" \notin f.flags
                          /\ ("cut" \in Voids => (CicSize = "cut" => High(d) = 0)))
    BY DEF Answered
  <2>7. fir \in FirDecimation /\ <<d, fir>> \in Decimation \X FirDecimation
    BY DEF FirDecimation
  <2>. HIDE DEF s3, a, x
  <2>8. a \in Settings
    <3>1. x \in (Decimation \X FirDecimation) \cup {Unknown}
      BY <2>6, <2>7
    <3>. QED
      BY <1>4, <2>5, <3>1 DEF Settings
  <2>9. /\ a.flags = f.flags /\ a.segments = f.segments /\ a.offset = f.offset /\ a.decimation = x
    BY <2>5
  <2>10. ASSUME {"lost", "amp", "memory", "direct", "partial", "cut"} \subseteq Voids, x # Unknown
         PROVE  /\ "RAM_DIRECT" \notin s3.control
                /\ x = <<1 + s3.cic + IF CicSize = "wide" THEN Half * s3.cic2 ELSE 0,
                         IF "BYPASS_FIR" \in s3.control THEN 1 ELSE s3.fir>>
    <3>1. s3.control = f.flags
      BY <1>4, <2>4, <2>6, <2>10 DEF Agrees
    <3>2. "BYPASS_FIR" \in s3.control <=> bypass
      BY <1>5, <1>8, <2>4
    <3>3. fir = IF "BYPASS_FIR" \in s3.control THEN 1 ELSE s3.fir
      BY <2>4, <3>2
    <3>4. d = 1 + s3.cic + IF CicSize = "wide" THEN Half * s3.cic2 ELSE 0
      BY <2>1, <2>4, <2>6, <2>10
    <3>. QED
      BY <2>6, <2>10, <3>1, <3>3, <3>4
  <2>11. Agrees(s3, a, CicSize)
    BY <1>4, <2>4, <2>9, <2>10 DEF Agrees
  <2>. QED
    BY <1>9, <1>11, <2>3, <2>8, <2>11, EndsInv DEF a, x
<1>. QED
  BY <1>2, <1>10, <1>11 DEF f

\* The defaults of an rpg board: both counters are reset, and what shares
\* their registers is cleared.
LEMMA RpgDefaultsLeave ==
    ASSUME Types, Cur = "rpg", NEW r, r = regs[cur_board]
    PROVE  \E s, z :
              /\ Leaves(Defaults, s, z) /\ {"scan", "segment"} \subseteq z
              /\ s.control = r.control /\ s.cic = r.cic /\ s.cic2 = r.cic2 /\ s.fir = r.fir /\ s.offset = {}
              /\ s.segments \subseteq r.segments
<1>. DEFINE T1 == CountReset(Before)
            T2 == OverflowReset(T1)
            T3 == Write(T2, "offset", {})
            T4 == Segments(T3, {})
            r1 == [r EXCEPT !.segments = @ \ {"COUNT_RESET"}]
            z1 == {} \cup {"scan"}
<1>1. r \in Regs /\ Leaves(Before, r, {})
  BY BeforeLeaves DEF Types
<1>2. Leaves(T1, r1, z1)
  BY <1>1, CountLeaves
<1>3. /\ r1 \in Regs /\ r1.control = r.control /\ r1.cic = r.cic /\ r1.cic2 = r.cic2 /\ r1.fir = r.fir
      /\ r1.segments \subseteq r.segments
  BY <1>1 DEF Regs
<1>. HIDE DEF T1, r1
<1>4. \E r2, z2 :
        /\ Leaves(T2, r2, z2) /\ z1 \subseteq z2 /\ r2 \in Regs
        /\ r2.control = r1.control /\ r2.cic = r1.cic /\ r2.cic2 = r1.cic2 /\ r2.fir = r1.fir
        /\ r2.segments = r1.segments
  <2>1. CASE kind[First].family # "rpg"
    BY <1>2, <1>3, <2>1, OverflowLeaves
  <2>2. CASE kind[First].family = "rpg"
    <3>. DEFINE r2 == [r1 EXCEPT !.offset = @ \ {"OVERFLOW_RESET"}]
    <3>1. Leaves(T2, r2, z1 \cup {"overflow"})
      BY <1>2, <1>3, <2>2, OverflowLeaves
    <3>2. /\ r2 \in Regs /\ r2.control = r1.control /\ r2.cic = r1.cic /\ r2.cic2 = r1.cic2 /\ r2.fir = r1.fir
          /\ r2.segments = r1.segments
      BY <1>3 DEF Regs
    <3>. HIDE DEF r2, T2
    <3>. QED
      BY <3>1, <3>2
  <2>. QED
    BY <2>1, <2>2
<1>5. PICK r2, z2 :
        /\ Leaves(T2, r2, z2) /\ z1 \subseteq z2 /\ r2 \in Regs
        /\ r2.control = r1.control /\ r2.cic = r1.cic /\ r2.cic2 = r1.cic2 /\ r2.fir = r1.fir
        /\ r2.segments = r1.segments
  BY <1>4
<1>. DEFINE r3 == [r2 EXCEPT !.offset = {}]
            r4 == [r3 EXCEPT !.segments = (@ \ {"SEGMENT_RESET"}) \cup {}]
<1>. HIDE DEF T2
<1>6. Leaves(T3, r3, z2)
  BY <1>5, WriteOffset
<1>7. /\ r3 \in Regs /\ r3.control = r2.control /\ r3.cic = r2.cic /\ r3.cic2 = r2.cic2 /\ r3.fir = r2.fir
      /\ r3.segments = r2.segments /\ r3.offset = {}
  BY <1>5 DEF Regs
<1>. HIDE DEF T3, r3
<1>8. Leaves(T4, r4, z2 \cup {"segment"})
  BY <1>6, <1>7, SegmentsLeaves
<1>9. /\ r4.control = r3.control /\ r4.cic = r3.cic /\ r4.cic2 = r3.cic2 /\ r4.fir = r3.fir
      /\ r4.segments \subseteq r3.segments /\ r4.offset = {}
  BY <1>7 DEF Regs
<1>. HIDE DEF r4
<1>10. Defaults = T4
  BY DEF Defaults, T1, T2, T3
<1>11. {"scan", "segment"} \subseteq z2 \cup {"segment"}
  BY <1>5
<1>12. r4.segments \subseteq r.segments
  BY <1>3, <1>5, <1>7, <1>9
<1>. HIDE DEF T4, z1
<1>. QED
  BY <1>3, <1>5, <1>7, <1>8, <1>9, <1>10, <1>11, <1>12

\* Those of the others: no control bits and no segments.
LEMMA PlainDefaultsLeave ==
    ASSUME Types, Cur # "rpg", NEW r, r = regs[cur_board]
    PROVE  \E s : /\ Leaves(Defaults, s, {"segment"})
                  /\ s.control = {} /\ s.segments = {}
<1>. DEFINE T1 == Write(Before, "control", {})
            T2 == Segments(T1, {})
            T3 == Amplitude(T2)
            r1 == [r EXCEPT !.control = {}]
            r2 == [r1 EXCEPT !.segments = {}]
            r3 == [r2 EXCEPT !.control = @ \ {"FORCE_AVG", "NARROW_BW"}]
<1>1. r \in Regs /\ Leaves(Before, r, {})
  BY BeforeLeaves DEF Types
<1>2. Leaves(T1, r1, {})
  BY <1>1, WriteControl
<1>3. r1 \in Regs /\ r1.control = {}
  BY <1>1 DEF Regs
<1>. HIDE DEF T1, r1
<1>4. Leaves(T2, r2, {} \cup {"segment"})
  BY <1>2, <1>3, SegmentsLeaves
<1>5. r2 \in Regs /\ r2.control = {} /\ r2.segments = {}
  BY <1>3 DEF Regs
<1>. HIDE DEF T2, r2
<1>6. Leaves(T3, r3, {} \cup {"segment"})
  BY <1>4, <1>5, AmplitudeLeaves
<1>7. r3.control = {} /\ r3.segments = {}
  BY <1>5 DEF Regs
<1>8. Defaults = T3
  BY DEF Defaults, T1, T2
<1>9. {} \cup {"segment"} = {"segment"}
  OBVIOUS
<1>. HIDE DEF T3, r3
<1>. QED
  BY <1>6, <1>7, <1>8, <1>9

LEMMA DefaultsStep ==
    ASSUME Inv, PbSetDefaults
    PROVE  Inv'
<1>. DEFINE r == regs[cur_board]
            flags == IF Cur = "rpg" THEN Asked.flags ELSE {}
            segments == SegmentsAsked({})
            offset == IF Cur = "rpg" THEN {} ELSE Unknown
            decimation == IF Cur = "rpg" THEN Asked.decimation ELSE Unknown
            a == [Asked EXCEPT !.flags = IF Cur = "rpg" THEN @ ELSE {},
                               !.segments = SegmentsAsked({}),
                               !.offset = IF Cur = "rpg" THEN {} ELSE Unknown,
                               !.decimation = IF Cur = "rpg" THEN @ ELSE Unknown]
            done == IF Cur = "rpg" THEN {"scan", "segment"} ELSE {"segment"}
<1>1. r \in Regs /\ Asked \in Settings /\ Agrees(r, Asked, CicSize)
  BY Selected
<1>2. a = [flags |-> flags, segments |-> segments, offset |-> offset, decimation |-> decimation]
  <2>1. a = [Asked EXCEPT !.flags = flags, !.segments = segments, !.offset = offset,
                          !.decimation = decimation]
    OBVIOUS
  <2>2. Asked = [flags |-> Asked.flags, segments |-> Asked.segments, offset |-> Asked.offset,
                 decimation |-> Asked.decimation]
    BY <1>1 DEF Settings
  <2>. DEFINE b == Asked
  <2>. HIDE DEF a, b, flags, segments, offset, decimation
  <2>3. a = [b EXCEPT !.flags = flags, !.segments = segments, !.offset = offset,
                      !.decimation = decimation]
    BY <2>1 DEF b
  <2>4. b = [flags |-> b.flags, segments |-> b.segments, offset |-> b.offset,
             decimation |-> b.decimation]
    BY <2>2 DEF b
  <2>. QED
    BY <2>3, <2>4
<1>3. Ends(Defaults, a, done)
  BY DEF PbSetDefaults
<1>4. segments = {} \/ segments = Unknown
  BY DEF SegmentsAsked
<1>5. ("ored" \in Voids /\ segments # Unknown) => (Cur = "rpg" => r.segments = {})
  BY DEF SegmentsAsked
<1>. HIDE DEF a, segments
<1>6. a \in Settings
  <2>1. /\ flags \in (SUBSET (Flag \cup {"PCI_READ"})) \cup {Unknown}
        /\ segments \in (SUBSET Bits) \cup {Unknown}
        /\ offset \in (SUBSET OffsetBits) \cup {Unknown}
        /\ decimation \in (Decimation \X FirDecimation) \cup {Unknown}
    BY <1>1, <1>4 DEF Settings
  <2>. HIDE DEF flags, offset, decimation
  <2>. QED
    BY <1>2, <2>1 DEF Settings
<1>7. a.flags = flags /\ a.segments = segments /\ a.offset = offset /\ a.decimation = decimation
  BY <1>2
<1>8. done \in SUBSET Counter
  BY DEF Counter
<1>9. CASE Cur = "rpg"
  <2>1. PICK s, z :
          /\ Leaves(Defaults, s, z) /\ {"scan", "segment"} \subseteq z
          /\ s.control = r.control /\ s.cic = r.cic /\ s.cic2 = r.cic2 /\ s.fir = r.fir /\ s.offset = {}
          /\ s.segments \subseteq r.segments
    BY <1>9, RpgDefaultsLeave DEF Inv
  <2>2. Agrees(s, a, CicSize)
    BY <1>1, <1>4, <1>5, <1>7, <1>9, <2>1 DEF Agrees
  <2>3. done \subseteq z
    BY <1>9, <2>1
  <2>. QED
    BY <1>3, <1>6, <1>8, <2>1, <2>2, <2>3, EndsInv
<1>10. CASE Cur # "rpg"
  <2>1. PICK s : /\ Leaves(Defaults, s, {"segment"})
                 /\ s.control = {} /\ s.segments = {}
    BY <1>10, PlainDefaultsLeave DEF Inv
  <2>2. Agrees(s, a, CicSize)
    BY <1>4, <1>7, <1>10, <2>1 DEF Agrees
  <2>3. done \subseteq {"segment"}
    BY <1>10
  <2>. QED
    BY <1>3, <1>6, <1>8, <2>1, <2>2, <2>3, EndsInv
<1>. QED
  BY <1>9, <1>10

-----------------------------------------------------------------------------
(* All of them.                                                            *)

LEMMA InvStep ==
    ASSUME Inv, [Next]_vars
    PROVE  Inv'
<1>1. CASE PbSelectBoard
  BY <1>1 DEF PbSelectBoard, Inv, Types
<1>2. CASE Counts
  BY <1>2 DEF Counts, Inv, Types
<1>3. CASE UNCHANGED vars
  BY <1>3 DEF vars, Inv, Types
<1>. QED
  BY <1>1, <1>2, <1>3, ControlStep, AmpStep, DataStep, OverflowStep, ScanStep, SegmentsStep,
     OffsetStep, FilterStep, FiltersStep, DefaultsStep DEF Next, Call

LEMMA InvInitially ==
    ASSUME Init
    PROVE  Inv
<1>1. regs = [b \in Board |->
                [control |-> {}, segments |-> {}, offset |-> {}, cic |-> 0, cic2 |-> 0, fir |-> 8]]
  BY DEF Init
<1>2. kind \in [Board -> Kind]
  BY RadioAssumption DEF Init
<1>3. regs \in [Board -> Regs]
  BY <1>1 DEF Regs, FirDecimation, Half
<1>4. asked \in [Board -> Settings]
  BY DEF Init, Settings
<1>5. counting \in [Board -> SUBSET Counter] /\ zeroed \in [Board -> SUBSET Counter]
  BY DEF Init
<1>6. ASSUME NEW b \in Board
      PROVE  Agrees(regs[b], asked[b], kind[b].cic) /\ zeroed[b] \cap counting[b] = {}
  <2>1. regs[b].control = {} /\ regs[b].segments = {} /\ regs[b].offset = {}
    BY <1>1
  <2>2. /\ asked[b].flags = {} /\ asked[b].segments = {} /\ asked[b].offset = {}
        /\ asked[b].decimation = Unknown /\ zeroed[b] = {}
    BY DEF Init
  <2>. QED
    BY <2>1, <2>2 DEF Agrees
<1>. QED
  BY <1>2, <1>3, <1>4, <1>5, <1>6 DEF Inv, Types, Init

\* The inductive invariant, under whatever hazards are void.
THEOREM RegistersAgree == Spec => []Inv
BY InvInitially, InvStep, PTL DEF Spec

\* Registers, settings and counters keep their types, and no call leaves a
\* reset bit on where the number of segments is known (if.c).
THEOREM RadioTypes ==
    ASSUME {"lost", "ored"} \subseteq Voids
    PROVE  Spec => []TypeOK
<1>1. Inv => TypeOK
  BY DEF Inv, Types, Agrees, TypeOK, Regs, Settings, SegmentBits
<1>. QED
  BY <1>1, RegistersAgree, PTL

\* The control bits are the ones asked for, although pb_set_amp, pb_get_data,
\* pb_overflow and pb_setup_filters read, change and write back the same
\* register (if.c).
THEOREM FlagsStay ==
    ASSUME {"lost", "amp", "memory", "direct", "partial"} \subseteq Voids
    PROVE  Spec => []FlagsAsAsked
<1>1. Inv => FlagsAsAsked
  BY DEF Inv, Agrees, FlagsAsAsked
<1>. QED
  BY <1>1, RegistersAgree, PTL

\* The board has the last number of segments that was set.
THEOREM SegmentsStay ==
    ASSUME {"lost", "ored"} \subseteq Voids
    PROVE  Spec => []SegmentsAsAsked
<1>1. Inv => SegmentsAsAsked
  BY DEF Inv, Agrees, SegmentsAsAsked
<1>. QED
  BY <1>1, RegistersAgree, PTL

\* And the last offset, whose register the overflow counter shares.
THEOREM OffsetStays ==
    ASSUME {"lost", "ored", "shared"} \subseteq Voids
    PROVE  Spec => []OffsetAsAsked
<1>1. Inv => OffsetAsAsked
  BY DEF Inv, Agrees, OffsetAsAsked
<1>. QED
  BY <1>1, RegistersAgree, PTL

\* The decimation that pb_setup_filters answered is the board's until a filter
\* is changed by name.
THEOREM DecimationStays ==
    ASSUME {"lost", "amp", "memory", "direct", "partial", "cut"} \subseteq Voids
    PROVE  Spec => []DecimationAsAnswered
<1>1. Inv => DecimationAsAnswered
  BY DEF Inv, Agrees, DecimationAsAnswered, Decimates
<1>. QED
  BY <1>1, RegistersAgree, PTL

\* A counter that a call says it has reset was reset, on the selected board.
THEOREM CountersZeroed ==
    ASSUME {"lost", "first"} \subseteq Voids
    PROVE  Spec => []ZeroedAreZero
<1>1. Inv => ZeroedAreZero
  BY DEF Inv, ZeroedAreZero
<1>. QED
  BY <1>1, RegistersAgree, PTL

=============================================================================

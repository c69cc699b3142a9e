-------------------------- MODULE Programming_proofs --------------------------
(***************************************************************************)
(* Programming for any number of boards, of any families, with files of    *)
(* any size: the types, and, as long as every hazard voids what it touches *)
(* (Voids is complete), the position of each board, the promise of         *)
(* ProgramStore, and what the documentation says of a returned address and *)
(* of an acknowledged word.                                                *)
(***************************************************************************)
EXTENDS Programming, TLAPS

Word == Datum \cup {Junk}
Block(f) == [words : [0 .. Size[f] - 1 -> Word], acked : 0 .. Size[f]]

\* The hardware of a board, with the fields TypeOK leaves out.
HwState ==
    {h \in [mem : [File -> UNION {Memory(f) : f \in File}], file : File \cup {Nowhere},
            pos : Nat, part : 0 .. BPW - 1, amode : BOOLEAN] :
        \A f \in File : h.mem[f] \in Memory(f)}

TypeInv ==
    /\ TypeOK
    /\ hw \in [Board -> HwState]
    /\ open \in [Board -> File \cup {Nowhere}]

Lost(h) == \A f \in File : h.mem[f] = Unknown

\* A board whose next word goes where the library says.
ToAddress(k, o) == k = "pcie" \/ (k = "extreg" /\ o # Program)

\* Every word that was acknowledged is one of the user's.
Stored(h) ==
    \A f \in File : h.mem[f] # Unknown =>
        \A i \in 0 .. h.mem[f].acked - 1 : h.mem[f].words[i] \in Datum

\* Only a usb2 board has an address register, and it takes words whole.
Sane(h, k) == (h.amode => k = "usb2") /\ (k = "usb2" => h.part = 0)

\* What the library and the hardware h of one board of family k agree on, if
\* the file o is open, n instructions and a registers were counted.
Agree(h, o, k, n, a) ==
    /\ k # "usb2" => o \in {Nowhere, Program, Freq(0), Phase(0)}
    /\ k = "pcie" => o \in {Nowhere, Program}
    /\ Sane(h, k) /\ Stored(h)
    /\ h.amode => Lost(h)
    /\ (o \in File /\ ~ToAddress(k, o)) => (h.file = o \/ Lost(h))
    /\ (o \in File /\ h.mem[o] # Unknown) =>
          /\ h.mem[o].acked = IF o = Program THEN n ELSE a
          /\ ~ToAddress(k, o) =>
                h.file = o /\ h.pos = h.mem[o].acked /\ h.part = 0 /\ ~h.amode

AllAgree ==
    \A b \in Board : Agree(hw[b], open[b], kind[b], num_instructions, cur_device_addr)

Inv == TypeInv /\ AllAgree

AllVoid == Voids = {"interleaved", "lost", "overfull"}

-----------------------------------------------------------------------------
(* The hardware's operators.                                               *)

\* What is not unknown of a file is a block of words, some of them acknowledged.
LEMMA KnownMemory ==
    ASSUME NEW f \in File, NEW m \in Memory(f), m # Unknown
    PROVE  /\ m \in Block(f)
           /\ m.words \in [0 .. Size[f] - 1 -> Word] /\ m.acked \in 0 .. Size[f]
BY DEF Memory, Block, Word

LEMMA BlockKnown ==
    ASSUME NEW f \in File, NEW m \in Block(f)
    PROVE  m \in Memory(f) /\ m # Unknown
BY UnknownAssumption DEF Memory, Block, Word

LEMMA FreshBlock ==
    ASSUME NEW f \in File
    PROVE  Fresh(f) \in Block(f) /\ Fresh(f).acked = 0
BY ProgrammingAssumption DEF Fresh, Block, Word

LEMMA SizeNat == \A f \in File : Size[f] \in Nat \ {0}
BY ProgrammingAssumption

\* The hardware with one file replaced.
LEMMA NewMemory ==
    ASSUME NEW h \in HwState, NEW f \in File, NEW m \in Memory(f)
    PROVE  /\ [h EXCEPT !.mem[f] = m] \in HwState
           /\ [h EXCEPT !.mem[f] = m].mem = [h.mem EXCEPT ![f] = m]
<1>1. h.mem \in [File -> UNION {Memory(g) : g \in File}] /\ \A g \in File : h.mem[g] \in Memory(g)
  BY DEF HwState
<1>2. [h.mem EXCEPT ![f] = m] \in [File -> UNION {Memory(g) : g \in File}]
  BY <1>1
<1>3. \A g \in File : [h.mem EXCEPT ![f] = m][g] \in Memory(g)
  BY <1>1
<1>. QED
  BY <1>2, <1>3 DEF HwState

LEMMA MemberFields ==
    ASSUME NEW h \in HwState
    PROVE  /\ \A f \in File : h.mem[f] \in Memory(f)
           /\ DOMAIN h.mem = File
           /\ h.file \in File \cup {Nowhere} /\ h.pos \in Nat
           /\ h.part \in 0 .. BPW - 1 /\ h.amode \in BOOLEAN
BY DEF HwState

\* From h to g no file but f changed, and of f no word before address a.
Beyond(h, g, f, a) ==
    /\ \A e \in File : e # f => g.mem[e] = h.mem[e]
    /\ f \in File => (h.mem[f] = Unknown <=> g.mem[f] = Unknown)
    /\ (f \in File /\ h.mem[f] # Unknown) =>
          /\ g.mem[f].acked = h.mem[f].acked
          /\ \A i \in 0 .. Size[f] - 1 : i < a => g.mem[f].words[i] = h.mem[f].words[i]

\* The word there is w.
At(g, f, a, w) == (f \in File /\ g.mem[f] # Unknown /\ a < Size[f]) => g.mem[f].words[a] = w

SameRegisters(h, g) ==
    g.file = h.file /\ g.pos = h.pos /\ g.part = h.part /\ g.amode = h.amode

LEMMA PutFacts ==
    ASSUME NEW h \in HwState, NEW f, NEW a \in Nat, NEW w \in Word, NEW g, g = Put(h, f, a, w)
    PROVE  /\ g \in HwState
           /\ SameRegisters(h, g)
           /\ Beyond(h, g, f, a) /\ At(g, f, a, w)
<1>1. CASE f \in File /\ a < Size[f] /\ h.mem[f] # Unknown
  <2>. DEFINE m == [h.mem[f] EXCEPT !.words[a] = w]
  <2>1. h.mem[f] \in Block(f) /\ h.mem[f].words \in [0 .. Size[f] - 1 -> Word]
    BY <1>1, KnownMemory, MemberFields
  <2>2. m.words = [h.mem[f].words EXCEPT ![a] = w] /\ m.acked = h.mem[f].acked
    BY <2>1 DEF Block
  <2>3. m \in Block(f)
    BY <1>1, <2>1, SizeNat DEF Block
  <2>4. m \in Memory(f) /\ m # Unknown
    BY <1>1, <2>3, BlockKnown
  <2>5. g = [h EXCEPT !.mem[f] = m]
    BY <1>1 DEF Put, HwState
  <2>. HIDE DEF m
  <2>6. \A i \in 0 .. Size[f] - 1 : m.words[i] = IF i = a THEN w ELSE h.mem[f].words[i]
    BY <2>1, <2>2
  <2>7. g \in HwState /\ g.mem = [h.mem EXCEPT ![f] = m]
    BY <1>1, <2>4, <2>5, NewMemory
  <2>8. SameRegisters(h, g)
    BY <2>5 DEF HwState, SameRegisters
  <2>9. g.mem[f] = m /\ \A e \in File : e # f => g.mem[e] = h.mem[e]
    BY <1>1, <2>7, MemberFields
  <2>10. Beyond(h, g, f, a)
    <3>1. \A i \in 0 .. Size[f] - 1 : i < a => m.words[i] = h.mem[f].words[i]
      BY <2>6, SizeNat
    <3>. QED
      BY <1>1, <2>2, <2>4, <2>9, <3>1 DEF Beyond
  <2>11. At(g, f, a, w)
    BY <1>1, <2>6, <2>9, SizeNat DEF At
  <2>. QED
    BY <2>7, <2>8, <2>10, <2>11
<1>2. CASE ~(f \in File /\ a < Size[f] /\ h.mem[f] # Unknown)
  <2>1. g = h
    BY <1>2 DEF Put
  <2>. QED
    BY <1>2, <2>1 DEF Beyond, At, SameRegisters
<1>. QED
  BY <1>1, <1>2

\* A board's registers may change without a word for its memory.
LEMMA NewRegisters ==
    ASSUME NEW h \in HwState, NEW file \in File \cup {Nowhere}, NEW pos \in Nat,
           NEW part \in 0 .. BPW - 1, NEW amode \in BOOLEAN,
           NEW g, g = [mem |-> h.mem, file |-> file, pos |-> pos, part |-> part, amode |-> amode]
    PROVE  g \in HwState
BY DEF HwState

LEMMA ElsewhereFacts ==
    ASSUME NEW h \in HwState, NEW f \in File \cup {Nowhere}, NEW g, g = [h EXCEPT !.file = f]
    PROVE  g \in HwState /\ g.mem = h.mem /\ g.part = h.part /\ g.amode = h.amode
<1>1. g = [mem |-> h.mem, file |-> f, pos |-> h.pos, part |-> h.part, amode |-> h.amode]
  BY DEF HwState
<1>. QED
  BY <1>1, NewRegisters, MemberFields

\* The next word goes to the board's own position, which advances in the file.
LEMMA PutNextFacts ==
    ASSUME NEW h \in HwState, NEW w \in Word, NEW g, g = PutNext(h, w)
    PROVE  /\ g \in HwState
           /\ g.file = h.file /\ g.part = h.part /\ g.amode = h.amode
           /\ Beyond(h, g, h.file, h.pos) /\ At(g, h.file, h.pos, w)
           /\ h.file = Nowhere => g = h
           /\ (h.file \in File /\ h.pos < Size[h.file]) => g.pos = h.pos + 1
<1>1. CASE h.file = Nowhere
  <2>1. g = h
    BY <1>1 DEF PutNext
  <2>. QED
    BY <1>1, <2>1 DEF Beyond, At, File, Nowhere
<1>2. CASE h.file # Nowhere
  <2>. DEFINE p == Put(h, h.file, h.pos, w)
              pos == IF h.pos < Size[h.file] THEN h.pos + 1 ELSE h.pos
  <2>1. p \in HwState /\ SameRegisters(h, p) /\ Beyond(h, p, h.file, h.pos) /\ At(p, h.file, h.pos, w)
    BY PutFacts, MemberFields
  <2>2. g = [p EXCEPT !.pos = IF @ < Size[h.file] THEN @ + 1 ELSE @]
    BY <1>2 DEF PutNext
  <2>. HIDE DEF p
  <2>3. g = [mem |-> p.mem, file |-> p.file, pos |-> pos, part |-> p.part, amode |-> p.amode]
    BY <2>1, <2>2 DEF HwState, SameRegisters
  <2>4. pos \in Nat
    BY MemberFields
  <2>5. g \in HwState
    BY <2>1, <2>3, <2>4, NewRegisters, MemberFields
  <2>. QED
    BY <1>2, <2>1, <2>3, <2>5 DEF Beyond, At, SameRegisters
<1>. QED
  BY <1>1, <1>2

LEMMA Remainder ==
    ASSUME NEW p \in 0 .. BPW - 1, NEW k \in 0 .. BPW
    PROVE  /\ (p + k) % BPW \in 0 .. BPW - 1
           /\ p = 0 /\ k = BPW => (p + k) % BPW = 0
BY ProgrammingAssumption

\* Transfers complete a word or none.
LEMMA SentFacts ==
    ASSUME NEW h \in HwState, NEW w \in Word, NEW k \in 0 .. BPW, NEW g, g = Sent(h, w, k)
    PROVE  /\ g \in HwState
           /\ g.file = h.file /\ g.amode = h.amode
           /\ Beyond(h, g, h.file, h.pos)
           /\ (k = BPW /\ h.part = 0 /\ h.file \in File /\ h.pos < Size[h.file]) =>
                 /\ At(g, h.file, h.pos, w)
                 /\ g.part = 0 /\ g.pos = h.pos + 1
<1>. DEFINE part == (h.part + k) % BPW
            now  == [h EXCEPT !.part = (h.part + k) % BPW]
            v    == IF h.part = 0 THEN w ELSE Junk
<1>1. part \in 0 .. BPW - 1 /\ (h.part = 0 /\ k = BPW => part = 0)
  BY Remainder, MemberFields
<1>2. now = [mem |-> h.mem, file |-> h.file, pos |-> h.pos, part |-> part, amode |-> h.amode]
  BY DEF HwState
<1>3. v \in Word
  BY DEF Word
<1>4. g = IF h.file = Nowhere THEN h
          ELSE IF h.part + k >= BPW THEN PutNext(now, v) ELSE now
  BY DEF Sent
<1>. HIDE DEF part, now
<1>5. now \in HwState
  BY <1>1, <1>2, NewRegisters, MemberFields
<1>6. /\ now.mem = h.mem /\ now.file = h.file /\ now.pos = h.pos
      /\ now.part = part /\ now.amode = h.amode
  BY <1>2
<1>7. Beyond(h, now, h.file, h.pos)
  BY <1>6 DEF Beyond
<1>. HIDE DEF v
<1>8. CASE h.file # Nowhere /\ h.part + k >= BPW
  <2>1. g = PutNext(now, v)
    BY <1>4, <1>8
  <2>2. /\ g \in HwState /\ g.file = h.file /\ g.part = part /\ g.amode = h.amode
        /\ Beyond(now, g, h.file, h.pos) /\ At(g, h.file, h.pos, v)
        /\ (h.file \in File /\ h.pos < Size[h.file]) => g.pos = h.pos + 1
    BY <1>3, <1>5, <1>6, <2>1, PutNextFacts
  <2>3. Beyond(h, g, h.file, h.pos)
    BY <1>6, <2>2 DEF Beyond
  <2>4. h.part = 0 => v = w
    BY DEF v
  <2>. QED
    BY <1>1, <2>2, <2>3, <2>4
<1>9. CASE ~(h.file # Nowhere /\ h.part + k >= BPW)
  <2>1. g \in {h, now}
    BY <1>4, <1>9
  <2>2. ~(k = BPW /\ h.part = 0 /\ h.file \in File)
    BY <1>9, ProgrammingAssumption DEF File, Nowhere
  <2>. QED
    BY <1>5, <1>6, <1>7, <2>1, <2>2 DEF Beyond
<1>. QED
  BY <1>8, <1>9

LEMMA ForgetFacts ==
    ASSUME NEW h \in HwState, NEW g, g = Forget(h)
    PROVE  g \in HwState /\ SameRegisters(h, g) /\ Lost(g)
<1>1. g.mem = [f \in File |-> Unknown] /\ SameRegisters(h, g)
  BY DEF Forget, HwState, SameRegisters
<1>2. \A f \in File : Unknown \in Memory(f)
  BY DEF Memory
<1>3. g.mem \in [File -> UNION {Memory(f) : f \in File}]
  BY <1>1, <1>2
<1>4. g = [mem |-> g.mem, file |-> h.file, pos |-> h.pos, part |-> h.part, amode |-> h.amode]
  BY <1>1 DEF Forget, HwState
<1>. QED
  BY <1>1, <1>2, <1>3, <1>4 DEF HwState, Lost

LEMMA ForgetFileFacts ==
    ASSUME NEW h \in HwState, NEW f \in File \cup {Nowhere}, NEW g, g = ForgetFile(h, f)
    PROVE  /\ g \in HwState /\ SameRegisters(h, g)
           /\ \A e \in File : g.mem[e] = IF e = f THEN Unknown ELSE h.mem[e]
<1>1. CASE f \in File
  <2>1. g = [h EXCEPT !.mem[f] = Unknown]
    BY <1>1 DEF ForgetFile
  <2>2. Unknown \in Memory(f)
    BY DEF Memory
  <2>. QED
    BY <1>1, <2>1, <2>2, NewMemory, MemberFields DEF SameRegisters
<1>2. CASE f \notin File
  BY <1>2 DEF ForgetFile, SameRegisters
<1>. QED
  BY <1>1, <1>2

LEMMA BeginFacts ==
    ASSUME NEW h \in HwState, NEW f \in File \cup {Nowhere}, NEW g, g = Begin(h, f)
    PROVE  /\ g \in HwState /\ SameRegisters(h, g)
           /\ \A e \in File : g.mem[e] = IF e = f THEN Fresh(f) ELSE h.mem[e]
<1>1. CASE f \in File
  <2>1. g = [h EXCEPT !.mem[f] = Fresh(f)]
    BY <1>1 DEF Begin
  <2>2. Fresh(f) \in Memory(f)
    BY <1>1, FreshBlock, BlockKnown
  <2>. QED
    BY <1>1, <2>1, <2>2, NewMemory, MemberFields DEF SameRegisters
<1>2. CASE f \notin File
  BY <1>2 DEF Begin, SameRegisters
<1>. QED
  BY <1>1, <1>2

\* Starting and resetting leave the memory alone.
LEMMA LatchedFields ==
    ASSUME NEW h \in HwState, NEW f, NEW k, NEW g, g = Latched(h, f, k)
    PROVE  /\ g.mem = h.mem /\ g.amode = h.amode
           /\ k = 4 => g.file = f /\ g.pos = 0 /\ g.part = 0
BY DEF Latched, HwState

LEMMA LatchedType ==
    ASSUME NEW h \in HwState, NEW f \in File \cup {Nowhere}, NEW k \in 0 .. 4,
           NEW g, g = Latched(h, f, k)
    PROVE  g \in HwState
<1>. DEFINE file == IF k >= 3 THEN f ELSE IF k >= 1 THEN Nowhere ELSE h.file
            pos  == IF k >= 4 THEN 0 ELSE h.pos
            part == IF k >= 4 THEN 0 ELSE h.part
<1>1. g = [mem |-> h.mem, file |-> file, pos |-> pos, part |-> part, amode |-> h.amode]
  BY DEF Latched, HwState
<1>2. file \in File \cup {Nowhere} /\ pos \in Nat /\ part \in 0 .. BPW - 1
  BY MemberFields, ProgrammingAssumption
<1>. QED
  BY <1>1, <1>2, NewRegisters, MemberFields

\* So does an address.
LEMMA AddressFields ==
    ASSUME NEW h \in HwState, NEW f, NEW j, NEW g, g = Address(h, f, j)
    PROVE  /\ g.mem = h.mem /\ g.part = h.part
           /\ j = 3 => g.file = f /\ g.pos = 0 /\ ~g.amode
<1>1. /\ g.mem = h.mem /\ g.part = h.part
      /\ j = 3 => g.file = f /\ g.pos = 0
  BY DEF Address, HwState
<1>2. ASSUME j = 3
      PROVE  ~g.amode
  <2>1. g.amode = (3 < 3)
    BY <1>2 DEF Address, HwState
  <2>2. (3 < 3) = FALSE
    OBVIOUS
  <2>. QED
    BY <2>1, <2>2, Zenon
<1>. QED
  BY <1>1, <1>2

LEMMA AddressType ==
    ASSUME NEW h \in HwState, NEW f \in File \cup {Nowhere}, NEW j \in 0 .. 3,
           NEW g, g = Address(h, f, j)
    PROVE  g \in HwState
<1>. DEFINE file  == IF j >= 2 THEN f ELSE h.file
            pos   == IF j >= 2 THEN 0 ELSE h.pos
            amode == IF j = 0 THEN h.amode ELSE j < 3
<1>1. g = [mem |-> h.mem, file |-> file, pos |-> pos, part |-> h.part, amode |-> amode]
  BY DEF Address, HwState
<1>2. file \in File \cup {Nowhere} /\ pos \in Nat
  BY MemberFields
<1>3. amode \in BOOLEAN
  <2>1. CASE j = 0
    BY <2>1, MemberFields
  <2>2. CASE j # 0
    BY <2>2
  <2>. QED
    BY <2>1, <2>2
<1>. QED
  BY <1>1, <1>2, <1>3, NewRegisters, MemberFields

LEMMA WrittenFacts ==
    ASSUME NEW h \in HwState, NEW w \in Word, NEW g, g = Written(h, w)
    PROVE  /\ g \in HwState
           /\ g.part = h.part /\ g.amode = h.amode
           /\ Beyond(h, g, h.file, h.pos)
           /\ ~h.amode => /\ g = PutNext(h, w)
                          /\ g.file = h.file
<1>1. CASE h.amode
  <2>1. g = [mem |-> h.mem, file |-> Nowhere, pos |-> h.pos, part |-> h.part, amode |-> h.amode]
    BY <1>1 DEF Written, HwState
  <2>2. g \in HwState
    BY <2>1, NewRegisters, MemberFields
  <2>. QED
    BY <1>1, <2>1, <2>2 DEF Beyond
<1>2. CASE ~h.amode
  BY <1>2, PutNextFacts DEF Written
<1>. QED
  BY <1>1, <1>2

-----------------------------------------------------------------------------
(* The types.                                                              *)

\* What a chain of usb2 calls can leave.
Outcome == [h : HwState, lost : BOOLEAN]

LEMMA TriesOutcome ==
    ASSUME TypeInv
    PROVE  Tries \subseteq Outcome
BY DEF Tries, Outcome, TypeInv, TypeOK

LEMMA AddressCallOutcome ==
    ASSUME NEW T \in SUBSET Outcome, NEW f \in File \cup {Nowhere}
    PROVE  AddressCall(T, f) \subseteq Outcome
<1>1. ASSUME NEW t \in T, NEW j \in 0 .. 3
      PROVE  [h |-> Address(t.h, f, j), lost |-> t.lost \/ j < 3] \in Outcome
  <2>1. t.h \in HwState
    BY DEF Outcome
  <2>2. Address(t.h, f, j) \in HwState
    BY <2>1, AddressType
  <2>. QED
    BY <2>2 DEF Outcome
<1>2. ASSUME NEW s \in AddressCall(T, f)
      PROVE  \E t \in T, k \in 0 .. 3 :
                s = [h |-> Address(t.h, f, k), lost |-> t.lost \/ k < 3]
  BY DEF AddressCall
<1>. QED
  BY <1>1, <1>2

LEMMA DataCallOutcome ==
    ASSUME NEW T \in SUBSET Outcome, NEW w \in Word
    PROVE  DataCall(T, w) \subseteq Outcome
<1>1. ASSUME NEW t \in T
      PROVE  [h |-> Written(t.h, w), lost |-> t.lost] \in Outcome
  <2>1. t.h \in HwState /\ t.lost \in BOOLEAN
    BY DEF Outcome
  <2>2. Written(t.h, w) \in HwState
    BY <2>1, WrittenFacts
  <2>. QED
    BY <2>1, <2>2 DEF Outcome
<1>2. ASSUME NEW t \in T
      PROVE  [h |-> t.h, lost |-> TRUE] \in Outcome
  BY DEF Outcome
<1>. QED
  BY <1>1, <1>2 DEF DataCall

LEMMA SettledType ==
    ASSUME NEW t \in Outcome
    PROVE  Settled(t) \in HwState
BY ForgetFacts DEF Settled, Outcome

LEMMA KnownType ==
    ASSUME TypeInv, NEW h \in HwState, NEW here
    PROVE  Known(h, here) \in HwState
<1>1. Program \in File \cup {Nowhere}
  BY ProgrammingAssumption DEF Program, File
<1>. QED
  BY <1>1, ForgetFacts, ForgetFileFacts DEF Known

\* One word more is acknowledged of a file that is open, known and not full.
LEMMA AcknowledgedFacts ==
    ASSUME TypeInv, NEW h \in HwState, NEW g, g = Acknowledged(h)
    PROVE  /\ g \in HwState /\ SameRegisters(h, g)
           /\ \A e \in File : e # Opened => g.mem[e] = h.mem[e]
           /\ Opened \in File =>
                 IF h.mem[Opened] # Unknown /\ ~Full(h)
                 THEN /\ g.mem[Opened] # Unknown
                      /\ g.mem[Opened].acked = h.mem[Opened].acked + 1
                      /\ g.mem[Opened].words = h.mem[Opened].words
                 ELSE g.mem[Opened] = h.mem[Opened]
<1>1. CASE Opened \in File /\ h.mem[Opened] # Unknown /\ ~Full(h)
  <2>. DEFINE old == h.mem[Opened]
              m   == [old EXCEPT !.acked = @ + 1]
  <2>1. old \in Block(Opened) /\ old.acked \in 0 .. Size[Opened] /\ old.acked # Size[Opened]
    BY <1>1, KnownMemory, MemberFields DEF Full
  <2>2. old.acked + 1 \in 0 .. Size[Opened]
    BY <1>1, <2>1, SizeNat
  <2>3. m \in Block(Opened) /\ m.acked = old.acked + 1 /\ m.words = old.words
    BY <2>1, <2>2 DEF Block
  <2>4. g = [h EXCEPT !.mem[Opened] = m]
    BY <1>1 DEF Acknowledged, HwState
  <2>. HIDE DEF m
  <2>5. m \in Memory(Opened) /\ m # Unknown
    BY <1>1, <2>3, BlockKnown
  <2>6. g \in HwState /\ g.mem = [h.mem EXCEPT ![Opened] = m]
    BY <1>1, <2>4, <2>5, NewMemory
  <2>7. SameRegisters(h, g)
    BY <2>4 DEF HwState, SameRegisters
  <2>. QED
    BY <1>1, <2>3, <2>5, <2>6, <2>7, MemberFields
<1>2. CASE ~(Opened \in File /\ h.mem[Opened] # Unknown /\ ~Full(h))
  <2>1. g = h
    BY <1>2 DEF Acknowledged
  <2>. QED
    BY <1>2, <2>1 DEF SameRegisters
<1>. QED
  BY <1>1, <1>2

LEMMA TypeIntro ==
    ASSUME cur_board' \in Board, cur_dds' \in 0 .. NumDds, cur_device' \in Device,
           cur_device_addr' \in Nat, num_instructions' \in 0 .. MaxInstructions,
           kind' \in Machines, hw' \in [Board -> HwState],
           open' \in [Board -> File \cup {Nowhere}],
           call' \in [to : SUBSET (Board \X File), data : Datum \cup {Unknown}, answer : Int]
    PROVE  TypeInv'
BY MemberFields DEF TypeInv, TypeOK

\* A call changes the selected board, and no other one but for its open file.
LEMMA CallFacts ==
    ASSUME TypeInv, NEW h \in HwState, InCall(h) \/ OnBoard(h)
    PROVE  /\ hw' \in [Board -> HwState]
           /\ hw'[cur_board] = h
<1>1. \A b \in Board : hw[b] \in HwState /\ ForgetFile(hw[b], open[b]) \in HwState
  BY ForgetFileFacts DEF TypeInv
<1>2. cur_board \in Board
  BY DEF TypeInv, TypeOK
<1>. QED
  BY <1>1, <1>2 DEF InCall, OnBoard, TypeInv

LEMMA FileTypes ==
    ASSUME TypeInv
    PROVE  /\ Here \in HwState
           /\ Opened \in File \cup {Nowhere}
           /\ Family \in {"oldpb", "extreg", "pcie", "usb2"}
           /\ Program \in File /\ Nowhere \notin File
           /\ \A d \in 0 .. NumDds - 1 : Freq(d) \in File /\ Phase(d) \in File
           /\ Freq(0) \in File /\ Phase(0) \in File
<1>1. cur_board \in Board /\ kind \in Machines
  BY DEF TypeInv, TypeOK
<1>2. Here \in HwState /\ Opened \in File \cup {Nowhere}
  BY <1>1 DEF TypeInv, Here, Opened
<1>3. Family \in {"oldpb", "extreg", "pcie", "usb2"}
  BY <1>1, ProgrammingAssumption DEF Family
<1>4. /\ Program \in File /\ Nowhere \notin File
      /\ \A d \in 0 .. NumDds - 1 : Freq(d) \in File /\ Phase(d) \in File
      /\ Freq(0) \in File /\ Phase(0) \in File
  BY ProgrammingAssumption DEF Program, File, Nowhere, Freq, Phase
<1>. QED
  BY <1>2, <1>3, <1>4

\* The file that is begun: of a board without several DDSs, one of three.
LEMMA FileOfFacts ==
    ASSUME TypeInv, NEW device \in Device \ {"none"}
    PROVE  /\ FileOf(device) \in File \cup {Nowhere}
           /\ device = "PULSE_PROGRAM" <=> FileOf(device) = Program
           /\ Family # "usb2" => FileOf(device) \in {Nowhere, Program, Freq(0), Phase(0)}
           /\ Family = "pcie" => FileOf(device) \in {Nowhere, Program}
           /\ Family \in {"oldpb", "extreg"} => FileOf(device) # Nowhere
<1>1. cur_dds \in 0 .. NumDds /\ NumDds \in Nat \ {0}
  BY ProgrammingAssumption DEF TypeInv, TypeOK
<1>2. CASE device = "PULSE_PROGRAM"
  <2>1. FileOf(device) = Program
    BY <1>2 DEF FileOf
  <2>2. Program # Nowhere
    BY DEF Program, Nowhere
  <2>. QED
    BY <1>2, <2>1, <2>2, FileTypes
<1>3. CASE device # "PULSE_PROGRAM" /\ NoRegisters
  <2>1. FileOf(device) = Nowhere
    BY <1>3 DEF FileOf
  <2>2. Program # Nowhere
    BY DEF Program, Nowhere
  <2>. QED
    BY <1>3, <2>1, <2>2 DEF NoRegisters
<1>4. CASE device # "PULSE_PROGRAM" /\ ~NoRegisters
  <2>1. Dds \in 0 .. NumDds - 1 /\ (Family # "usb2" => Dds = 0)
    BY <1>1, <1>4 DEF Dds, NoRegisters
  <2>2. FileOf(device) = IF device = "FREQ_REGS" THEN Freq(Dds) ELSE Phase(Dds)
    BY <1>4 DEF FileOf, Device
  <2>3. Freq(Dds) # Program /\ Phase(Dds) # Program
    BY <2>1 DEF Freq, Phase, Program
  <2>. QED
    BY <1>1, <1>4, <2>1, <2>2, <2>3, FileTypes DEF NoRegisters
<1>. QED
  BY <1>2, <1>3, <1>4

LEMMA ReturnsType ==
    ASSUME NEW n \in Int, Returns(n)
    PROVE  call' \in [to : SUBSET (Board \X File), data : Datum \cup {Unknown}, answer : Int]
BY DEF Returns

LEMMA AcknowledgesType ==
    ASSUME TypeInv, NEW files \in SUBSET File, NEW w \in Datum, NEW n \in Int,
           Acknowledges(files, w, n)
    PROVE  call' \in [to : SUBSET (Board \X File), data : Datum \cup {Unknown}, answer : Int]
<1>1. {cur_board} \X files \in SUBSET (Board \X File)
  BY DEF TypeInv, TypeOK
<1>. QED
  BY <1>1 DEF Acknowledges

LEMMA NowOpenType ==
    ASSUME TypeInv, NEW f \in File \cup {Nowhere}, NowOpen(f)
    PROVE  open' \in [Board -> File \cup {Nowhere}] /\ open'[cur_board] = f
BY DEF NowOpen, TypeInv, TypeOK

\* A start and what it returns.
LEMMA StartedType ==
    ASSUME TypeInv, NEW device \in Device \ {"none"}, NEW h \in HwState, Started(device, h)
    PROVE  /\ hw' \in [Board -> HwState] /\ open' \in [Board -> File \cup {Nowhere}]
           /\ cur_device' \in Device /\ cur_device_addr' \in Nat
           /\ call' \in [to : SUBSET (Board \X File), data : Datum \cup {Unknown}, answer : Int]
BY CallFacts, FileOfFacts, NowOpenType, ReturnsType DEF Started

LEMMA StartFailedType ==
    ASSUME TypeInv, NEW device \in Device \ {"none"}, NEW h \in HwState, StartFailed(device, h)
    PROVE  /\ hw' \in [Board -> HwState] /\ open' \in [Board -> File \cup {Nowhere}]
           /\ cur_device' \in Device /\ cur_device_addr' \in Nat
           /\ call' \in [to : SUBSET (Board \X File), data : Datum \cup {Unknown}, answer : Int]
<1>1. ForgetFile(h, FileOf(device)) \in HwState
  BY ForgetFileFacts, FileOfFacts
<1>2. hw' \in [Board -> HwState]
  BY <1>1, CallFacts DEF StartFailed
<1>3. open' \in [Board -> File \cup {Nowhere}]
  BY NowOpenType DEF StartFailed
<1>4. call' \in [to : SUBSET (Board \X File), data : Datum \cup {Unknown}, answer : Int]
  BY ReturnsType DEF StartFailed
<1>. QED
  BY <1>2, <1>3, <1>4 DEF StartFailed, TypeInv, TypeOK

LEMMA StartProgrammingType ==
    ASSUME TypeInv, NEW device \in Device \ {"none"}, PbStartProgramming(device)
    PROVE  TypeInv'
<1>1. /\ cur_board' \in Board /\ cur_dds' \in 0 .. NumDds /\ kind' \in Machines
      /\ num_instructions \in 0 .. MaxInstructions
  BY DEF PbStartProgramming, TypeInv, TypeOK
<1>2. 0 \in 0 .. MaxInstructions
  BY ProgrammingAssumption
<1>3. FileOf(device) \in File \cup {Nowhere} /\ Here \in HwState
  BY FileOfFacts, FileTypes
<1>. DEFINE Result ==
       /\ hw' \in [Board -> HwState] /\ open' \in [Board -> File \cup {Nowhere}]
       /\ cur_device' \in Device /\ cur_device_addr' \in Nat
       /\ call' \in [to : SUBSET (Board \X File), data : Datum \cup {Unknown}, answer : Int]
<1>4. ASSUME NEW h \in HwState, Started(device, Begin(h, FileOf(device)))
      PROVE  Result
  <2>1. Begin(h, FileOf(device)) \in HwState
    BY <1>3, BeginFacts
  <2>. QED
    BY <1>4, <2>1, StartedType
<1>5. ASSUME NEW h \in HwState, StartFailed(device, h)
      PROVE  Result
  BY <1>5, StartFailedType
<1>6. ASSUME StartOldPb(device)
      PROVE  Result /\ num_instructions' \in 0 .. MaxInstructions
  <2>1. \A k \in 0 .. 4 : Latched(Here, FileOf(device), k) \in HwState
    BY <1>3, LatchedType
  <2>2. Result
    BY <1>4, <1>5, <1>6, <2>1 DEF StartOldPb
  <2>3. num_instructions' \in 0 .. MaxInstructions
    BY <1>1, <1>2, <1>6 DEF StartOldPb, ResetCounter
  <2>. QED
    BY <2>2, <2>3
<1>7. ASSUME StartExtReg(device)
      PROVE  Result /\ num_instructions' \in 0 .. MaxInstructions
  BY <1>1, <1>3, <1>4, <1>6, <1>7 DEF StartExtReg
<1>8. ASSUME StartPcie(device)
      PROVE  Result /\ num_instructions' \in 0 .. MaxInstructions
  <2>1. Result
    BY <1>3, <1>4, <1>5, <1>8 DEF StartPcie
  <2>2. num_instructions' \in 0 .. MaxInstructions
    BY <1>1, <1>2, <1>8 DEF StartPcie, ResetCounter
  <2>. QED
    BY <2>1, <2>2
<1>9. ASSUME StartUsb2(device)
      PROVE  Result /\ num_instructions' \in 0 .. MaxInstructions
  <2>1. AddressCall(Tries, FileOf(device)) \subseteq Outcome
    BY <1>3, TriesOutcome, AddressCallOutcome
  <2>2. PICK t \in AddressCall(Tries, FileOf(device)) :
                Started(device, Settled([t EXCEPT !.h = Begin(@, FileOf(device))]))
    BY <1>9 DEF StartUsb2
  <2>3. Begin(t.h, FileOf(device)) \in HwState
    BY <1>3, <2>1, BeginFacts DEF Outcome
  <2>4. [t EXCEPT !.h = Begin(@, FileOf(device))] \in Outcome
    BY <2>1, <2>3 DEF Outcome
  <2>5. Settled([t EXCEPT !.h = Begin(@, FileOf(device))]) \in HwState
    BY <2>4, SettledType
  <2>6. Result
    BY <2>2, <2>5, StartedType
  <2>7. num_instructions' \in 0 .. MaxInstructions
    BY <1>1, <1>2, <1>9 DEF StartUsb2, ResetCounter
  <2>. QED
    BY <2>6, <2>7
<1>10. Result /\ num_instructions' \in 0 .. MaxInstructions
  BY <1>6, <1>7, <1>8, <1>9 DEF PbStartProgramming
<1>. QED
  BY <1>1, <1>10, TypeIntro

\* A word that is added, or that failed.
LEMMA InstDoneType ==
    ASSUME TypeInv, NEW h \in HwState, NEW here, NEW w \in Datum,
           InstDone(h, here, w), num_instructions < MaxInstructions,
           UNCHANGED <<cur_board, cur_dds, cur_device, cur_device_addr, kind>>
    PROVE  TypeInv'
<1>1. Acknowledged(Known(h, here)) \in HwState
  BY KnownType, AcknowledgedFacts
<1>2. hw' \in [Board -> HwState]
  BY <1>1, CallFacts DEF InstDone
<1>3. /\ num_instructions \in 0 .. MaxInstructions
      /\ num_instructions' = num_instructions + 1 /\ open' = open
      /\ Acknowledges({Program}, w, num_instructions)
  BY DEF InstDone, TypeInv, TypeOK
<1>4. call' \in [to : SUBSET (Board \X File), data : Datum \cup {Unknown}, answer : Int]
  BY <1>3, FileTypes, AcknowledgesType
<1>5. num_instructions' \in 0 .. MaxInstructions
  BY <1>3, ProgrammingAssumption
<1>. QED
  BY <1>2, <1>3, <1>4, <1>5, TypeIntro DEF TypeInv, TypeOK

LEMMA RegDoneType ==
    ASSUME TypeInv, NEW h \in HwState, NEW files \in SUBSET File, NEW w \in Datum,
           RegDone(h, files, w),
           UNCHANGED <<cur_board, cur_dds, cur_device, num_instructions, kind>>
    PROVE  TypeInv'
<1>1. Acknowledged(Known(h, Opened \in files)) \in HwState
  BY KnownType, AcknowledgedFacts
<1>2. hw' \in [Board -> HwState]
  BY <1>1, CallFacts DEF RegDone
<1>3. cur_device_addr' \in Nat /\ open' = open /\ Acknowledges(files, w, 0)
  BY DEF RegDone, TypeInv, TypeOK
<1>4. call' \in [to : SUBSET (Board \X File), data : Datum \cup {Unknown}, answer : Int]
  BY <1>3, AcknowledgesType
<1>. QED
  BY <1>2, <1>3, <1>4, TypeIntro DEF TypeInv, TypeOK

LEMMA BrokenType ==
    ASSUME TypeInv, NEW h \in HwState, NEW here, Broken(h, here), Returns(-1),
           UNCHANGED library
    PROVE  TypeInv'
<1>1. hw' \in [Board -> HwState]
  BY KnownType, CallFacts DEF Broken
<1>2. open' \in [Board -> File \cup {Nowhere}]
  BY NowOpenType DEF Broken
<1>3. call' \in [to : SUBSET (Board \X File), data : Datum \cup {Unknown}, answer : Int]
  BY ReturnsType
<1>. QED
  BY <1>1, <1>2, <1>3, TypeIntro DEF TypeInv, TypeOK, library

LEMMA InstDirectType ==
    ASSUME TypeInv, NEW w \in Datum, PbInstDirect(w)
    PROVE  TypeInv'
<1>. DEFINE here == Opened = Program
<1>1. /\ num_instructions < MaxInstructions
      /\ UNCHANGED <<cur_board, cur_dds, cur_device, cur_device_addr, kind>>
  BY DEF PbInstDirect
<1>2. Here \in HwState /\ w \in Word /\ BPW \in 0 .. BPW
  BY FileTypes, ProgrammingAssumption DEF Word
<1>3. CASE InstDone(Sent(Here, w, BPW), here, w)
  BY <1>1, <1>2, <1>3, SentFacts, InstDoneType
<1>4. CASE InstDone(Put(Here, Program, num_instructions, w), here, w)
  <2>1. num_instructions \in Nat
    BY ProgrammingAssumption DEF TypeInv, TypeOK
  <2>. QED
    BY <1>1, <1>2, <1>4, <2>1, PutFacts, InstDoneType
<1>5. CASE \E t \in DataCall(Tries, w) : InstDone(Settled(t), here, w)
  <2>1. \A t \in DataCall(Tries, w) : Settled(t) \in HwState
    BY <1>2, TriesOutcome, DataCallOutcome, SettledType
  <2>. QED
    BY <1>1, <1>5, <2>1, InstDoneType
<1>6. CASE \E k \in 0 .. BPW : InstFailed(Sent(Here, w, k), here)
  BY <1>1, <1>2, <1>6, SentFacts, BrokenType DEF InstFailed, library
<1>7. CASE InstFailed(Here, here)
  BY <1>1, <1>2, <1>7, BrokenType DEF InstFailed, library
<1>. QED
  BY <1>3, <1>4, <1>5, <1>6, <1>7 DEF PbInstDirect

\* The registers of an extreg board, whether its writes were lost or not.
LEMMA ExtendedOutcome ==
    ASSUME TypeInv, NEW f, NEW w \in Word
    PROVE  Extended(f, w) \subseteq Outcome
<1>1. hw[cur_board] \in HwState /\ cur_device_addr \in Nat /\ Junk \in Word
  BY DEF TypeInv, TypeOK, Word
<1>2. \A v \in Word : Put(hw[cur_board], f, cur_device_addr, v) \in HwState
  BY <1>1, PutFacts
<1>. QED
  BY <1>1, <1>2 DEF Extended, Outcome

LEMMA SetRegisterType ==
    ASSUME TypeInv, NEW device, NEW files \in SUBSET File, NEW w \in Datum,
           SetRegister(device, files, w)
    PROVE  TypeInv'
<1>1. UNCHANGED <<cur_board, cur_dds, cur_device, num_instructions, kind>>
  BY DEF SetRegister
<1>2. Here \in HwState /\ w \in Word /\ BPW \in 0 .. BPW
  BY FileTypes, ProgrammingAssumption DEF Word
<1>3. CASE Returns(-1) /\ UNCHANGED <<hw, open, cur_device_addr>>
  BY <1>1, <1>3, ReturnsType, TypeIntro DEF TypeInv, TypeOK
<1>4. CASE RegDone(Sent(Here, w, BPW), files, w)
  BY <1>1, <1>2, <1>4, SentFacts, RegDoneType
<1>5. CASE \E k \in 0 .. BPW : RegFailed(Sent(Here, w, k), files)
  BY <1>1, <1>2, <1>5, SentFacts, BrokenType DEF RegFailed, library
<1>6. CASE \E t \in Extended(FileOf(device), w) : RegDone(Settled(t), files, w)
  <2>1. \A t \in Extended(FileOf(device), w) : Settled(t) \in HwState
    BY <1>2, ExtendedOutcome, SettledType
  <2>. QED
    BY <1>1, <1>6, <2>1, RegDoneType
<1>7. CASE \E t \in DataCall(Tries, w) : RegDone(Settled(t), files, w)
  <2>1. \A t \in DataCall(Tries, w) : Settled(t) \in HwState
    BY <1>2, TriesOutcome, DataCallOutcome, SettledType
  <2>. QED
    BY <1>1, <1>7, <2>1, RegDoneType
<1>. QED
  BY <1>3, <1>4, <1>5, <1>6, <1>7 DEF SetRegister

LEMMA ShapeCallsOutcome ==
    ASSUME TypeInv, NEW T \in SUBSET Outcome
    PROVE  ShapeCalls(T) \in SUBSET Outcome
<1>1. Junk \in Word /\ Nowhere \in File \cup {Nowhere}
  BY DEF Word
<1>2. AddressCall(T, Nowhere) \in SUBSET Outcome
  BY <1>1, AddressCallOutcome
<1>3. DataCall(AddressCall(T, Nowhere), Junk) \in SUBSET Outcome
  BY <1>1, <1>2, DataCallOutcome
<1>4. AddressCall(DataCall(AddressCall(T, Nowhere), Junk), Nowhere) \in SUBSET Outcome
  BY <1>1, <1>3, AddressCallOutcome
<1>5. DataCall(AddressCall(DataCall(AddressCall(T, Nowhere), Junk), Nowhere), Junk)
         \in SUBSET Outcome
  BY <1>1, <1>4, DataCallOutcome
<1>. QED
  BY <1>5 DEF ShapeCalls

LEMMA StopProgrammingType ==
    ASSUME TypeInv, PbStopProgramming
    PROVE  TypeInv'
<1>1. /\ open' \in [Board -> File \cup {Nowhere}]
      /\ UNCHANGED <<cur_board, cur_dds, num_instructions, kind>>
  BY NowOpenType DEF PbStopProgramming
<1>2. Here \in HwState
  BY FileTypes
<1>3. \A f \in {Here.file, Nowhere} : [Here EXCEPT !.file = f] \in HwState
  BY <1>2, ElsewhereFacts, MemberFields
<1>4. \A t \in AddressCall(ShapeCalls(Tries), Nowhere) : Settled(t) \in HwState
  BY TriesOutcome, ShapeCallsOutcome, AddressCallOutcome, SettledType
<1>5. PICK h \in HwState : InCall(h)
  BY <1>2, <1>3, <1>4 DEF PbStopProgramming
<1>6. hw' \in [Board -> HwState]
  BY <1>5, CallFacts
<1>7. \/ Stopped
      \/ Returns(-1) /\ UNCHANGED <<cur_device, cur_device_addr>>
  BY DEF PbStopProgramming
<1>8. /\ cur_device' \in Device /\ cur_device_addr' \in Nat
      /\ call' \in [to : SUBSET (Board \X File), data : Datum \cup {Unknown}, answer : Int]
  BY <1>7, ReturnsType DEF Stopped, Device, TypeInv, TypeOK
<1>. QED
  BY <1>1, <1>6, <1>8, TypeIntro DEF TypeInv, TypeOK

\* A flag for a usb2 board goes to an address that is no file's.
LEMMA UsbFlagOutcome ==
    ASSUME TypeInv
    PROVE  \A t \in DataCall(AddressCall(Tries, Nowhere), Junk) : Settled(t) \in HwState
<1>1. Junk \in Word /\ Nowhere \in File \cup {Nowhere}
  BY DEF Word
<1>2. AddressCall(Tries, Nowhere) \in SUBSET Outcome
  BY <1>1, TriesOutcome, AddressCallOutcome
<1>. QED
  BY <1>1, <1>2, DataCallOutcome, SettledType

LEMMA TriggerType ==
    ASSUME TypeInv, PbStart \/ PbStop
    PROVE  TypeInv'
<1>1. open' \in [Board -> File \cup {Nowhere}] /\ UNCHANGED library
  BY NowOpenType DEF PbStart, PbStop
<1>2. call' \in [to : SUBSET (Board \X File), data : Datum \cup {Unknown}, answer : Int]
  BY ReturnsType DEF PbStart, PbStop
<1>3. \A k \in 0 .. 4 : Latched(Here, Nowhere, k) \in HwState
  BY FileTypes, LatchedType
<1>4. hw' = hw \/ \E h \in HwState : OnBoard(h)
  BY <1>3, UsbFlagOutcome DEF PbStart, PbStop, UsbFlag
<1>5. hw' \in [Board -> HwState]
  BY <1>4, CallFacts DEF TypeInv
<1>. QED
  BY <1>1, <1>2, <1>5, TypeIntro DEF TypeInv, TypeOK, library

LEMMA RegisterFiles ==
    ASSUME TypeInv
    PROVE  /\ {Freq(d) : d \in 0 .. NumDds - 1} \in SUBSET File
           /\ {Phase(d) : d \in 0 .. NumDds - 1} \in SUBSET File
BY FileTypes

\* One step keeps the types, for any choice of Voids.
LEMMA TypeStep ==
    ASSUME TypeInv, [Next]_vars
    PROVE  TypeInv'
<1>1. CASE \E b \in Board : PbSelectBoard(b)
  BY <1>1, ReturnsType, TypeIntro DEF PbSelectBoard, TypeInv, TypeOK
<1>2. CASE \E d \in -1 .. NumDds + 1 : PbSelectDds(d)
  <2>1. PICK d \in -1 .. NumDds + 1 : PbSelectDds(d)
    BY <1>2
  <2>2. cur_dds' \in 0 .. NumDds
    BY <2>1, ProgrammingAssumption DEF PbSelectDds, TypeInv, TypeOK
  <2>3. call' \in [to : SUBSET (Board \X File), data : Datum \cup {Unknown}, answer : Int]
    BY <2>1, ReturnsType DEF PbSelectDds
  <2>. QED
    BY <2>1, <2>2, <2>3, TypeIntro DEF PbSelectDds, TypeInv, TypeOK
<1>3. CASE \E device \in Devices[Family] : PbStartProgramming(device)
  <2>1. Devices[Family] \subseteq Device \ {"none"}
    BY FileTypes, ProgrammingAssumption
  <2>. QED
    BY <1>3, <2>1, StartProgrammingType
<1>4. CASE \E w \in Datum : PbInstDirect(w)
  BY <1>4, InstDirectType
<1>5. CASE PbInstRejected
  BY <1>5, ReturnsType, TypeIntro DEF PbInstRejected, TypeInv, TypeOK, library
<1>6. CASE \E w \in Datum : PbSetFreq(w)
  BY <1>6, RegisterFiles, SetRegisterType DEF PbSetFreq
<1>7. CASE \E w \in Datum : PbSetPhase(w)
  BY <1>7, RegisterFiles, SetRegisterType DEF PbSetPhase
<1>8. CASE PbStopProgramming
  BY <1>8, StopProgrammingType
<1>9. CASE PbStart \/ PbStop
  BY <1>9, TriggerType
<1>10. CASE UNCHANGED vars
  BY <1>10 DEF vars, library, TypeInv, TypeOK
<1>. QED
  BY <1>1, <1>2, <1>3, <1>4, <1>5, <1>6, <1>7, <1>8, <1>9, <1>10 DEF Next

LEMMA TypeInit ==
    ASSUME Init
    PROVE  TypeInv
<1>1. \A f \in File : Unknown \in Memory(f)
  BY DEF Memory
<1>2. [f \in File |-> Unknown] \in [File -> UNION {Memory(f) : f \in File}]
  BY <1>1
<1>3. Idle \in HwState
  BY <1>1, <1>2, ProgrammingAssumption DEF Idle, HwState
<1>4. 0 \in 0 .. NumDds /\ 0 \in 0 .. MaxInstructions
  BY ProgrammingAssumption
<1>. QED
  BY <1>3, <1>4, MemberFields DEF Init, TypeInv, TypeOK, Device

\* The library's variables, the memories and the answers have their types.
THEOREM ProgrammingTypes == Spec => []TypeOK
<1>1. Init => TypeInv
  BY TypeInit
<1>2. TypeInv /\ [Next]_vars => TypeInv'
  BY TypeStep
<1>3. TypeInv => TypeOK
  BY DEF TypeInv
<1>. QED
  BY <1>1, <1>2, <1>3, PTL DEF Spec

-----------------------------------------------------------------------------
(* What a step means for the memories of a board.                          *)

\* From h to g the acknowledged words of f are what they were, or unknown.
Held(h, g, f) ==
    \/ g.mem[f] = Unknown
    \/ /\ h.mem[f] # Unknown
       /\ g.mem[f].acked = h.mem[f].acked
       /\ \A i \in 0 .. h.mem[f].acked - 1 : g.mem[f].words[i] = h.mem[f].words[i]

Kept(h, g) == \A f \in File : Held(h, g, f)

\* A file was begun, or got the word w.
Begun(h, g, f) == g.mem[f] = Fresh(f) /\ \A e \in File : e # f => Held(h, g, e)

Grown(h, g, f, w) ==
    /\ h.mem[f] # Unknown /\ g.mem[f] # Unknown
    /\ g.mem[f].acked = h.mem[f].acked + 1
    /\ g.mem[f].words[h.mem[f].acked] = w
    /\ \A i \in 0 .. h.mem[f].acked - 1 : g.mem[f].words[i] = h.mem[f].words[i]
    /\ \A e \in File : e # f => Held(h, g, e)

LEMMA SameKept ==
    ASSUME NEW h, NEW g, \A f \in File : g.mem[f] \in {h.mem[f], Unknown}
    PROVE  Kept(h, g)
BY DEF Kept, Held

LEMMA LostKept ==
    ASSUME NEW h, NEW g, Lost(g)
    PROVE  Kept(h, g)
BY DEF Kept, Held, Lost

LEMMA KeptTransitive ==
    ASSUME NEW h, NEW g, NEW e, Kept(h, g), Kept(g, e)
    PROVE  Kept(h, e)
BY DEF Kept, Held

LEMMA KeptStored ==
    ASSUME NEW h, NEW g, Kept(h, g), Stored(h)
    PROVE  Stored(g)
BY DEF Kept, Held, Stored

\* Words past the acknowledged ones of a file do not count.
LEMMA BeyondKept ==
    ASSUME NEW h \in HwState, NEW g \in HwState, NEW f \in File \cup {Nowhere}, NEW a \in Nat,
           Beyond(h, g, f, a),
           (f \in File /\ h.mem[f] # Unknown) => a >= h.mem[f].acked
    PROVE  Kept(h, g)
<1>1. ASSUME NEW e \in File, e # f
      PROVE  Held(h, g, e)
  BY <1>1 DEF Beyond, Held
<1>2. ASSUME f \in File, h.mem[f] = Unknown
      PROVE  Held(h, g, f)
  BY <1>2 DEF Beyond, Held
<1>3. ASSUME f \in File, h.mem[f] # Unknown
      PROVE  Held(h, g, f)
  <2>1. h.mem[f].acked \in 0 .. Size[f] /\ Size[f] \in Nat
    BY <1>3, KnownMemory, MemberFields, SizeNat
  <2>2. \A i \in 0 .. h.mem[f].acked - 1 : i \in 0 .. Size[f] - 1 /\ i < a
    BY <1>3, <2>1
  <2>. QED
    BY <1>3, <2>1, <2>2 DEF Beyond, Held
<1>. QED
  BY <1>1, <1>2, <1>3 DEF Kept

LEMMA BeyondLost ==
    ASSUME NEW h, NEW g, NEW f, NEW a, Beyond(h, g, f, a), Lost(h)
    PROVE  Lost(g)
BY DEF Beyond, Lost

\* A board that is not being programmed agrees with any counters.
LEMMA ClosedAgrees ==
    ASSUME NEW h, NEW g, NEW k, NEW n, NEW a, NEW o, o = Nowhere,
           Kept(h, g), Stored(h), Sane(g, k), g.amode => Lost(g)
    PROVE  Agree(g, o, k, n, a)
<1>1. Nowhere \notin File
  BY DEF Nowhere, File
<1>2. Stored(g)
  BY KeptStored
<1>. QED
  BY <1>1, <1>2 DEF Agree

\* So does a board whose open file is unknown.
LEMMA VoidAgrees ==
    ASSUME NEW h \in HwState, NEW o \in File \cup {Nowhere}, NEW k, NEW n, NEW a,
           Agree(h, o, k, n, a), NEW m, NEW b, NEW g, g = ForgetFile(h, o)
    PROVE  Agree(g, o, k, m, b) /\ Kept(h, g)
<1>1. g \in HwState /\ SameRegisters(h, g) /\ \A e \in File : g.mem[e] \in {h.mem[e], Unknown}
  BY ForgetFileFacts
<1>2. o \in File => g.mem[o] = Unknown
  BY ForgetFileFacts
<1>3. Kept(h, g)
  BY <1>1, SameKept
<1>4. Lost(h) => Lost(g)
  BY <1>1 DEF Lost
<1>5. Stored(g)
  <2>1. Stored(h)
    BY DEF Agree
  <2>. QED
    BY <1>3, <2>1, KeptStored
<1>. QED
  BY <1>1, <1>2, <1>3, <1>4, <1>5 DEF Agree, SameRegisters, Sane

\* A board about which nothing is known agrees with anything it is sane for.
LEMMA LostAgrees ==
    ASSUME NEW h, NEW g, NEW o, NEW k, NEW n, NEW a, Agree(h, o, k, n, a),
           NEW m, NEW b, Sane(g, k), Lost(g)
    PROVE  Agree(g, o, k, m, b)
<1>1. Stored(g)
  BY DEF Lost, Stored
<1>. QED
  BY <1>1 DEF Agree, Lost

\* A file that was just begun, with its counter cleared.
LEMMA BegunAgrees ==
    ASSUME NEW h, Stored(h), NEW f \in File, NEW k, NEW n, NEW a, NEW g,
           \A e \in File : g.mem[e] = IF e = f THEN Fresh(f) ELSE h.mem[e],
           k # "usb2" => f \in {Nowhere, Program, Freq(0), Phase(0)},
           k = "pcie" => f \in {Nowhere, Program},
           Sane(g, k), ~g.amode,
           f = Program => n = 0, f # Program => a = 0,
           ~ToAddress(k, f) => g.file = f /\ g.pos = 0 /\ g.part = 0
    PROVE  Agree(g, f, k, n, a) /\ Begun(h, g, f)
<1>1. g.mem[f] = Fresh(f) /\ Fresh(f).acked = 0
  BY FreshBlock
<1>2. Stored(g)
  <2>1. ASSUME NEW e \in File, g.mem[e] # Unknown, NEW i \in 0 .. g.mem[e].acked - 1
        PROVE  g.mem[e].words[i] \in Datum
    <3>1. CASE e = f
      BY <1>1, <2>1, <3>1
    <3>2. CASE e # f
      BY <2>1, <3>2 DEF Stored
    <3>. QED
      BY <3>1, <3>2
  <2>. QED
    BY <2>1 DEF Stored
<1>3. Begun(h, g, f)
  BY <1>1 DEF Begun, Held
<1>. QED
  BY <1>1, <1>2, <1>3 DEF Agree

\* The transfer of w from h to g for the open file o of a board of family k:
\* the word comes after the acknowledged ones of a file that has room for it.
Takes(h, g, o, k, w) ==
    \/ Lost(g)
    \/ /\ ~g.amode
       /\ \A e \in File : e # o => g.mem[e] = h.mem[e]
       /\ g.mem[o] = Unknown <=> h.mem[o] = Unknown
       /\ ~ToAddress(k, o) => g.file = o
       /\ h.mem[o] # Unknown =>
             /\ g.mem[o].acked = h.mem[o].acked
             /\ \A i \in 0 .. h.mem[o].acked - 1 : g.mem[o].words[i] = h.mem[o].words[i]
       /\ (h.mem[o] # Unknown /\ h.mem[o].acked < Size[o]) =>
             /\ g.mem[o].words[h.mem[o].acked] = w
             /\ ~ToAddress(k, o) => g.pos = h.mem[o].acked + 1 /\ g.part = 0

LEMMA TakesKept ==
    ASSUME NEW h, NEW g, NEW o \in File, NEW k, NEW w, Takes(h, g, o, k, w)
    PROVE  Kept(h, g)
BY DEF Takes, Kept, Held, Lost

\* A word written at the address of the first one that was not acknowledged.
LEMMA WrittenTakes ==
    ASSUME NEW h \in HwState, NEW g \in HwState, NEW o \in File, NEW k, NEW w, NEW a \in Nat,
           Beyond(h, g, o, a), At(g, o, a, w),
           h.mem[o] # Unknown => h.mem[o].acked = a,
           ~g.amode, ~ToAddress(k, o) => g.file = o,
           (h.mem[o] # Unknown /\ a < Size[o] /\ ~ToAddress(k, o)) => g.pos = a + 1 /\ g.part = 0
    PROVE  Takes(h, g, o, k, w)
<1>1. /\ \A e \in File : e # o => g.mem[e] = h.mem[e]
      /\ g.mem[o] = Unknown <=> h.mem[o] = Unknown
  BY DEF Beyond
<1>2. ASSUME h.mem[o] # Unknown
      PROVE  /\ g.mem[o].acked = h.mem[o].acked
             /\ \A i \in 0 .. h.mem[o].acked - 1 : g.mem[o].words[i] = h.mem[o].words[i]
             /\ a < Size[o] => g.mem[o].words[a] = w
  <2>1. h.mem[o].acked \in 0 .. Size[o] /\ Size[o] \in Nat /\ h.mem[o].acked = a
    BY <1>2, KnownMemory, MemberFields, SizeNat
  <2>2. \A i \in 0 .. h.mem[o].acked - 1 : i \in 0 .. Size[o] - 1 /\ i < a
    BY <2>1
  <2>. QED
    BY <1>2, <2>1, <2>2 DEF Beyond, At
<1>. QED
  BY <1>1, <1>2 DEF Takes

\* An acknowledged word: the file is one word longer, or unknown.
LEMMA DoneAgrees ==
    ASSUME TypeInv, "overfull" \in Voids, Opened \in File, Here \in HwState,
           num_instructions \in Nat, cur_device_addr \in Nat,
           Agree(Here, Opened, Family, num_instructions, cur_device_addr), NEW w \in Datum,
           NEW e \in HwState, Takes(Here, e, Opened, Family, w), Sane(e, Family),
           e.amode => Lost(e),
           (Opened # Program /\ Here.mem[Opened] # Unknown) => Here.mem[Opened].acked < Size[Opened],
           IF Opened = Program THEN num_instructions' = num_instructions + 1
                               ELSE cur_device_addr' = cur_device_addr + 1,
           NEW g, g = Acknowledged(Known(e, TRUE))
    PROVE  /\ Agree(g, Opened, Family, num_instructions', cur_device_addr')
           /\ \/ Grown(Here, g, Opened, w)
              \/ Kept(Here, g) /\ g.mem[Opened] = Unknown
<1>1. /\ ForgetFile(e, Program) \in HwState
      /\ SameRegisters(e, ForgetFile(e, Program))
      /\ \A f \in File : ForgetFile(e, Program).mem[f]
                         = IF f = Program THEN Unknown ELSE e.mem[f]
  BY ForgetFileFacts, FileTypes
<1>2. CASE Lost(e)
  <2>1. Known(e, TRUE) \in HwState /\ Lost(Known(e, TRUE)) /\ SameRegisters(e, Known(e, TRUE))
    <3>1. \A f \in File : ForgetFile(e, Program).mem[f] \in {e.mem[f], Unknown}
      BY <1>1
    <3>2. Known(e, TRUE) \in {e, ForgetFile(e, Program)}
      BY DEF Known
    <3>. QED
      BY <1>1, <1>2, <3>1, <3>2 DEF Lost, SameRegisters
  <2>2. g = Known(e, TRUE)
    BY <2>1 DEF Acknowledged, Lost
  <2>3. Lost(g) /\ Sane(g, Family)
    BY <2>1, <2>2 DEF SameRegisters, Sane
  <2>. QED
    BY <2>3, LostAgrees, LostKept DEF Lost
<1>3. CASE ~Lost(e) /\ Here.mem[Opened] = Unknown
  <2>1. e.mem[Opened] = Unknown
    BY <1>3 DEF Takes
  <2>2. Known(e, TRUE) = e
    <3>1. ~Full(e)
      BY <2>1 DEF Full
    <3>. QED
      BY <3>1 DEF Known
  <2>3. g = e
    BY <2>1, <2>2 DEF Acknowledged
  <2>4. Kept(Here, e)
    BY TakesKept
  <2>5. Stored(e)
    BY <2>4, KeptStored DEF Agree
  <2>6. ~ToAddress(Family, Opened) => e.file = Opened
    BY <1>3 DEF Takes
  <2>. QED
    BY <2>1, <2>3, <2>4, <2>5, <2>6 DEF Agree
<1>4. CASE ~Lost(e) /\ Here.mem[Opened] # Unknown /\ Here.mem[Opened].acked = Size[Opened]
  <2>1. Opened = Program /\ e.mem[Opened] # Unknown /\ e.mem[Opened].acked = Size[Opened]
    BY <1>4, SizeNat DEF Takes
  <2>2. Known(e, TRUE) = ForgetFile(e, Program)
    <3>1. Full(e)
      BY <2>1 DEF Full
    <3>. QED
      BY <2>1, <3>1 DEF Known
  <2>3. /\ Known(e, TRUE) \in HwState /\ SameRegisters(e, Known(e, TRUE))
        /\ \A f \in File : Known(e, TRUE).mem[f] = IF f = Program THEN Unknown ELSE e.mem[f]
    BY <1>1, <2>2
  <2>4. g = Known(e, TRUE)
    BY <2>1, <2>3 DEF Acknowledged
  <2>5. Kept(e, g) /\ g.mem[Opened] = Unknown /\ SameRegisters(e, g)
    BY <2>1, <2>3, <2>4 DEF Kept, Held
  <2>6. Kept(Here, g)
    BY <2>5, TakesKept, KeptTransitive
  <2>7. Stored(g)
    BY <2>6, KeptStored DEF Agree
  <2>8. ~g.amode /\ (~ToAddress(Family, Opened) => g.file = Opened)
    BY <1>4, <2>5 DEF Takes, SameRegisters
  <2>9. Sane(g, Family)
    BY <2>5 DEF SameRegisters, Sane
  <2>. QED
    BY <2>5, <2>6, <2>7, <2>8, <2>9 DEF Agree
<1>5. CASE ~Lost(e) /\ Here.mem[Opened] # Unknown /\ Here.mem[Opened].acked # Size[Opened]
  <2>1. Here.mem[Opened].acked \in 0 .. Size[Opened] /\ Size[Opened] \in Nat
    BY <1>5, KnownMemory, MemberFields, SizeNat
  <2>2. /\ e.mem[Opened] # Unknown /\ ~Full(e)
        /\ e.mem[Opened].acked = Here.mem[Opened].acked
    BY <1>5 DEF Takes, Full
  <2>3. Known(e, TRUE) = e
    BY <2>2 DEF Known
  <2>4. /\ SameRegisters(e, g)
        /\ \A f \in File : f # Opened => g.mem[f] = e.mem[f]
        /\ g.mem[Opened] # Unknown
        /\ g.mem[Opened].acked = e.mem[Opened].acked + 1
        /\ g.mem[Opened].words = e.mem[Opened].words
    BY <2>2, <2>3, AcknowledgedFacts
  <2>5. Grown(Here, g, Opened, w)
    <3>1. /\ g.mem[Opened].words[Here.mem[Opened].acked] = w
          /\ \A i \in 0 .. Here.mem[Opened].acked - 1 :
                g.mem[Opened].words[i] = Here.mem[Opened].words[i]
      <4>1. Here.mem[Opened].acked < Size[Opened]
        BY <1>5, <2>1
      <4>2. /\ e.mem[Opened].words[Here.mem[Opened].acked] = w
            /\ \A i \in 0 .. Here.mem[Opened].acked - 1 :
                  e.mem[Opened].words[i] = Here.mem[Opened].words[i]
        BY <1>5, <4>1 DEF Takes
      <4>. QED
        BY <2>4, <4>2
    <3>2. \A f \in File : f # Opened => Held(Here, g, f)
      BY <1>5, <2>4 DEF Takes, Held
    <3>. QED
      BY <1>5, <2>2, <2>4, <3>1, <3>2 DEF Grown
  <2>6. Stored(g)
    <3>1. ASSUME NEW f \in File, g.mem[f] # Unknown, NEW i \in 0 .. g.mem[f].acked - 1
          PROVE  g.mem[f].words[i] \in Datum
      <4>1. CASE f = Opened
        <5>1. i \in 0 .. Here.mem[Opened].acked - 1 \/ i = Here.mem[Opened].acked
          <6>1. g.mem[f].acked = Here.mem[Opened].acked + 1
            BY <2>2, <2>4, <4>1
          <6>2. i \in 0 .. (Here.mem[Opened].acked + 1) - 1
            BY <3>1, <6>1
          <6>. QED
            BY <2>1, <6>2
        <5>. QED
          BY <1>5, <2>5, <4>1, <5>1 DEF Grown, Agree, Stored
      <4>2. CASE f # Opened
        BY <2>5, <3>1, <4>2 DEF Grown, Held, Agree, Stored
      <4>. QED
        BY <4>1, <4>2
    <3>. QED
      BY <3>1 DEF Stored
  <2>7. Sane(g, Family) /\ ~g.amode
    BY <1>5, <2>4 DEF SameRegisters, Sane, Takes
  <2>8. g.mem[Opened].acked = IF Opened = Program THEN num_instructions' ELSE cur_device_addr'
    BY <1>5, <2>2, <2>4 DEF Agree
  <2>9. ~ToAddress(Family, Opened) =>
           g.file = Opened /\ g.pos = g.mem[Opened].acked /\ g.part = 0
    <3>1. Here.mem[Opened].acked < Size[Opened]
      BY <1>5, <2>1
    <3>2. ~ToAddress(Family, Opened) =>
             e.file = Opened /\ e.pos = Here.mem[Opened].acked + 1 /\ e.part = 0
      BY <1>5, <3>1 DEF Takes
    <3>. QED
      BY <2>2, <2>4, <3>2 DEF SameRegisters
  <2>. QED
    BY <2>5, <2>6, <2>7, <2>8, <2>9 DEF Agree
<1>. QED
  BY <1>2, <1>3, <1>4, <1>5

LEMMA NotHere ==
    ASSUME TypeInv, NEW h, NEW k, NEW n, NEW a, Agree(h, Opened, k, n, a), NEW e \in HwState,
           Sane(e, k), NEW here, ~here, NEW m, NEW b, NEW g, g = Acknowledged(Known(e, here))
    PROVE  Agree(g, Opened, k, m, b) /\ Lost(g)
<1>1. Known(e, here) = Forget(e)
  BY DEF Known
<1>2. Lost(Forget(e)) /\ SameRegisters(e, Forget(e))
  BY ForgetFacts
<1>3. g = Forget(e)
  BY <1>1, <1>2 DEF Acknowledged, Lost
<1>4. Sane(g, k) /\ Lost(g)
  BY <1>2, <1>3 DEF Sane, SameRegisters
<1>. QED
  BY <1>4, LostAgrees

LEMMA BrokenAgrees ==
    ASSUME TypeInv, NEW h, NEW k, Stored(h), NEW e \in HwState, Sane(e, k), NEW here,
           here => Kept(h, e) /\ (e.amode => Lost(e)),
           NEW m, NEW b, NEW g, g = Known(e, here)
    PROVE  Agree(g, Nowhere, k, m, b) /\ Kept(h, g)
<1>1. /\ Lost(Forget(e)) /\ SameRegisters(e, Forget(e))
      /\ SameRegisters(e, ForgetFile(e, Program))
      /\ \A f \in File : ForgetFile(e, Program).mem[f]
                         = IF f = Program THEN Unknown ELSE e.mem[f]
  <2>1. Lost(Forget(e)) /\ SameRegisters(e, Forget(e))
    BY ForgetFacts
  <2>2. /\ SameRegisters(e, ForgetFile(e, Program))
        /\ \A f \in File : ForgetFile(e, Program).mem[f]
                           = IF f = Program THEN Unknown ELSE e.mem[f]
    BY ForgetFileFacts, FileTypes
  <2>. QED
    BY <2>1, <2>2
<1>2. CASE ~here
  <2>1. g = Forget(e)
    BY <1>2 DEF Known
  <2>2. Lost(g) /\ Sane(g, k)
    BY <1>1, <2>1 DEF Sane, SameRegisters
  <2>. QED
    BY <2>2, LostKept, ClosedAgrees
<1>3. CASE here
  <2>1. g \in {e, ForgetFile(e, Program)}
    BY <1>3 DEF Known
  <2>2. Kept(e, g)
    BY <1>1, <2>1, SameKept
  <2>3. Kept(h, g)
    BY <1>3, <2>2, KeptTransitive
  <2>4. Sane(g, k) /\ (g.amode => Lost(g))
    BY <1>1, <1>3, <2>1 DEF Sane, SameRegisters, Lost
  <2>. QED
    BY <2>3, <2>4, ClosedAgrees
<1>. QED
  BY <1>2, <1>3

\* What an oldpb or extreg board makes of a word of its open file.
LEMMA SentTakes ==
    ASSUME NEW h \in HwState, NEW o \in File, NEW k \in {"oldpb", "extreg"}, ~ToAddress(k, o),
           NEW n \in Nat, NEW a \in Nat, Agree(h, o, k, n, a), NEW w \in Word
    PROVE  /\ Takes(h, Sent(h, w, BPW), o, k, w)
           /\ \A i \in 0 .. BPW : Kept(h, Sent(h, w, i))
<1>1. BPW \in 0 .. BPW
  BY ProgrammingAssumption
<1>2. ~h.amode
  BY DEF Agree, Sane
<1>3. CASE Lost(h)
  <2>1. \A i \in 0 .. BPW : Beyond(h, Sent(h, w, i), h.file, h.pos)
    BY SentFacts
  <2>2. \A i \in 0 .. BPW : Lost(Sent(h, w, i))
    BY <1>3, <2>1, BeyondLost
  <2>. QED
    BY <1>1, <2>2, LostKept DEF Takes
<1>4. CASE ~Lost(h)
  <2>1. h.file = o /\ (h.mem[o] # Unknown => h.pos = h.mem[o].acked /\ h.part = 0)
    BY <1>4 DEF Agree
  <2>2. h.pos \in Nat
    BY MemberFields
  <2>3. ASSUME NEW i \in 0 .. BPW
        PROVE  Kept(h, Sent(h, w, i))
    <3>1. Sent(h, w, i) \in HwState /\ Beyond(h, Sent(h, w, i), o, h.pos)
      BY <2>1, SentFacts
    <3>2. h.mem[o] # Unknown => h.pos >= h.mem[o].acked
      BY <2>1, <2>2
    <3>. QED
      BY <2>2, <3>1, <3>2, BeyondKept
  <2>4. Takes(h, Sent(h, w, BPW), o, k, w)
    <3>. DEFINE g == Sent(h, w, BPW)
    <3>1. g \in HwState /\ g.file = o /\ ~g.amode /\ Beyond(h, g, o, h.pos)
      BY <1>1, <1>2, <2>1, SentFacts
    <3>2. (h.mem[o] # Unknown /\ h.pos < Size[o]) => At(g, o, h.pos, w) /\ g.part = 0 /\ g.pos = h.pos + 1
      BY <1>1, <2>1, SentFacts
    <3>3. At(g, o, h.pos, w)
      <4>1. ~(h.mem[o] # Unknown /\ h.pos < Size[o]) => At(g, o, h.pos, w)
        BY <3>1 DEF At, Beyond
      <4>. QED
        BY <3>2, <4>1
    <3>. HIDE DEF g
    <3>. QED
      BY <2>1, <2>2, <3>1, <3>2, <3>3, WrittenTakes DEF g
  <2>. QED
    BY <2>3, <2>4
<1>. QED
  BY <1>3, <1>4

LEMMA SentSane ==
    ASSUME NEW h \in HwState, NEW k \in {"oldpb", "extreg"}, Sane(h, k), NEW w \in Word,
           NEW i \in 0 .. BPW
    PROVE  /\ Sent(h, w, i) \in HwState /\ Sane(Sent(h, w, i), k)
           /\ ~Sent(h, w, i).amode
<1>1. Sent(h, w, i) \in HwState /\ Sent(h, w, i).amode = h.amode
  BY SentFacts
<1>. QED
  BY <1>1 DEF Sane

\* What a board makes of a word for an address: its open file's.
LEMMA PutTakes ==
    ASSUME NEW h \in HwState, NEW o \in File, NEW k, ToAddress(k, o), k # "usb2", Sane(h, k),
           NEW a \in Nat, h.mem[o] # Unknown => h.mem[o].acked = a, NEW w \in Word
    PROVE  /\ Takes(h, Put(h, o, a, w), o, k, w)
           /\ Sane(Put(h, o, a, w), k) /\ Put(h, o, a, w) \in HwState
           /\ ~Put(h, o, a, w).amode
<1>1. /\ Put(h, o, a, w) \in HwState /\ SameRegisters(h, Put(h, o, a, w))
      /\ Beyond(h, Put(h, o, a, w), o, a) /\ At(Put(h, o, a, w), o, a, w)
  BY PutFacts
<1>2. Sane(Put(h, o, a, w), k) /\ ~Put(h, o, a, w).amode
  BY <1>1 DEF Sane, SameRegisters
<1>. QED
  BY <1>1, <1>2, WrittenTakes

-----------------------------------------------------------------------------
(* The chains of usb2 calls, as long as a lost call voids the board.       *)

\* An outcome of a board that was h: lost, or with its memory as it was.
Quiet(h, t) ==
    /\ t \in Outcome /\ t.h.part = 0
    /\ t.lost \/ (t.h.mem = h.mem /\ t.h.file = Nowhere /\ ~t.h.amode)

LEMMA AddressQuiet ==
    ASSUME NEW h, NEW T \in SUBSET Outcome,
           \A t \in T : t.h.part = 0 /\ (t.lost \/ t.h.mem = h.mem)
    PROVE  \A t \in AddressCall(T, Nowhere) : Quiet(h, t)
<1>. SUFFICES ASSUME NEW t \in AddressCall(T, Nowhere)
              PROVE  Quiet(h, t)
  OBVIOUS
<1>1. PICK s \in T, j \in 0 .. 3 : t = [h |-> Address(s.h, Nowhere, j), lost |-> s.lost \/ j < 3]
  BY DEF AddressCall
<1>2. AddressCall(T, Nowhere) \subseteq Outcome
  BY AddressCallOutcome
<1>3. t.h = Address(s.h, Nowhere, j) /\ (t.lost <=> (s.lost \/ j < 3))
  BY <1>1
<1>4. s.h \in HwState
  BY DEF Outcome
<1>5. /\ t.h.mem = s.h.mem /\ t.h.part = s.h.part
      /\ j = 3 => t.h.file = Nowhere /\ ~t.h.amode
  BY <1>3, <1>4, AddressFields
<1>. QED
  BY <1>2, <1>3, <1>5 DEF Quiet

LEMMA DataQuiet ==
    ASSUME NEW h, NEW T, \A t \in T : Quiet(h, t), NEW w \in Word
    PROVE  \A t \in DataCall(T, w) : Quiet(h, t)
<1>. SUFFICES ASSUME NEW t \in DataCall(T, w)
              PROVE  Quiet(h, t)
  OBVIOUS
<1>1. PICK s \in T : t \in {[h |-> Written(s.h, w), lost |-> s.lost], [h |-> s.h, lost |-> TRUE]}
  BY DEF DataCall
<1>2. s \in Outcome /\ s.h \in HwState /\ s.lost \in BOOLEAN /\ s.h.part = 0
  BY DEF Quiet, Outcome
<1>3. CASE t = [h |-> s.h, lost |-> TRUE]
  BY <1>2, <1>3 DEF Quiet, Outcome
<1>4. CASE t = [h |-> Written(s.h, w), lost |-> s.lost]
  <2>1. Written(s.h, w) \in HwState /\ Written(s.h, w).part = 0
    BY <1>2, WrittenFacts
  <2>2. ~s.h.amode /\ s.h.file = Nowhere => Written(s.h, w) = s.h
    BY <1>2, WrittenFacts, PutNextFacts
  <2>. QED
    BY <1>2, <1>4, <2>1, <2>2 DEF Quiet, Outcome
<1>. QED
  BY <1>1, <1>3, <1>4

LEMMA SettledQuiet ==
    ASSUME NEW h, NEW t, Quiet(h, t), "lost" \in Voids, NEW g, g = Settled(t)
    PROVE  /\ g \in HwState /\ Sane(g, "usb2") /\ Kept(h, g)
           /\ g.amode => Lost(g)
<1>1. t.h \in HwState /\ t.h.part = 0
  BY DEF Quiet, Outcome
<1>2. CASE t.lost
  <2>1. g = Forget(t.h)
    BY <1>2 DEF Settled
  <2>2. g \in HwState /\ SameRegisters(t.h, g) /\ Lost(g)
    BY <1>1, <2>1, ForgetFacts
  <2>. QED
    BY <1>1, <2>2, LostKept DEF Sane, SameRegisters
<1>3. CASE ~t.lost
  <2>1. g = t.h /\ g.mem = h.mem /\ ~g.amode
    BY <1>3 DEF Settled, Quiet
  <2>. QED
    BY <1>1, <2>1, SameKept DEF Sane
<1>. QED
  BY <1>2, <1>3

LEMMA TriesQuiet ==
    ASSUME TypeInv, Sane(Here, "usb2")
    PROVE  /\ Tries \in SUBSET Outcome
           /\ \A t \in Tries : t.h.part = 0 /\ t.h.mem = Here.mem
BY TriesOutcome DEF Tries, Here, Sane

\* A flag, and the shape periods after a program.
LEMMA ChainsQuiet ==
    ASSUME TypeInv, Sane(Here, "usb2")
    PROVE  /\ \A t \in DataCall(AddressCall(Tries, Nowhere), Junk) : Quiet(Here, t)
           /\ \A t \in AddressCall(ShapeCalls(Tries), Nowhere) : Quiet(Here, t)
<1>1. Junk \in Word
  BY DEF Word
<1>2. \A t \in AddressCall(Tries, Nowhere) : Quiet(Here, t)
  BY TriesQuiet, AddressQuiet
<1>3. \A t \in DataCall(AddressCall(Tries, Nowhere), Junk) : Quiet(Here, t)
  BY <1>1, <1>2, DataQuiet
<1>4. ASSUME NEW T, \A t \in T : Quiet(Here, t)
      PROVE  \A t \in AddressCall(T, Nowhere) : Quiet(Here, t)
  <2>1. T \in SUBSET Outcome /\ \A t \in T : t.h.part = 0 /\ (t.lost \/ t.h.mem = Here.mem)
    BY <1>4 DEF Quiet
  <2>. QED
    BY <2>1, AddressQuiet
<1>5. \A t \in AddressCall(DataCall(AddressCall(Tries, Nowhere), Junk), Nowhere) : Quiet(Here, t)
  BY <1>3, <1>4
<1>6. \A t \in DataCall(AddressCall(DataCall(AddressCall(Tries, Nowhere), Junk), Nowhere), Junk) :
         Quiet(Here, t)
  BY <1>1, <1>5, DataQuiet
<1>7. \A t \in AddressCall(DataCall(AddressCall(DataCall(AddressCall(Tries, Nowhere), Junk),
                                                Nowhere), Junk), Nowhere) : Quiet(Here, t)
  BY <1>4, <1>6
<1>. QED
  BY <1>2, <1>3, <1>7 DEF ShapeCalls

\* A word for the open file.
LEMMA DataSane ==
    ASSUME TypeInv, Sane(Here, "usb2"), NEW w \in Word, NEW t \in DataCall(Tries, w)
    PROVE  Settled(t) \in HwState /\ Sane(Settled(t), "usb2")
<1>1. Here \in HwState
  BY FileTypes
<1>2. t.h \in HwState /\ t.h.part = 0
  <2>1. t \in {[h |-> Written(Here, w), lost |-> FALSE], [h |-> Here, lost |-> TRUE]}
    BY DEF DataCall, Tries, Here
  <2>. QED
    BY <1>1, <2>1, WrittenFacts DEF Sane
<1>3. Settled(t) \in {t.h, Forget(t.h)}
  BY DEF Settled
<1>. QED
  BY <1>2, <1>3, ForgetFacts DEF Sane, SameRegisters

LEMMA DataTakes ==
    ASSUME TypeInv, "lost" \in Voids, NEW o \in File, NEW n \in Nat, NEW a \in Nat,
           Agree(Here, o, "usb2", n, a), NEW w \in Word, NEW t \in DataCall(Tries, w),
           NEW g, g = Settled(t)
    PROVE  Takes(Here, g, o, "usb2", w) /\ (g.amode => Lost(g))
<1>1. Here \in HwState
  BY FileTypes
<1>2. t \in {[h |-> Written(Here, w), lost |-> FALSE], [h |-> Here, lost |-> TRUE]}
  BY DEF DataCall, Tries, Here
<1>3. CASE t = [h |-> Here, lost |-> TRUE]
  <2>1. g = Forget(Here)
    BY <1>3 DEF Settled
  <2>. QED
    BY <1>1, <2>1, ForgetFacts DEF Takes
<1>4. CASE t = [h |-> Written(Here, w), lost |-> FALSE]
  <2>1. g = Written(Here, w)
    BY <1>4 DEF Settled
  <2>2. g \in HwState /\ g.part = Here.part /\ g.amode = Here.amode /\ Beyond(Here, g, Here.file, Here.pos)
    BY <1>1, <2>1, WrittenFacts
  <2>3. CASE Lost(Here)
    BY <2>2, <2>3, BeyondLost DEF Takes
  <2>4. CASE ~Lost(Here)
    <3>1. ~Here.amode /\ Here.file = o /\ Here.part = 0
      BY <2>4 DEF Agree, ToAddress, Sane
    <3>2. Here.pos \in Nat /\ (Here.mem[o] # Unknown => Here.mem[o].acked = Here.pos)
      BY <1>1, MemberFields DEF Agree, ToAddress
    <3>3. /\ g.file = o /\ ~g.amode /\ g.part = 0
          /\ Beyond(Here, g, o, Here.pos) /\ At(g, o, Here.pos, w)
          /\ Here.pos < Size[o] => g.pos = Here.pos + 1
      BY <1>1, <2>1, <2>2, <3>1, WrittenFacts, PutNextFacts
    <3>4. Takes(Here, g, o, "usb2", w)
      BY <1>1, <2>2, <3>2, <3>3, WrittenTakes
    <3>. QED
      BY <3>3, <3>4
  <2>. QED
    BY <2>3, <2>4
<1>. QED
  BY <1>2, <1>3, <1>4

-----------------------------------------------------------------------------
(* What each action does to the boards.                                    *)

\* What the store is told of the selected board, and the others never are.
Effect ==
    /\ \A b \in Board : b # cur_board => Kept(hw[b], hw'[b])
    /\ \/ \E f \in File : Begun(Here, hw'[cur_board], f) /\ call'.answer = 0
       \/ \E f \in File, w \in Datum :
             /\ Grown(Here, hw'[cur_board], f, w)
             /\ <<cur_board, f>> \in call'.to /\ call'.data = w
             /\ call'.answer = IF f = Program THEN Here.mem[f].acked ELSE 0
       \/ /\ Kept(Here, hw'[cur_board])
          /\ (call'.data \in Datum \/ call'.answer > 0) =>
                \E f \in File : <<cur_board, f>> \in call'.to /\ hw'[cur_board].mem[f] = Unknown

LEMMA HereAgrees ==
    ASSUME Inv
    PROVE  /\ TypeInv /\ cur_board \in Board /\ Here \in HwState
           /\ Agree(Here, Opened, Family, num_instructions, cur_device_addr)
           /\ Sane(Here, Family) /\ Stored(Here)
           /\ num_instructions \in Nat /\ cur_device_addr \in Nat
<1>1. /\ TypeInv /\ cur_board \in Board /\ cur_device_addr \in Nat
      /\ num_instructions \in Nat
  BY ProgrammingAssumption DEF Inv, TypeInv, TypeOK
<1>2. Here \in HwState /\ Agree(Here, Opened, Family, num_instructions, cur_device_addr)
  BY <1>1 DEF Inv, AllAgree, TypeInv, Here, Opened, Family
<1>3. Sane(Here, Family) /\ Stored(Here)
  BY <1>2 DEF Agree
<1>. QED
  BY <1>1, <1>2, <1>3

\* A programming call voids the open files of the other boards.
LEMMA CallFrame ==
    ASSUME Inv, "interleaved" \in Voids, NEW h \in HwState, InCall(h),
           NEW o \in File \cup {Nowhere}, NowOpen(o), kind' = kind,
           Agree(h, o, Family, num_instructions', cur_device_addr')
    PROVE  /\ AllAgree'
           /\ hw'[cur_board] = h /\ open'[cur_board] = o
           /\ \A b \in Board : b # cur_board => Kept(hw[b], hw'[b])
<1>1. hw'[cur_board] = h /\ open'[cur_board] = o
  BY HereAgrees, CallFacts, NowOpenType
<1>2. ASSUME NEW b \in Board, b # cur_board
      PROVE  /\ Agree(hw'[b], open'[b], kind[b], num_instructions', cur_device_addr')
             /\ Kept(hw[b], hw'[b])
  <2>1. /\ hw[b] \in HwState /\ open[b] \in File \cup {Nowhere} /\ open'[b] = open[b]
        /\ Agree(hw[b], open[b], kind[b], num_instructions, cur_device_addr)
    BY <1>2 DEF Inv, TypeInv, AllAgree, NowOpen
  <2>2. hw'[b] = ForgetFile(hw[b], open[b])
    BY <1>2 DEF InCall
  <2>. QED
    BY <2>1, <2>2, VoidAgrees
<1>3. \A b \in Board : Agree(hw'[b], open'[b], kind'[b], num_instructions', cur_device_addr')
  BY <1>1, <1>2 DEF Family
<1>. QED
  BY <1>1, <1>2, <1>3 DEF AllAgree

\* A trigger or a reset concerns the selected board only.
LEMMA BoardFrame ==
    ASSUME Inv, NEW h \in HwState, OnBoard(h), NowOpen(Nowhere), UNCHANGED library,
           Agree(h, Nowhere, Family, num_instructions, cur_device_addr)
    PROVE  /\ AllAgree'
           /\ hw'[cur_board] = h
           /\ \A b \in Board : b # cur_board => Kept(hw[b], hw'[b])
<1>1. hw'[cur_board] = h /\ open'[cur_board] = Nowhere
  BY HereAgrees, CallFacts, NowOpenType
<1>2. ASSUME NEW b \in Board, b # cur_board
      PROVE  /\ Agree(hw'[b], open'[b], kind[b], num_instructions, cur_device_addr)
             /\ Kept(hw[b], hw'[b])
  <2>1. hw'[b] = hw[b] /\ open'[b] = open[b]
    BY <1>2 DEF Inv, TypeInv, OnBoard, NowOpen
  <2>. QED
    BY <2>1, SameKept DEF Inv, AllAgree
<1>3. \A b \in Board : Agree(hw'[b], open'[b], kind[b], num_instructions, cur_device_addr)
  BY <1>1, <1>2 DEF Family
<1>. QED
  BY <1>1, <1>2, <1>3 DEF AllAgree, library

\* A call that the store need not be told of.
LEMMA QuietEffect ==
    ASSUME \A b \in Board : b # cur_board => Kept(hw[b], hw'[b]),
           Kept(Here, hw'[cur_board]), Returns(0) \/ Returns(-1)
    PROVE  Effect
<1>1. ~(call'.data \in Datum \/ call'.answer > 0)
  BY UnknownAssumption DEF Returns
<1>. QED
  BY <1>1 DEF Effect

LEMMA SelectStep ==
    ASSUME Inv, UNCHANGED <<cur_device_addr, num_instructions, kind, hw, open>>,
           Returns(0) \/ Returns(-1)
    PROVE  AllAgree' /\ Effect
<1>1. AllAgree'
  BY DEF Inv, AllAgree
<1>2. \A b \in Board : Kept(hw[b], hw'[b])
  BY SameKept
<1>. QED
  BY <1>1, <1>2, HereAgrees, QuietEffect DEF Here

LEMMA StartedStep ==
    ASSUME Inv, "interleaved" \in Voids, NEW device \in Device \ {"none"}, NEW l \in HwState,
           l.mem = Here.mem, Sane(l, Family), ~l.amode,
           ~ToAddress(Family, FileOf(device)) =>
                l.file = FileOf(device) /\ l.pos = 0 /\ l.part = 0,
           Started(device, Begin(l, FileOf(device))), ResetCounter(device), kind' = kind
    PROVE  AllAgree' /\ Effect
<1>. DEFINE f == FileOf(device)
            h == Begin(l, f)
<1>1. /\ f \in File \cup {Nowhere} /\ (device = "PULSE_PROGRAM" <=> f = Program)
      /\ Family # "usb2" => f \in {Nowhere, Program, Freq(0), Phase(0)}
      /\ Family = "pcie" => f \in {Nowhere, Program}
  BY HereAgrees, FileOfFacts
<1>2. /\ h \in HwState /\ SameRegisters(l, h)
      /\ \A e \in File : h.mem[e] = IF e = f THEN Fresh(f) ELSE l.mem[e]
  BY <1>1, BeginFacts
<1>3. Sane(h, Family) /\ ~h.amode
  BY <1>2 DEF Sane, SameRegisters
<1>4. InCall(h) /\ NowOpen(f) /\ cur_device_addr' = 0 /\ Returns(0)
  BY DEF Started
<1>5. f = Program => num_instructions' = 0
  BY <1>1 DEF ResetCounter
<1>6. call'.answer = 0
  BY <1>4 DEF Returns
<1>7. Stored(Here)
  BY HereAgrees
<1>8. CASE f \in File
  <2>1. ~ToAddress(Family, f) => h.file = f /\ h.pos = 0 /\ h.part = 0
    BY <1>2 DEF SameRegisters
  <2>2. \A e \in File : h.mem[e] = IF e = f THEN Fresh(f) ELSE Here.mem[e]
    BY <1>2
  <2>. HIDE DEF f, h
  <2>3. Agree(h, f, Family, num_instructions', cur_device_addr') /\ Begun(Here, h, f)
    BY <1>1, <1>3, <1>4, <1>5, <1>7, <1>8, <2>1, <2>2, BegunAgrees
  <2>4. /\ AllAgree' /\ hw'[cur_board] = h
        /\ \A b \in Board : b # cur_board => Kept(hw[b], hw'[b])
    BY <1>1, <1>2, <1>4, <2>3, CallFrame
  <2>. QED
    BY <1>6, <1>8, <2>3, <2>4 DEF Effect
<1>9. CASE f \notin File
  <2>1. f = Nowhere /\ h = l
    BY <1>1, <1>9 DEF Begin
  <2>2. Kept(Here, h)
    BY <2>1, SameKept
  <2>. HIDE DEF f, h
  <2>3. Agree(h, f, Family, num_instructions', cur_device_addr')
    BY <1>3, <1>7, <2>1, <2>2, ClosedAgrees
  <2>4. /\ AllAgree' /\ hw'[cur_board] = h
        /\ \A b \in Board : b # cur_board => Kept(hw[b], hw'[b])
    BY <1>1, <1>2, <1>4, <2>3, CallFrame
  <2>. QED
    BY <1>4, <2>2, <2>4, QuietEffect
<1>. QED
  BY <1>8, <1>9

\* A call that closes the file of the selected board.
LEMMA ClosedStep ==
    ASSUME Inv, "interleaved" \in Voids, NEW h \in HwState, InCall(h), NowOpen(Nowhere),
           kind' = kind, Kept(Here, h), Sane(h, Family), h.amode => Lost(h),
           Returns(0) \/ Returns(-1)
    PROVE  AllAgree' /\ Effect
<1>1. Agree(h, Nowhere, Family, num_instructions', cur_device_addr')
  BY HereAgrees, ClosedAgrees
<1>2. /\ AllAgree' /\ hw'[cur_board] = h
      /\ \A b \in Board : b # cur_board => Kept(hw[b], hw'[b])
  BY <1>1, CallFrame
<1>. QED
  BY <1>2, QuietEffect

LEMMA StartFailedStep ==
    ASSUME Inv, "interleaved" \in Voids, NEW device \in Device \ {"none"}, NEW h \in HwState,
           h.mem = Here.mem, Sane(h, Family), ~h.amode, StartFailed(device, h), kind' = kind
    PROVE  AllAgree' /\ Effect
<1>. DEFINE g == ForgetFile(h, FileOf(device))
<1>1. FileOf(device) \in File \cup {Nowhere}
  BY HereAgrees, FileOfFacts
<1>2. /\ g \in HwState /\ SameRegisters(h, g)
      /\ \A e \in File : g.mem[e] = IF e = FileOf(device) THEN Unknown ELSE h.mem[e]
  BY <1>1, ForgetFileFacts
<1>3. Kept(Here, g) /\ Sane(g, Family) /\ ~g.amode
  BY <1>2, SameKept DEF Sane, SameRegisters
<1>4. InCall(g) /\ NowOpen(Nowhere) /\ Returns(-1)
  BY DEF StartFailed
<1>. HIDE DEF g
<1>. QED
  BY <1>2, <1>3, <1>4, ClosedStep

LEMMA StartProgrammingStep ==
    ASSUME Inv, AllVoid, NEW device \in Device \ {"none"}, PbStartProgramming(device)
    PROVE  AllAgree' /\ Effect
<1>1. kind' = kind /\ "interleaved" \in Voids /\ "lost" \in Voids
  BY DEF PbStartProgramming, AllVoid
<1>2. /\ FileOf(device) \in File \cup {Nowhere} /\ Here \in HwState /\ Sane(Here, Family)
      /\ Family \in {"oldpb", "extreg"} => FileOf(device) # Nowhere
      /\ device = "PULSE_PROGRAM" <=> FileOf(device) = Program
  BY HereAgrees, FileOfFacts
<1>3. ASSUME Family \in {"oldpb", "extreg"}, StartOldPb(device)
      PROVE  AllAgree' /\ Effect
  <2>1. ASSUME NEW k \in 0 .. 4
        PROVE  LET h == Latched(Here, FileOf(device), k) IN
               /\ h \in HwState /\ h.mem = Here.mem /\ Sane(h, Family) /\ ~h.amode
               /\ k = 4 => h.file = FileOf(device) /\ h.pos = 0 /\ h.part = 0
    <3>. DEFINE h == Latched(Here, FileOf(device), k)
    <3>1. /\ h \in HwState /\ h.mem = Here.mem /\ h.amode = Here.amode
          /\ k = 4 => h.file = FileOf(device) /\ h.pos = 0 /\ h.part = 0
      <4>1. Here \in HwState /\ FileOf(device) \in File \cup {Nowhere}
        BY <1>2
      <4>2. h \in HwState
        BY <4>1, LatchedType
      <4>3. /\ h.mem = Here.mem /\ h.amode = Here.amode
            /\ k = 4 => h.file = FileOf(device) /\ h.pos = 0 /\ h.part = 0
        BY <4>1, LatchedFields
      <4>. QED
        BY <4>2, <4>3
    <3>. HIDE DEF h
    <3>2. Sane(h, Family) /\ ~h.amode
      BY <1>2, <1>3, <3>1 DEF Sane
    <3>. QED
      BY <3>1, <3>2 DEF h
  <2>2. CASE /\ Started(device, Begin(Latched(Here, FileOf(device), 4), FileOf(device)))
             /\ ResetCounter(device)
    BY <1>1, <2>1, <2>2, StartedStep
  <2>3. CASE \E k \in 0 .. 4 : StartFailed(device, Latched(Here, FileOf(device), k))
    BY <1>1, <2>1, <2>3, StartFailedStep
  <2>. QED
    BY <1>3, <2>2, <2>3 DEF StartOldPb
<1>4. CASE Family = "oldpb" /\ StartOldPb(device)
  BY <1>3, <1>4
<1>5. CASE Family = "extreg" /\ StartExtReg(device)
  <2>1. CASE device = "PULSE_PROGRAM" /\ StartOldPb(device)
    BY <1>3, <1>5, <2>1
  <2>2. CASE /\ device # "PULSE_PROGRAM"
             /\ Started(device, Begin(Here, FileOf(device)))
             /\ UNCHANGED num_instructions
    <3>1. ResetCounter(device)
      BY <2>2 DEF ResetCounter
    <3>2. ToAddress(Family, FileOf(device)) /\ ~Here.amode
      BY <1>2, <1>5, <2>2 DEF ToAddress, Sane
    <3>. QED
      BY <1>1, <1>2, <2>2, <3>1, <3>2, StartedStep
  <2>. QED
    BY <1>5, <2>1, <2>2 DEF StartExtReg
<1>6. CASE Family = "pcie" /\ StartPcie(device)
  <2>1. ToAddress(Family, FileOf(device)) /\ ~Here.amode /\ ResetCounter(device)
    BY <1>2, <1>6 DEF ToAddress, Sane, StartPcie
  <2>2. CASE Started(device, Begin(Here, FileOf(device)))
    BY <1>1, <1>2, <2>1, <2>2, StartedStep
  <2>3. CASE StartFailed(device, Here)
    BY <1>1, <1>2, <2>1, <2>3, StartFailedStep
  <2>. QED
    BY <1>6, <2>2, <2>3 DEF StartPcie
<1>7. CASE Family = "usb2" /\ StartUsb2(device)
  <2>1. PICK t \in AddressCall(Tries, FileOf(device)) :
                Started(device, Settled([t EXCEPT !.h = Begin(@, FileOf(device))]))
    BY <1>7 DEF StartUsb2
  <2>2. PICK j \in 0 .. 3 : t.h = Address(Here, FileOf(device), j) /\ (t.lost <=> j < 3)
    <3>1. PICK s \in Tries, j \in 0 .. 3 :
                  t = [h |-> Address(s.h, FileOf(device), j), lost |-> s.lost \/ j < 3]
      BY DEF AddressCall
    <3>2. s.h = Here /\ ~s.lost
      BY DEF Tries, Here
    <3>. QED
      BY <3>1, <3>2
  <2>3. /\ t.h \in HwState /\ t.h.mem = Here.mem /\ t.h.part = Here.part
        /\ j = 3 => t.h.file = FileOf(device) /\ t.h.pos = 0 /\ ~t.h.amode
        /\ t.lost <=> j < 3
    <3>1. Here \in HwState /\ FileOf(device) \in File \cup {Nowhere}
      BY <1>2
    <3>. DEFINE h == Address(Here, FileOf(device), j)
    <3>2. /\ h \in HwState /\ h.mem = Here.mem /\ h.part = Here.part
          /\ j = 3 => h.file = FileOf(device) /\ h.pos = 0 /\ ~h.amode
      BY <3>1, AddressType, AddressFields
    <3>. HIDE DEF h
    <3>. QED
      BY <2>2, <3>2 DEF h
  <2>. DEFINE b == Begin(t.h, FileOf(device))
              s == [t EXCEPT !.h = Begin(@, FileOf(device))]
  <2>4. s.h = b /\ s.lost = t.lost
    BY <2>2
  <2>5. b \in HwState /\ SameRegisters(t.h, b)
    BY <1>2, <2>3, BeginFacts
  <2>6. ResetCounter(device)
    BY <1>7 DEF StartUsb2
  <2>7. CASE j = 3
    <3>1. Settled(s) = b
      BY <2>3, <2>4, <2>7 DEF Settled
    <3>2. t.h.part = 0 /\ Sane(t.h, Family)
      BY <1>2, <1>7, <2>3 DEF Sane
    <3>. QED
      BY <1>1, <2>1, <2>3, <2>6, <2>7, <3>1, <3>2, StartedStep
  <2>8. CASE j # 3
    <3>1. Settled(s) = Forget(b)
      BY <1>1, <2>3, <2>4, <2>8 DEF Settled
    <3>. DEFINE g == Forget(b)
    <3>2. g \in HwState /\ SameRegisters(b, g) /\ Lost(g)
      BY <2>5, ForgetFacts
    <3>3. Sane(g, Family)
      BY <1>2, <1>7, <2>3, <2>5, <3>2 DEF Sane, SameRegisters
    <3>. HIDE DEF g
    <3>4. InCall(g) /\ NowOpen(FileOf(device)) /\ Returns(0)
      BY <2>1, <3>1 DEF Started, g
    <3>5. Agree(g, FileOf(device), Family, num_instructions', cur_device_addr')
      BY <1>7, <3>2, <3>3 DEF Agree, Lost, Stored
    <3>6. /\ AllAgree' /\ hw'[cur_board] = g
          /\ \A c \in Board : c # cur_board => Kept(hw[c], hw'[c])
      BY <1>1, <1>2, <3>2, <3>4, <3>5, CallFrame
    <3>. QED
      BY <3>2, <3>4, <3>6, LostKept, QuietEffect
  <2>. QED
    BY <2>7, <2>8
<1>. QED
  BY <1>4, <1>5, <1>6, <1>7 DEF PbStartProgramming

\* A word that was acknowledged, for one of the files in fs.
LEMMA WordStep ==
    ASSUME Inv, AllVoid, NEW e \in HwState, NEW w \in Datum, Sane(e, Family),
           NEW fs, fs # {}, fs \in SUBSET File, NEW here, here <=> Opened \in fs, NEW r,
           here => /\ Takes(Here, e, Opened, Family, w)
                   /\ e.amode => Lost(e)
                   /\ (Opened # Program /\ Here.mem[Opened] # Unknown) =>
                         Here.mem[Opened].acked < Size[Opened]
                   /\ IF Opened = Program THEN num_instructions' = num_instructions + 1
                                          ELSE cur_device_addr' = cur_device_addr + 1
                   /\ r = IF Opened = Program THEN num_instructions ELSE 0,
           InCall(Acknowledged(Known(e, here))), Acknowledges(fs, w, r),
           UNCHANGED open, kind' = kind
    PROVE  AllAgree' /\ Effect
<1>. DEFINE g == Acknowledged(Known(e, here))
<1>1. /\ "interleaved" \in Voids /\ "overfull" \in Voids
      /\ TypeInv /\ cur_board \in Board /\ Here \in HwState
      /\ Agree(Here, Opened, Family, num_instructions, cur_device_addr)
      /\ num_instructions \in Nat /\ cur_device_addr \in Nat
      /\ Opened \in File \cup {Nowhere}
  BY HereAgrees, FileTypes DEF AllVoid
<1>2. g \in HwState
  BY <1>1, KnownType, AcknowledgedFacts
<1>3. call'.data = w /\ call'.answer = r /\ \A f \in fs : <<cur_board, f>> \in call'.to
  BY DEF Acknowledges
<1>4. NowOpen(Opened)
  BY <1>1 DEF NowOpen, Opened, TypeInv
<1>5. ASSUME Agree(g, Opened, Family, num_instructions', cur_device_addr')
      PROVE  /\ AllAgree' /\ hw'[cur_board] = g
             /\ \A b \in Board : b # cur_board => Kept(hw[b], hw'[b])
  BY <1>1, <1>2, <1>4, <1>5, CallFrame
<1>6. CASE here
  <2>1. Opened \in File
    BY <1>6
  <2>2. g = Acknowledged(Known(e, TRUE))
    BY <1>6 DEF Known
  <2>3. /\ Agree(g, Opened, Family, num_instructions', cur_device_addr')
        /\ \/ Grown(Here, g, Opened, w)
           \/ Kept(Here, g) /\ g.mem[Opened] = Unknown
    <3>1. /\ Takes(Here, e, Opened, Family, w)
          /\ e.amode => Lost(e)
          /\ (Opened # Program /\ Here.mem[Opened] # Unknown) =>
                Here.mem[Opened].acked < Size[Opened]
          /\ IF Opened = Program THEN num_instructions' = num_instructions + 1
                                 ELSE cur_device_addr' = cur_device_addr + 1
      BY <1>6
    <3>. HIDE DEF g
    <3>. QED
      BY <1>1, <2>1, <2>2, <3>1, DoneAgrees
  <2>. HIDE DEF g
  <2>4. CASE Grown(Here, g, Opened, w)
    <3>1. Here.mem[Opened] # Unknown
      BY <2>4 DEF Grown
    <3>2. r = IF Opened = Program THEN Here.mem[Opened].acked ELSE 0
      BY <1>1, <1>6, <2>1, <3>1 DEF Agree
    <3>. QED
      BY <1>3, <1>5, <1>6, <2>1, <2>3, <2>4, <3>2 DEF Effect
  <2>5. CASE Kept(Here, g) /\ g.mem[Opened] = Unknown
    BY <1>3, <1>5, <1>6, <2>1, <2>3, <2>5 DEF Effect
  <2>. QED
    BY <2>3, <2>4, <2>5
<1>7. CASE ~here
  <2>1. Agree(g, Opened, Family, num_instructions', cur_device_addr') /\ Lost(g)
    BY <1>1, <1>7, NotHere
  <2>. HIDE DEF g
  <2>2. PICK f \in fs : f \in File
    OBVIOUS
  <2>3. Kept(Here, g) /\ g.mem[f] = Unknown
    BY <2>1, <2>2, LostKept DEF Lost
  <2>. QED
    BY <1>3, <1>5, <2>1, <2>2, <2>3 DEF Effect
<1>. QED
  BY <1>6, <1>7

\* A word that was reported to have failed.
LEMMA BrokenStep ==
    ASSUME Inv, AllVoid, NEW e \in HwState, Sane(e, Family), NEW here,
           here => Kept(Here, e) /\ (e.amode => Lost(e)),
           Broken(e, here), Returns(-1), kind' = kind
    PROVE  AllAgree' /\ Effect
<1>. DEFINE g == Known(e, here)
<1>1. "interleaved" \in Voids /\ TypeInv /\ Stored(Here)
  BY HereAgrees DEF AllVoid
<1>2. g \in HwState /\ InCall(g) /\ NowOpen(Nowhere)
  BY <1>1, KnownType DEF Broken
<1>3. Agree(g, Nowhere, Family, num_instructions', cur_device_addr') /\ Kept(Here, g)
  BY <1>1, BrokenAgrees
<1>. HIDE DEF g
<1>4. /\ AllAgree' /\ hw'[cur_board] = g
      /\ \A b \in Board : b # cur_board => Kept(hw[b], hw'[b])
  BY <1>1, <1>2, <1>3, CallFrame
<1>. QED
  BY <1>3, <1>4, QuietEffect

LEMMA InstDirectStep ==
    ASSUME Inv, AllVoid, NEW w \in Datum, PbInstDirect(w)
    PROVE  AllAgree' /\ Effect
<1>. DEFINE here == Opened = Program
            n == num_instructions
            a == cur_device_addr
<1>1. kind' = kind /\ "lost" \in Voids
  BY DEF PbInstDirect, AllVoid
<1>2. /\ TypeInv /\ Here \in HwState /\ Sane(Here, Family)
      /\ Agree(Here, Opened, Family, n, a)
      /\ n \in Nat /\ a \in Nat /\ w \in Word /\ BPW \in 0 .. BPW
      /\ Program \in File
  BY HereAgrees, FileTypes, ProgrammingAssumption DEF Word
<1>3. ASSUME NEW e \in HwState, Sane(e, Family), InstDone(e, here, w),
             here => Takes(Here, e, Opened, Family, w) /\ (e.amode => Lost(e))
      PROVE  AllAgree' /\ Effect
  <2>1. /\ InCall(Acknowledged(Known(e, here))) /\ num_instructions' = n + 1
        /\ Acknowledges({Program}, w, n) /\ UNCHANGED open
    BY <1>3 DEF InstDone
  <2>2. here <=> Opened \in {Program}
    OBVIOUS
  <2>3. {Program} # {} /\ {Program} \in SUBSET File
    BY <1>2
  <2>. QED
    BY <1>1, <1>3, <2>1, <2>2, <2>3, WordStep
<1>4. ASSUME NEW e \in HwState, Sane(e, Family), InstFailed(e, here),
             here => Kept(Here, e) /\ (e.amode => Lost(e))
      PROVE  AllAgree' /\ Effect
  BY <1>1, <1>4, BrokenStep DEF InstFailed
<1>5. ASSUME ByteWise, NEW i \in 0 .. BPW
      PROVE  /\ Sent(Here, w, i) \in HwState /\ Sane(Sent(Here, w, i), Family)
             /\ ~Sent(Here, w, i).amode
  BY <1>2, <1>5, SentSane DEF ByteWise
<1>6. ASSUME ByteWise, here
      PROVE  /\ Takes(Here, Sent(Here, w, BPW), Opened, Family, w)
             /\ \A i \in 0 .. BPW : Kept(Here, Sent(Here, w, i))
  <2>1. ~ToAddress(Family, Opened)
    BY <1>6 DEF ToAddress, ByteWise
  <2>. QED
    BY <1>2, <1>6, <2>1, SentTakes DEF ByteWise
<1>7. CASE ByteWise /\ InstDone(Sent(Here, w, BPW), here, w)
  BY <1>2, <1>3, <1>5, <1>6, <1>7
<1>8. CASE ByteWise /\ \E i \in 0 .. BPW : InstFailed(Sent(Here, w, i), here)
  BY <1>4, <1>5, <1>6, <1>8
<1>9. CASE Family = "pcie" /\ InstDone(Put(Here, Program, n, w), here, w)
  <2>1. /\ Put(Here, Program, n, w) \in HwState
        /\ SameRegisters(Here, Put(Here, Program, n, w))
    BY <1>2, PutFacts
  <2>2. Sane(Put(Here, Program, n, w), Family) /\ ~Put(Here, Program, n, w).amode
    BY <1>2, <1>9, <2>1 DEF SameRegisters, Sane
  <2>3. here => Takes(Here, Put(Here, Program, n, w), Program, Family, w)
    <3>1. here => (Here.mem[Program] # Unknown => Here.mem[Program].acked = n)
      BY <1>2 DEF Agree
    <3>2. ToAddress(Family, Program) /\ Family # "usb2"
      BY <1>9 DEF ToAddress
    <3>. QED
      BY <1>2, <3>1, <3>2, PutTakes
  <2>. QED
    BY <1>3, <1>9, <2>1, <2>2, <2>3
<1>10. CASE Family = "pcie" /\ InstFailed(Here, here)
  BY <1>2, <1>4, <1>10, SameKept DEF Sane
<1>11. CASE Family = "usb2" /\ \E t \in DataCall(Tries, w) : InstDone(Settled(t), here, w)
  <2>1. PICK t \in DataCall(Tries, w) : InstDone(Settled(t), here, w)
    BY <1>11
  <2>2. Settled(t) \in HwState /\ Sane(Settled(t), Family)
    BY <1>2, <1>11, DataSane
  <2>3. here => /\ Takes(Here, Settled(t), Opened, Family, w)
                /\ Settled(t).amode => Lost(Settled(t))
    BY <1>1, <1>2, <1>11, DataTakes
  <2>. QED
    BY <1>3, <2>1, <2>2, <2>3
<1>. QED
  BY <1>7, <1>8, <1>9, <1>10, <1>11 DEF PbInstDirect

Registers(device) ==
    IF device = "FREQ_REGS" THEN {Freq(d) : d \in 0 .. NumDds - 1}
                            ELSE {Phase(d) : d \in 0 .. NumDds - 1}

\* The library's limit is the size of each of the device's files.
LEMMA LimitFacts ==
    ASSUME TypeInv, NEW device \in {"FREQ_REGS", "TX_PHASE_REGS"}, cur_device_addr < Limit(device)
    PROVE  /\ Registers(device) \in SUBSET File /\ Registers(device) # {}
           /\ Program \notin Registers(device)
           /\ Family # "pcie"
           /\ \A f \in Registers(device) : cur_device_addr < Size[f]
           /\ FileOf(device) \in Registers(device)
           /\ Family = "extreg" =>
                 {FileOf(device)} = Registers(device) \cap {Nowhere, Program, Freq(0), Phase(0)}
<1>1. cur_device_addr \in Nat /\ cur_dds \in 0 .. NumDds /\ NumDds \in Nat \ {0}
  BY ProgrammingAssumption DEF TypeInv, TypeOK
<1>2. ~NoRegisters /\ Limit(device) = Size[FileOf(device)]
  BY <1>1 DEF Limit
<1>3. Dds \in 0 .. NumDds - 1 /\ (Family # "usb2" => Dds = 0)
  BY <1>1, <1>2 DEF Dds, NoRegisters
<1>4. FileOf(device) = IF device = "FREQ_REGS" THEN Freq(Dds) ELSE Phase(Dds)
  BY <1>2 DEF FileOf
<1>5. Registers(device) \in SUBSET File /\ Registers(device) # {}
  BY <1>1, FileTypes DEF Registers
<1>6. Program \notin Registers(device)
  BY DEF Registers, Program, Freq, Phase
<1>7. FileOf(device) \in Registers(device)
  BY <1>3, <1>4 DEF Registers
<1>8. \A f \in Registers(device) : Size[f] = Size[FileOf(device)]
  BY <1>3, <1>4, ProgrammingAssumption DEF Registers
<1>9. ASSUME Family = "extreg"
      PROVE  {FileOf(device)} = Registers(device) \cap {Nowhere, Program, Freq(0), Phase(0)}
  <2>1. FileOf(device) = IF device = "FREQ_REGS" THEN Freq(0) ELSE Phase(0)
    BY <1>3, <1>4, <1>9
  <2>2. Nowhere \notin Registers(device)
    BY <1>5, FileTypes
  <2>3. CASE device = "FREQ_REGS"
    <3>1. Phase(0) \notin Registers(device)
      BY <2>3 DEF Registers, Freq, Phase
    <3>. QED
      BY <1>6, <1>7, <2>1, <2>2, <2>3, <3>1
  <2>4. CASE device = "TX_PHASE_REGS"
    <3>1. Freq(0) \notin Registers(device)
      BY <2>4 DEF Registers, Freq, Phase
    <3>. QED
      BY <1>6, <1>7, <2>1, <2>2, <2>4, <3>1
  <2>. QED
    BY <2>3, <2>4
<1>. QED
  BY <1>2, <1>5, <1>6, <1>7, <1>8, <1>9 DEF NoRegisters

LEMMA SetRegisterStep ==
    ASSUME Inv, AllVoid, NEW device \in {"FREQ_REGS", "TX_PHASE_REGS"}, NEW w \in Datum,
           SetRegister(device, Registers(device), w)
    PROVE  AllAgree' /\ Effect
<1>. DEFINE files == Registers(device)
            here  == Opened \in files
            a     == cur_device_addr
<1>1. /\ UNCHANGED <<cur_board, num_instructions, kind>>
      /\ "lost" \in Voids
  BY DEF SetRegister, AllVoid
<1>2. /\ TypeInv /\ Here \in HwState /\ Sane(Here, Family)
      /\ Agree(Here, Opened, Family, num_instructions, a)
      /\ num_instructions \in Nat /\ a \in Nat /\ w \in Word /\ BPW \in 0 .. BPW
      /\ Opened \in File \cup {Nowhere}
      /\ Family \in {"oldpb", "extreg", "pcie", "usb2"}
  BY HereAgrees, FileTypes, ProgrammingAssumption DEF Word
<1>3. CASE Returns(-1) /\ UNCHANGED <<hw, open, cur_device_addr>>
  BY <1>1, <1>3, SelectStep
<1>4. CASE a < Limit(device)
  <2>1. /\ files \in SUBSET File /\ files # {} /\ Program \notin files
        /\ \A f \in files : a < Size[f]
        /\ FileOf(device) \in files
        /\ Family = "extreg" =>
              {FileOf(device)} = files \cap {Nowhere, Program, Freq(0), Phase(0)}
    BY <1>2, <1>4, LimitFacts
  <2>2. here => Opened # Program /\ Opened \in File
    BY <2>1
  <2>3. here /\ Here.mem[Opened] # Unknown =>
           Here.mem[Opened].acked = a /\ Here.mem[Opened].acked < Size[Opened]
    BY <1>2, <2>1, <2>2 DEF Agree
  <2>. HIDE DEF files
  <2>4. ASSUME NEW e \in HwState, Sane(e, Family), RegDone(e, files, w),
               here => Takes(Here, e, Opened, Family, w) /\ (e.amode => Lost(e))
        PROVE  AllAgree' /\ Effect
    <3>1. /\ InCall(Acknowledged(Known(e, here))) /\ cur_device_addr' = a + 1
          /\ Acknowledges(files, w, 0) /\ UNCHANGED open
      BY <2>4 DEF RegDone
    <3>. QED
      BY <1>1, <2>1, <2>2, <2>3, <2>4, <3>1, WordStep
  <2>5. ASSUME NEW e \in HwState, Sane(e, Family), RegFailed(e, files),
               here => Kept(Here, e) /\ (e.amode => Lost(e))
        PROVE  AllAgree' /\ Effect
    BY <1>1, <2>5, BrokenStep DEF RegFailed
  <2>6. ASSUME Family = "oldpb", NEW i \in 0 .. BPW
        PROVE  /\ Sent(Here, w, i) \in HwState /\ Sane(Sent(Here, w, i), Family)
               /\ ~Sent(Here, w, i).amode
    BY <1>2, <2>6, SentSane
  <2>7. ASSUME Family = "oldpb", here
        PROVE  /\ Takes(Here, Sent(Here, w, BPW), Opened, Family, w)
               /\ \A i \in 0 .. BPW : Kept(Here, Sent(Here, w, i))
    <3>1. ~ToAddress(Family, Opened) /\ Opened \in File
      BY <2>2, <2>7 DEF ToAddress
    <3>. QED
      BY <1>2, <2>7, <3>1, SentTakes
  <2>8. CASE Family = "oldpb" /\ RegDone(Sent(Here, w, BPW), files, w)
    BY <1>2, <2>4, <2>6, <2>7, <2>8
  <2>9. CASE Family = "oldpb" /\ \E i \in 0 .. BPW : RegFailed(Sent(Here, w, i), files)
    BY <2>5, <2>6, <2>7, <2>9
  <2>10. CASE Family = "extreg" /\ \E t \in Extended(FileOf(device), w) : RegDone(Settled(t), files, w)
    <3>1. PICK t \in Extended(FileOf(device), w) : RegDone(Settled(t), files, w)
      BY <2>10
    <3>. DEFINE f == FileOf(device)
                e == Settled(t)
    <3>2. \/ t = [h |-> Put(Here, f, a, w), lost |-> FALSE]
          \/ t = [h |-> Put(Here, f, a, Junk), lost |-> TRUE]
          \/ t = [h |-> Here, lost |-> TRUE]
      BY DEF Extended, Here
    <3>3. Junk \in Word /\ f \in File
      BY <2>1 DEF Word
    <3>4. CASE t = [h |-> Put(Here, f, a, w), lost |-> FALSE]
      <4>1. e = Put(Here, f, a, w)
        BY <3>4 DEF Settled
      <4>2. e \in HwState /\ SameRegisters(Here, e)
        BY <1>2, <4>1, PutFacts
      <4>3. Sane(e, Family) /\ ~e.amode
        BY <1>2, <2>10, <4>2 DEF SameRegisters, Sane
      <4>4. here => Takes(Here, e, Opened, Family, w)
        <5>1. here => Opened = f
          BY <1>2, <2>1, <2>10 DEF Agree
        <5>2. here => ToAddress(Family, Opened)
          BY <2>2, <2>10 DEF ToAddress
        <5>. HIDE DEF f, e
        <5>. QED
          BY <1>2, <2>2, <2>3, <2>10, <4>1, <5>1, <5>2, PutTakes
      <4>. QED
        BY <2>4, <3>1, <4>2, <4>3, <4>4
    <3>5. CASE t.lost
      <4>1. t.h \in HwState /\ SameRegisters(Here, t.h)
        BY <1>2, <3>2, <3>3, PutFacts DEF SameRegisters
      <4>2. e = Forget(t.h)
        BY <1>1, <3>5 DEF Settled
      <4>3. e \in HwState /\ SameRegisters(t.h, e) /\ Lost(e)
        BY <4>1, <4>2, ForgetFacts
      <4>4. Sane(e, Family)
        BY <1>2, <4>1, <4>3 DEF SameRegisters, Sane
      <4>5. Takes(Here, e, Opened, Family, w)
        BY <4>3 DEF Takes
      <4>. QED
        BY <2>4, <3>1, <4>3, <4>4, <4>5
    <3>. QED
      BY <3>2, <3>4, <3>5
  <2>11. CASE Family = "usb2" /\ \E t \in DataCall(Tries, w) : RegDone(Settled(t), files, w)
    <3>1. PICK t \in DataCall(Tries, w) : RegDone(Settled(t), files, w)
      BY <2>11
    <3>2. Settled(t) \in HwState /\ Sane(Settled(t), Family)
      BY <1>2, <2>11, DataSane
    <3>3. here => /\ Takes(Here, Settled(t), Opened, Family, w)
                  /\ Settled(t).amode => Lost(Settled(t))
      BY <1>1, <1>2, <2>2, <2>11, DataTakes
    <3>. QED
      BY <2>4, <3>1, <3>2, <3>3
  <2>. QED
    BY <1>3, <2>8, <2>9, <2>10, <2>11 DEF SetRegister, files
<1>. QED
  BY <1>3, <1>4 DEF SetRegister

LEMMA StopProgrammingStep ==
    ASSUME Inv, AllVoid, PbStopProgramming
    PROVE  AllAgree' /\ Effect
<1>1. /\ kind' = kind /\ NowOpen(Nowhere) /\ (Returns(0) \/ Returns(-1))
      /\ "interleaved" \in Voids /\ "lost" \in Voids
  BY DEF PbStopProgramming, Stopped, AllVoid
<1>2. /\ TypeInv /\ Here \in HwState /\ Sane(Here, Family)
      /\ Agree(Here, Opened, Family, num_instructions, cur_device_addr)
  BY HereAgrees
<1>3. Here.amode => Lost(Here)
  BY <1>2 DEF Agree
<1>4. CASE InCall(Here)
  <2>1. Kept(Here, Here)
    BY SameKept
  <2>. QED
    BY <1>1, <1>2, <1>3, <1>4, <2>1, ClosedStep
<1>5. CASE \E f \in {Here.file, Nowhere} : InCall([Here EXCEPT !.file = f])
  <2>1. PICK f \in File \cup {Nowhere} : InCall([Here EXCEPT !.file = f])
    BY <1>2, <1>5, MemberFields
  <2>. DEFINE h == [Here EXCEPT !.file = f]
  <2>2. h \in HwState /\ h.mem = Here.mem /\ h.part = Here.part /\ h.amode = Here.amode
    BY <1>2, ElsewhereFacts
  <2>. HIDE DEF h
  <2>3. Kept(Here, h) /\ Sane(h, Family) /\ (h.amode => Lost(h))
    BY <1>2, <1>3, <2>2, SameKept DEF Sane, Lost
  <2>. QED
    BY <1>1, <2>1, <2>2, <2>3, ClosedStep DEF h
<1>6. CASE Family = "usb2" /\ \E t \in AddressCall(ShapeCalls(Tries), Nowhere) : InCall(Settled(t))
  <2>1. PICK t \in AddressCall(ShapeCalls(Tries), Nowhere) : InCall(Settled(t))
    BY <1>6
  <2>2. Quiet(Here, t)
    BY <1>2, <1>6, ChainsQuiet
  <2>3. /\ Settled(t) \in HwState /\ Sane(Settled(t), Family) /\ Kept(Here, Settled(t))
        /\ Settled(t).amode => Lost(Settled(t))
    BY <1>1, <1>6, <2>2, SettledQuiet
  <2>. QED
    BY <1>1, <2>1, <2>3, ClosedStep
<1>. QED
  BY <1>4, <1>5, <1>6 DEF PbStopProgramming

\* A trigger or a reset closes the file of the selected board.
LEMMA TriggerStep ==
    ASSUME Inv, AllVoid, PbStart \/ PbStop
    PROVE  AllAgree' /\ Effect
<1>1. /\ UNCHANGED library /\ NowOpen(Nowhere) /\ (Returns(0) \/ Returns(-1))
      /\ "lost" \in Voids
  BY DEF PbStart, PbStop, AllVoid
<1>2. /\ TypeInv /\ cur_board \in Board /\ Here \in HwState /\ Sane(Here, Family) /\ Stored(Here)
      /\ Agree(Here, Opened, Family, num_instructions, cur_device_addr)
  BY HereAgrees
<1>3. Here.amode => Lost(Here)
  BY <1>2 DEF Agree
<1>4. ASSUME NEW h \in HwState, OnBoard(h), Kept(Here, h), Sane(h, Family), h.amode => Lost(h)
      PROVE  AllAgree' /\ Effect
  <2>1. Agree(h, Nowhere, Family, num_instructions, cur_device_addr)
    BY <1>2, <1>4, ClosedAgrees
  <2>2. /\ AllAgree' /\ hw'[cur_board] = h
        /\ \A b \in Board : b # cur_board => Kept(hw[b], hw'[b])
    BY <1>1, <1>4, <2>1, BoardFrame
  <2>. QED
    BY <1>1, <1>4, <2>2, QuietEffect
<1>5. CASE hw' = hw
  <2>1. OnBoard(Here)
    BY <1>2, <1>5 DEF OnBoard, Here, TypeInv
  <2>2. Kept(Here, Here)
    BY SameKept
  <2>. QED
    BY <1>2, <1>3, <1>4, <2>1, <2>2
<1>6. CASE Family = "usb2" /\ UsbFlag
  <2>1. PICK t \in DataCall(AddressCall(Tries, Nowhere), Junk) : OnBoard(Settled(t))
    BY <1>6 DEF UsbFlag
  <2>2. Quiet(Here, t)
    BY <1>2, <1>6, ChainsQuiet
  <2>3. /\ Settled(t) \in HwState /\ Sane(Settled(t), Family) /\ Kept(Here, Settled(t))
        /\ Settled(t).amode => Lost(Settled(t))
    BY <1>1, <1>6, <2>2, SettledQuiet
  <2>. QED
    BY <1>4, <2>1, <2>3
<1>7. CASE ByteWise /\ \E k \in 0 .. 4 : OnBoard(Latched(Here, Nowhere, k))
  <2>1. PICK k \in 0 .. 4 : OnBoard(Latched(Here, Nowhere, k))
    BY <1>7
  <2>. DEFINE h == Latched(Here, Nowhere, k)
  <2>2. h \in HwState
    BY <1>2, LatchedType
  <2>3. h.mem = Here.mem /\ h.amode = Here.amode
    BY <1>2, LatchedFields
  <2>. HIDE DEF h
  <2>4. Kept(Here, h) /\ Sane(h, Family) /\ ~h.amode
    BY <1>2, <1>7, <2>3, SameKept DEF Sane, ByteWise
  <2>. QED
    BY <1>4, <2>1, <2>2, <2>4 DEF h
<1>. QED
  BY <1>5, <1>6, <1>7 DEF PbStart, PbStop

LEMMA NextStep ==
    ASSUME Inv, AllVoid, Next
    PROVE  AllAgree' /\ Effect
<1>1. CASE \E b \in Board : PbSelectBoard(b)
  BY <1>1, SelectStep DEF PbSelectBoard
<1>2. CASE \E d \in -1 .. NumDds + 1 : PbSelectDds(d)
  BY <1>2, SelectStep DEF PbSelectDds
<1>3. CASE \E device \in Devices[Family] : PbStartProgramming(device)
  <2>1. Devices[Family] \subseteq Device \ {"none"}
    BY HereAgrees, FileTypes, ProgrammingAssumption
  <2>. QED
    BY <1>3, <2>1, StartProgrammingStep
<1>4. CASE \E w \in Datum : PbInstDirect(w)
  BY <1>4, InstDirectStep
<1>5. CASE PbInstRejected
  BY <1>5, SelectStep DEF PbInstRejected, library
<1>6. CASE \E w \in Datum : PbSetFreq(w)
  BY <1>6, SetRegisterStep DEF PbSetFreq, Registers
<1>7. CASE \E w \in Datum : PbSetPhase(w)
  BY <1>7, SetRegisterStep DEF PbSetPhase, Registers
<1>8. CASE PbStopProgramming
  BY <1>8, StopProgrammingStep
<1>9. CASE PbStart \/ PbStop
  BY <1>9, TriggerStep
<1>. QED
  BY <1>1, <1>2, <1>3, <1>4, <1>5, <1>6, <1>7, <1>8, <1>9 DEF Next

-----------------------------------------------------------------------------
(* The invariant and what follows from it.                                 *)

LEMMA InvInit ==
    ASSUME Init
    PROVE  Inv
<1>1. TypeInv
  BY TypeInit
<1>2. /\ Sane(Idle, "oldpb") /\ ~Idle.amode /\ Idle.part = 0 /\ Stored(Idle) /\ Lost(Idle)
  BY DEF Idle, Sane, Stored, Lost
<1>3. \A k : Sane(Idle, k)
  BY <1>2 DEF Sane
<1>4. \A k, n, a : Agree(Idle, Nowhere, k, n, a)
  BY <1>2, <1>3, ClosedAgrees, LostKept
<1>. QED
  BY <1>1, <1>4 DEF Init, Inv, AllAgree

LEMMA InvStep ==
    ASSUME Inv, AllVoid, [Next]_vars
    PROVE  Inv'
<1>1. TypeInv'
  BY TypeStep DEF Inv
<1>2. CASE Next
  BY <1>1, <1>2, NextStep DEF Inv
<1>3. CASE UNCHANGED vars
  BY <1>1, <1>3 DEF Inv, AllAgree, vars, library
<1>. QED
  BY <1>2, <1>3

LEMMA InvAlways ==
    ASSUME AllVoid
    PROVE  Spec => []Inv
<1>1. Init => Inv
  BY InvInit
<1>2. Inv /\ [Next]_vars => Inv'
  BY InvStep
<1>. QED
  BY <1>1, <1>2, PTL DEF Spec

LEMMA InvPositioned ==
    ASSUME Inv
    PROVE  Positioned
<1>. SUFFICES ASSUME NEW b \in Board, open[b] \in File, hw[b].mem[open[b]] # Unknown
              PROVE  /\ hw[b].mem[open[b]].acked
                          = IF open[b] = Program THEN num_instructions ELSE cur_device_addr
                     /\ ~ByAddress(b) =>
                           /\ hw[b].file = open[b]
                           /\ hw[b].pos = hw[b].mem[open[b]].acked
                           /\ hw[b].part = 0
                           /\ ~hw[b].amode
  BY DEF Positioned
<1>1. Agree(hw[b], open[b], kind[b], num_instructions, cur_device_addr)
  BY DEF Inv, AllAgree
<1>2. ByAddress(b) <=> ToAddress(kind[b], open[b])
  BY DEF ByAddress, ToAddress
<1>. QED
  BY <1>1, <1>2 DEF Agree

\* The board that is being programmed is where the library and its user think
\* it is, while the hazards void what they touch.
THEOREM BoardsPositioned ==
    ASSUME AllVoid
    PROVE  Spec => []Positioned
<1>1. Inv => Positioned
  BY InvPositioned
<1>. QED
  BY <1>1, InvAlways, PTL

\* What was acknowledged is in the board: the documentation's "a negative number
\* is returned on failure", but for the calls whose failure nobody looks at.
THEOREM AcknowledgedStored ==
    ASSUME AllVoid
    PROVE  Spec => []AcknowledgedIsStored
<1>1. Inv => AcknowledgedIsStored
  BY DEF Inv, AllAgree, Agree, Stored, AcknowledgedIsStored
<1>. QED
  BY <1>1, InvAlways, PTL

\* An instruction for a program that was begun is answered with the number of
\* those before it (dds.h: "the address of the programmed instruction").
THEOREM AddressIsReturned ==
    ASSUME AllVoid
    PROVE  Spec => AddressReturned
<1>. DEFINE Answered ==
       \A b \in Board :
         LET m == hw[b].mem[Program] IN
         (/\ open[b] = Program
          /\ m # Unknown
          /\ hw'[b].mem[Program] # Unknown
          /\ hw'[b].mem[Program].acked = m.acked + 1)
         => call'.answer = m.acked
<1>1. ASSUME Inv, [Next]_vars
      PROVE  [Answered]_vars
  <2>. SUFFICES ASSUME Next, NEW b \in Board,
                       hw[b].mem[Program] # Unknown, hw'[b].mem[Program] # Unknown,
                       hw'[b].mem[Program].acked = hw[b].mem[Program].acked + 1
                PROVE  call'.answer = hw[b].mem[Program].acked
    BY <1>1
  <2>1. Effect /\ TypeInv
    BY <1>1, NextStep DEF Inv
  <2>2. Program \in File /\ hw[b].mem[Program].acked \in Nat
    <3>1. Program \in File /\ Size[Program] \in Nat
      BY <2>1, FileTypes, SizeNat
    <3>2. hw[b] \in HwState
      BY <2>1 DEF TypeInv
    <3>3. hw[b].mem[Program].acked \in 0 .. Size[Program]
      BY <3>1, <3>2, KnownMemory, MemberFields
    <3>. QED
      BY <3>1, <3>3
  <2>3. ~Held(hw[b], hw'[b], Program)
    BY <2>2 DEF Held
  <2>4. b = cur_board /\ Here = hw[b]
    BY <2>1, <2>2, <2>3 DEF Effect, Kept, Here
  <2>5. ~Kept(Here, hw'[b])
    BY <2>2, <2>3, <2>4 DEF Kept
  <2>6. ASSUME NEW f \in File, Begun(Here, hw'[b], f)
        PROVE  FALSE
    <3>1. f = Program
      BY <2>2, <2>3, <2>4, <2>6 DEF Begun
    <3>2. hw'[b].mem[Program].acked = 0
      BY <2>6, <3>1, FreshBlock DEF Begun
    <3>. QED
      BY <2>2, <3>2
  <2>7. PICK f \in File, w \in Datum :
                /\ Grown(Here, hw'[b], f, w)
                /\ call'.answer = IF f = Program THEN Here.mem[f].acked ELSE 0
    BY <2>1, <2>4, <2>5, <2>6 DEF Effect
  <2>8. f = Program
    BY <2>2, <2>3, <2>4, <2>7 DEF Grown
  <2>. QED
    BY <2>4, <2>7, <2>8
<1>. QED
  BY <1>1, InvAlways, PTL DEF Spec, AddressReturned

-----------------------------------------------------------------------------
(* The refinement of ProgramStore.                                         *)

StoreContents == [s \in Board \X File |-> Contents(hw[s[1]].mem[s[2]])]

LEMMA ContentsKnown ==
    ASSUME NEW f \in File, NEW m \in Memory(f), m # Unknown
    PROVE  /\ Contents(m) \in Seq(Word)
           /\ Len(Contents(m)) = m.acked
           /\ \A i \in 1 .. m.acked : Contents(m)[i] = m.words[i - 1]
           /\ Contents(m) # Unknown
<1>1. /\ m.words \in [0 .. Size[f] - 1 -> Word] /\ m.acked \in 0 .. Size[f]
      /\ Size[f] \in Nat
  BY KnownMemory, SizeNat
<1>2. Contents(m) = [i \in 1 .. m.acked |-> m.words[i - 1]]
  BY DEF Contents
<1>3. \A i \in 1 .. m.acked : i - 1 \in 0 .. Size[f] - 1
  BY <1>1
<1>4. Contents(m) \in [1 .. m.acked -> Word]
  BY <1>1, <1>2, <1>3
<1>5. Contents(m) # Unknown
  BY <1>1, <1>4, UnknownAssumption DEF Word
<1>6. Contents(m) \in Seq(Word) /\ Len(Contents(m)) = m.acked
  BY <1>1, <1>4
<1>. QED
  BY <1>2, <1>5, <1>6

LEMMA ContentsHeld ==
    ASSUME NEW h \in HwState, NEW g \in HwState, NEW f \in File, Held(h, g, f)
    PROVE  Contents(g.mem[f]) \in {Contents(h.mem[f]), Unknown}
<1>1. CASE g.mem[f] = Unknown
  BY <1>1 DEF Contents
<1>2. CASE g.mem[f] # Unknown
  <2>1. /\ h.mem[f] # Unknown /\ g.mem[f].acked = h.mem[f].acked
        /\ \A i \in 0 .. h.mem[f].acked - 1 : g.mem[f].words[i] = h.mem[f].words[i]
    BY <1>2 DEF Held
  <2>2. h.mem[f].acked \in Nat
    BY <2>1, KnownMemory, MemberFields, SizeNat
  <2>3. \A i \in 1 .. h.mem[f].acked : g.mem[f].words[i - 1] = h.mem[f].words[i - 1]
    BY <2>1, <2>2
  <2>. QED
    BY <1>2, <2>1, <2>3 DEF Contents
<1>. QED
  BY <1>1, <1>2

LEMMA ContentsFresh ==
    ASSUME NEW f \in File
    PROVE  Contents(Fresh(f)) = << >>
<1>1. Fresh(f) \in Memory(f) /\ Fresh(f) # Unknown /\ Fresh(f).acked = 0
  BY FreshBlock, BlockKnown
<1>2. Contents(Fresh(f)) \in Seq(Word) /\ Len(Contents(Fresh(f))) = 0
  BY <1>1, ContentsKnown
<1>. QED
  BY <1>2

LEMMA ContentsGrown ==
    ASSUME NEW h \in HwState, NEW g \in HwState, NEW f \in File, NEW w \in Datum, Grown(h, g, f, w)
    PROVE  /\ Contents(h.mem[f]) # Unknown
           /\ Contents(g.mem[f]) = Append(Contents(h.mem[f]), w)
           /\ Len(Contents(h.mem[f])) = h.mem[f].acked
<1>. DEFINE c == Contents(h.mem[f])
            d == Contents(g.mem[f])
            n == h.mem[f].acked
<1>1. /\ h.mem[f] # Unknown /\ g.mem[f] # Unknown /\ g.mem[f].acked = n + 1
      /\ g.mem[f].words[n] = w
      /\ \A i \in 0 .. n - 1 : g.mem[f].words[i] = h.mem[f].words[i]
  BY DEF Grown
<1>2. /\ c \in Seq(Word) /\ Len(c) = n /\ c # Unknown
      /\ \A i \in 1 .. n : c[i] = h.mem[f].words[i - 1]
  BY <1>1, ContentsKnown, MemberFields
<1>3. /\ d \in Seq(Word) /\ Len(d) = n + 1
      /\ \A i \in 1 .. n + 1 : d[i] = g.mem[f].words[i - 1]
  BY <1>1, ContentsKnown, MemberFields
<1>4. n \in Nat
  BY <1>2
<1>. HIDE DEF c, d
<1>5. \A i \in 1 .. n : d[i] = c[i]
  <2>1. \A i \in 1 .. n : i - 1 \in 0 .. n - 1 /\ i \in 1 .. n + 1
    BY <1>4
  <2>. QED
    BY <1>1, <1>2, <1>3, <2>1
<1>6. d[n + 1] = w
  <2>1. n + 1 \in 1 .. n + 1 /\ (n + 1) - 1 = n
    BY <1>4
  <2>. QED
    BY <1>1, <1>3, <2>1
<1>7. d = Append(c, w)
  BY <1>2, <1>3, <1>4, <1>5, <1>6
<1>. QED
  BY <1>2, <1>7 DEF c, d

LEMMA ContentsOf ==
    ASSUME NEW b \in Board, NEW f \in File
    PROVE  /\ StoreContents[<<b, f>>] = Contents(hw[b].mem[f])
           /\ StoreContents'[<<b, f>>] = Contents(hw'[b].mem[f])
BY DEF StoreContents

\* A store of a board that kept its file is kept or forgotten.
LEMMA HeldStore ==
    ASSUME TypeInv, TypeInv', NEW b \in Board, NEW f \in File, Held(hw[b], hw'[b], f)
    PROVE  StoreContents'[<<b, f>>] \in {StoreContents[<<b, f>>], Unknown}
<1>1. hw[b] \in HwState /\ hw'[b] \in HwState
  BY DEF TypeInv
<1>. QED
  BY <1>1, ContentsHeld, ContentsOf

\* Every step is a step of the store.
LEMMA StoreStep ==
    ASSUME Inv, AllVoid, Next
    PROVE  Store!StoreNext
<1>1. Effect /\ TypeInv /\ TypeInv'
  BY NextStep, TypeStep DEF Inv
<1>2. cur_board \in Board /\ Here = hw[cur_board]
  BY HereAgrees DEF Here
<1>3. hw[cur_board] \in HwState /\ hw'[cur_board] \in HwState
  BY <1>1, <1>2 DEF TypeInv
<1>4. /\ DOMAIN StoreContents' = Board \X File
      /\ call' \in [to : SUBSET (Board \X File), data : Datum \cup {Unknown}, answer : Int]
  BY <1>1 DEF StoreContents, TypeInv, TypeOK
<1>5. ASSUME NEW b \in Board, b # cur_board, NEW f \in File
      PROVE  StoreContents'[<<b, f>>] \in {StoreContents[<<b, f>>], Unknown}
  BY <1>1, <1>5, HeldStore DEF Effect, Kept
<1>6. ASSUME NEW f \in File, \A e \in File : e # f => Held(Here, hw'[cur_board], e)
      PROVE  \A s \in (Board \X File) \ {<<cur_board, f>>} :
                StoreContents'[s] \in {StoreContents[s], Unknown}
  <2>. TAKE s \in (Board \X File) \ {<<cur_board, f>>}
  <2>1. PICK b \in Board, e \in File : s = <<b, e>>
    OBVIOUS
  <2>2. CASE b # cur_board
    BY <1>5, <2>1, <2>2
  <2>3. CASE b = cur_board
    <3>1. e # f
      BY <2>1, <2>3
    <3>2. Held(hw[b], hw'[b], e)
      BY <1>2, <1>6, <2>3, <3>1
    <3>. QED
      BY <1>1, <2>1, <3>2, HeldStore
  <2>. QED
    BY <2>2, <2>3
<1>7. CASE \E f \in File : Begun(Here, hw'[cur_board], f) /\ call'.answer = 0
  <2>1. PICK f \in File : Begun(Here, hw'[cur_board], f) /\ call'.answer = 0
    BY <1>7
  <2>2. StoreContents'[<<cur_board, f>>] = << >>
    BY <1>2, <2>1, ContentsOf, ContentsFresh DEF Begun
  <2>3. Store!KeepOrForget((Board \X File) \ {<<cur_board, f>>})
    BY <1>6, <2>1 DEF Begun, Store!KeepOrForget, StoreContents
  <2>4. Store!Begin(<<cur_board, f>>)
    BY <2>1, <2>2, <2>3 DEF Store!Begin, StoreContents
  <2>. QED
    BY <1>2, <1>4, <2>4 DEF Store!StoreNext, StoreContents
<1>8. CASE \E f \in File, w \in Datum :
             /\ Grown(Here, hw'[cur_board], f, w)
             /\ <<cur_board, f>> \in call'.to /\ call'.data = w
             /\ call'.answer = IF f = Program THEN Here.mem[f].acked ELSE 0
  <2>1. PICK f \in File, w \in Datum :
                /\ Grown(Here, hw'[cur_board], f, w)
                /\ <<cur_board, f>> \in call'.to /\ call'.data = w
                /\ call'.answer = IF f = Program THEN Here.mem[f].acked ELSE 0
    BY <1>8
  <2>2. /\ StoreContents[<<cur_board, f>>] # Unknown
        /\ StoreContents'[<<cur_board, f>>] = Append(StoreContents[<<cur_board, f>>], w)
        /\ Len(StoreContents[<<cur_board, f>>]) = Here.mem[f].acked
    <3>1. /\ StoreContents[<<cur_board, f>>] = Contents(hw[cur_board].mem[f])
          /\ StoreContents'[<<cur_board, f>>] = Contents(hw'[cur_board].mem[f])
      BY <1>2, ContentsOf
    <3>2. Grown(hw[cur_board], hw'[cur_board], f, w)
      BY <1>2, <2>1
    <3>3. /\ Contents(hw[cur_board].mem[f]) # Unknown
          /\ Contents(hw'[cur_board].mem[f]) = Append(Contents(hw[cur_board].mem[f]), w)
          /\ Len(Contents(hw[cur_board].mem[f])) = hw[cur_board].mem[f].acked
      BY <1>3, <3>2, ContentsGrown
    <3>. QED
      BY <1>2, <3>1, <3>3
  <2>3. Store!KeepOrForget((Board \X File) \ {<<cur_board, f>>})
    BY <1>6, <2>1 DEF Grown, Store!KeepOrForget, StoreContents
  <2>4. <<cur_board, f>> \in Board \X {Program} <=> f = Program
    BY <1>2
  <2>5. Store!Add(<<cur_board, f>>)
    BY <2>1, <2>2, <2>3, <2>4 DEF Store!Add, StoreContents
  <2>. QED
    BY <1>2, <1>4, <2>5 DEF Store!StoreNext, StoreContents
<1>9. CASE /\ Kept(Here, hw'[cur_board])
           /\ (call'.data \in Datum \/ call'.answer > 0) =>
                 \E f \in File : <<cur_board, f>> \in call'.to /\ hw'[cur_board].mem[f] = Unknown
  <2>1. \A s \in Board \X File : StoreContents'[s] \in {StoreContents[s], Unknown}
    <3>. TAKE s \in Board \X File
    <3>1. PICK b \in Board, e \in File : s = <<b, e>>
      OBVIOUS
    <3>2. Held(hw[b], hw'[b], e)
      BY <1>1, <1>2, <1>9 DEF Effect, Kept
    <3>. QED
      BY <1>1, <3>1, <3>2, HeldStore
  <2>2. Store!KeepOrForget(Board \X File)
    BY <2>1 DEF Store!KeepOrForget, StoreContents
  <2>3. (call'.data \in Datum \/ call'.answer > 0) =>
           \E s \in call'.to : StoreContents'[s] = Unknown
    <3>1. ASSUME NEW f \in File, hw'[cur_board].mem[f] = Unknown
          PROVE  StoreContents'[<<cur_board, f>>] = Unknown
      BY <1>2, <3>1, ContentsOf DEF Contents
    <3>. QED
      BY <1>9, <3>1
  <2>4. Store!Other
    BY <2>2, <2>3 DEF Store!Other, StoreContents
  <2>. QED
    BY <1>4, <2>4 DEF Store!StoreNext, StoreContents
<1>. QED
  BY <1>1, <1>7, <1>8, <1>9 DEF Effect

LEMMA StoreInitially ==
    ASSUME Init
    PROVE  Store!StoreInit
<1>1. ASSUME NEW s \in Board \X File
      PROVE  Contents(hw[s[1]].mem[s[2]]) = Unknown
  BY DEF Init, Idle, Contents
<1>. QED
  BY <1>1 DEF Init, Store!StoreInit

\* Programming implements ProgramStore: what was acknowledged since a file was
\* begun is in the board in order, and an instruction's answer is its address.
THEOREM ProgrammingImplementsStore ==
    ASSUME AllVoid
    PROVE  Spec => Implements
<1>1. Init => Store!StoreInit
  BY StoreInitially
<1>2. Inv /\ [Next]_vars => [Store!StoreNext]_(Store!storeVars)
  <2>1. UNCHANGED vars => UNCHANGED Store!storeVars
    BY DEF vars, Store!storeVars
  <2>. QED
    BY <2>1, StoreStep
<1>. QED
  BY <1>1, <1>2, InvAlways, PTL DEF Spec, Implements, Store!StoreSpec

=============================================================================

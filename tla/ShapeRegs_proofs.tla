---------------------------- MODULE ShapeRegs_proofs ----------------------------
(***************************************************************************)
(* The shape registers for any number of boards, lengths, clocks and       *)
(* registers.  Three invariants, each resting on the one before: how the   *)
(* lists and what the registers hold belong together (ListInv), that the   *)
(* programs being entered select what the lists say (SelectInv), and that  *)
(* it is in the registers or on its way there (FitInv).  Each theorem      *)
(* names the hazards that have to excuse a program for it to hold.         *)
(***************************************************************************)
EXTENDS ShapeRegs, FiniteSetTheorems, TLAPS

DdsBoard == {"dds2", "dds1"}
Rate == [length : Length \cup {0}, clock : Clock \cup {0}, mult : {0, 2, 4}]
Rates == [Dds -> [0 .. NumShape - 1 -> Rate]]
Entry == [board : Board, kind : Kind, lost : BOOLEAN, word : Rate, used : BOOLEAN]
Selection == [dds : Dds, register : 0 .. NumShape - 1, word : Rate]

\* The registers in the middle of an instruction (Now, Take).
AtWork ==
    [list : [Dds -> Seq(Length)], made : [Dds -> Seq(Entry)], array : Rates, regs : Rates,
     full : BOOLEAN, select : SUBSET Selection, stale : SUBSET {"switched", "clock", "lost"}]

Boards == kind \in [Board -> Kind] /\ clock \in [Board -> Clock] /\ cur_board \in Board

Types ==
    /\ Boards
    /\ shape_list \in [Dds -> Seq(Length)] /\ made \in [Dds -> Seq(Entry)]
    /\ shape_period_array \in Rates /\ regs \in [Board -> Rates]
    /\ open \in [Board -> BOOLEAN] /\ excused \in [Board -> BOOLEAN]
    /\ program \in [Board -> SUBSET Selection]

-----------------------------------------------------------------------------
(* The inductive invariants.                                               *)

\* A list names no length twice, fits into the registers, and there is an
\* entry of made for each of its lengths.
Listed(list, how) ==
    \A d \in Dds :
        /\ Len(list[d]) <= NumShape /\ Len(how[d]) = Len(list[d])
        /\ \A i, j \in 1 .. Len(list[d]) : list[d][i] = list[d][j] => i = j

\* What a register was made with is where its kind of board keeps it.
Filed(how, array, registers) ==
    \A d \in Dds : \A i \in 1 .. Len(how[d]) :
        LET e == how[d][i]
        IN  /\ e.kind = kind[e.board] /\ e.word.mult = Mult[e.kind]
            /\ e.kind \in DdsBoard => array[d][i - 1] = e.word
            /\ e.kind = "reg" /\ ~e.lost => registers[e.board][d][i - 1] = e.word

\* The length in a list is the length of the entry's word.
Spelled(list, how) ==
    \A d \in Dds : \A i \in 1 .. Len(list[d]) : how[d][i].word.length = list[d][i]

ListInv ==
    /\ Types
    /\ Listed(shape_list, made) /\ Spelled(shape_list, made)
    /\ Filed(made, shape_period_array, regs)
    /\ full => \E d \in Dds : Len(shape_list[d]) >= NumOf(cur_board)

\* A selection is of a register that the list has for its length.
Selects(list, t) ==
    t.register < Len(list[t.dds]) /\ list[t.dds][t.register + 1] = t.word.length

Distinct(p) ==
    \A s, t \in p : s.dds = t.dds => (s.register = t.register <=> s.word.length = t.word.length)

SelectInv ==
    \A b \in Board :
        /\ Distinct(program[b])
        /\ open[b] => \A t \in program[b] : Selects(shape_list, t)
        /\ excused[b] => program[b] = {}

\* What a program selects is in its board's registers, or will be when a DDS
\* board's program is finished.
FitInv ==
    \A b \in Board : \A t \in program[b] :
        /\ kind[b] # "rpg" /\ (kind[b] = "dds1" => t.dds = 0)
        /\ kind[b] = "reg" \/ ~open[b] => regs[b][t.dds][t.register] = t.word
        /\ kind[b] \in DdsBoard /\ open[b] => shape_period_array[t.dds][t.register] = t.word

-----------------------------------------------------------------------------
(* What an instruction to the registers.                            *)

\* Selecting the register i of the DDS d.
Chosen(d, i, length) == [dds |-> d, register |-> i - 1, word |-> Word(cur_board, length)]

WithFields(g) ==
    g = [list |-> g.list, made |-> g.made, array |-> g.array, regs |-> g.regs,
         full |-> g.full, select |-> g.select, stale |-> g.stale]

\* The length has a register.
Again(h, g, d, length) ==
    /\ g.list = h.list /\ g.made = h.made /\ g.array = h.array /\ g.regs = h.regs
    /\ g.full = h.full /\ WithFields(g)
    /\ \E i \in 1 .. Len(h.list[d]) :
        /\ h.list[d][i] = length
        /\ g.select = h.select \cup {Chosen(d, i, length)}
        /\ g.stale = h.stale \cup Stale(h.made[d][i])

NewEntry(length, lost) ==
    [board |-> cur_board, kind |-> Cur, lost |-> lost, word |-> Word(cur_board, length),
     used |-> FALSE]

\* It gets the next one.
Anew(h, g, d, length, lost) ==
    LET n == Len(h.list[d])
    IN  /\ n < NumOf(cur_board) /\ \A i \in 1 .. n : h.list[d][i] # length
        /\ g.list = [h.list EXCEPT ![d] = Append(@, length)]
        /\ g.made = [h.made EXCEPT ![d] = Append(@, NewEntry(length, lost))]
        /\ g.array = IF OnDds THEN [h.array EXCEPT ![d][n] = Word(cur_board, length)] ELSE h.array
        /\ g.regs = IF Cur = "reg" /\ ~lost THEN [h.regs EXCEPT ![d][n] = Word(cur_board, length)]
                    ELSE h.regs
        /\ g.full = h.full /\ WithFields(g)
        /\ g.select = h.select \cup {Chosen(d, n + 1, length)}
        /\ g.stale = IF lost THEN h.stale \cup {"lost"} ELSE h.stale

\* There is none left.
NoneLeft(h, g, d) ==
    /\ g = [h EXCEPT !.full = TRUE]
    /\ Len(h.list[d]) >= NumOf(cur_board)

LEMMA NumOfBound ==
    ASSUME NEW b \in Board, Types
    PROVE  NumOf(b) \in Nat /\ NumOf(b) <= NumShape
BY ShapeAssumption DEF NumOf, Types, Boards

LEMMA WordType ==
    ASSUME Boards, NEW length \in Length
    PROVE  /\ Word(cur_board, length) \in Rate
           /\ Word(cur_board, length).length = length
           /\ Word(cur_board, length).clock = clock[cur_board]
           /\ Word(cur_board, length).mult = Mult[Cur]
<1>1. Mult[Cur] \in {0, 2, 4}
  BY DEF Boards, Cur, Kind, Mult
<1>. QED
  BY <1>1 DEF Boards, Word, Rate, Cur

\* An instruction finds, takes or is refused a register.
LEMMA TakeCases ==
    ASSUME Types, NEW h \in AtWork, Listed(h.list, h.made), NEW d \in Dds, NEW length \in Length,
           NEW lost \in BOOLEAN, NEW g, g = Take(h, d, length, lost)
    PROVE  Again(h, g, d, length) \/ Anew(h, g, d, length, lost) \/ NoneLeft(h, g, d)
<1>. DEFINE found == Positions(h.list[d], length)
            n == Len(h.list[d])
<1>1. n \in Nat /\ h.list[d] \in Seq(Length) /\ DOMAIN h.made[d] = 1 .. Len(h.made[d])
  BY DEF AtWork
<1>2. CASE found = {}
  <2>1. g = TakeAnew(h, d, length, lost)
    BY <1>2 DEF Take
  <2>2. \A i \in 1 .. n : h.list[d][i] # length
    BY <1>2 DEF Positions
  <2>3. CASE n < NumOf(cur_board)
    <3>. DEFINE s == SetShapePeriod(h, d, n, length, lost)
                w == Word(cur_board, length)
                array == IF OnDds THEN [h.array EXCEPT ![d][n] = w] ELSE h.array
                registers == IF Cur = "reg" /\ ~lost THEN [h.regs EXCEPT ![d][n] = w] ELSE h.regs
    <3>1. s = [list |-> h.list, made |-> h.made, array |-> array, regs |-> registers,
               full |-> h.full, select |-> h.select, stale |-> h.stale]
      BY DEF SetShapePeriod, AtWork, OnDds
    <3>2. g = [s EXCEPT !.list[d] = Append(@, length), !.made[d] = Append(@, NewEntry(length, lost)),
                        !.select = @ \cup {[dds |-> d, register |-> n, word |-> w]},
                        !.stale = IF lost THEN @ \cup {"lost"} ELSE @]
      BY <2>1, <2>3 DEF TakeAnew, NewEntry
    <3>. HIDE DEF s, array, registers, w
    <3>3. /\ g.list = [h.list EXCEPT ![d] = Append(@, length)]
          /\ g.made = [h.made EXCEPT ![d] = Append(@, NewEntry(length, lost))]
          /\ g.array = array /\ g.regs = registers /\ g.full = h.full /\ WithFields(g)
          /\ g.select = h.select \cup {[dds |-> d, register |-> n, word |-> w]}
          /\ g.stale = IF lost THEN h.stale \cup {"lost"} ELSE h.stale
      BY <3>1, <3>2 DEF WithFields
    <3>4. Chosen(d, n + 1, length) = [dds |-> d, register |-> n, word |-> w]
      BY <1>1 DEF Chosen, w
    <3>. QED
      BY <2>2, <2>3, <3>3, <3>4 DEF Anew, array, registers, w
  <2>4. CASE ~(n < NumOf(cur_board))
    <3>1. g = [h EXCEPT !.full = TRUE]
      BY <2>1, <2>4 DEF TakeAnew
    <3>2. NumOf(cur_board) \in Nat
      BY NumOfBound DEF Types, Boards
    <3>. QED
      BY <1>1, <2>4, <3>1, <3>2 DEF NoneLeft
  <2>. QED
    BY <2>3, <2>4
<1>3. CASE found # {}
  <2>1. PICK i \in 1 .. n : h.list[d][i] = length
    BY <1>1, <1>3 DEF Positions
  <2>2. found = {i}
    BY <1>1, <2>1 DEF Positions, Listed
  <2>3. (CHOOSE j \in found : \A k \in found : j <= k) = i
    BY <1>1, <2>1, <2>2
  <2>4. g = [h EXCEPT !.select = @ \cup {Chosen(d, i, length)},
                      !.stale = @ \cup Stale(h.made[d][i])]
    BY <1>3, <2>3 DEF Take, Chosen
  <2>5. /\ g.list = h.list /\ g.made = h.made /\ g.array = h.array /\ g.regs = h.regs
        /\ g.full = h.full /\ WithFields(g)
        /\ g.select = h.select \cup {Chosen(d, i, length)}
        /\ g.stale = h.stale \cup Stale(h.made[d][i])
    BY <2>4 DEF AtWork, WithFields
  <2>. QED
    BY <2>1, <2>5 DEF Again
<1>. QED
  BY <1>2, <1>3

\* Registers at work that are as ListInv has them between calls.
Sound(h) ==
    /\ h \in AtWork
    /\ Listed(h.list, h.made) /\ Spelled(h.list, h.made)
    /\ Filed(h.made, h.array, [regs EXCEPT ![cur_board] = h.regs])
    /\ h.full => \E d \in Dds : Len(h.list[d]) >= NumOf(cur_board)

LEMMA AgainSound ==
    ASSUME Types, NEW h, Sound(h), NEW d \in Dds, NEW length \in Length, NEW g,
           Again(h, g, d, length)
    PROVE  Sound(g)
<1>1. PICK i \in 1 .. Len(h.list[d]) :
            /\ h.list[d][i] = length
            /\ g.select = h.select \cup {Chosen(d, i, length)}
            /\ g.stale = h.stale \cup Stale(h.made[d][i])
  BY DEF Again
<1>2. h \in AtWork /\ h.list[d] \in Seq(Length) /\ Len(h.list[d]) <= NumShape
  BY DEF Sound, Listed, AtWork
<1>3. Chosen(d, i, length) \in Selection
  <2>1. i - 1 \in 0 .. NumShape - 1
    BY <1>1, <1>2, ShapeAssumption
  <2>. QED
    BY <2>1, WordType DEF Types, Chosen, Selection
<1>4. Stale(h.made[d][i]) \subseteq {"switched", "clock", "lost"}
  BY DEF Stale
<1>5. g \in AtWork
  BY <1>1, <1>2, <1>3, <1>4 DEF Again, WithFields, AtWork
<1>. QED
  BY <1>5 DEF Again, Sound

\* There is room for one more.
LEMMA AnewRoom ==
    ASSUME Types, NEW h \in AtWork, NEW d \in Dds, NEW length, NEW lost, NEW g,
           Anew(h, g, d, length, lost)
    PROVE  Len(h.list[d]) \in 0 .. NumShape - 1
<1>1. Len(h.list[d]) \in Nat
  BY DEF AtWork
<1>2. Len(h.list[d]) < NumOf(cur_board)
  BY DEF Anew
<1>3. NumOf(cur_board) \in Nat /\ NumOf(cur_board) <= NumShape
  BY NumOfBound DEF Types, Boards
<1>. QED
  BY <1>1, <1>2, <1>3, ShapeAssumption

LEMMA AnewType ==
    ASSUME Types, NEW h \in AtWork, NEW d \in Dds, NEW length \in Length, NEW lost \in BOOLEAN,
           NEW g, Anew(h, g, d, length, lost)
    PROVE  g \in AtWork
<1>. DEFINE n == Len(h.list[d])
            w == Word(cur_board, length)
<1>1. n \in 0 .. NumShape - 1 /\ (n + 1) - 1 = n
  BY AnewRoom, ShapeAssumption
<1>2. w \in Rate /\ Cur \in Kind /\ cur_board \in Board
  BY WordType DEF Types, Boards, Cur
<1>3. Chosen(d, n + 1, length) \in Selection
  BY <1>1, <1>2 DEF Chosen, Selection
<1>4. NewEntry(length, lost) \in Entry
  BY <1>2 DEF NewEntry, Entry
<1>. HIDE DEF w
<1>5. g.list \in [Dds -> Seq(Length)]
  BY DEF Anew, AtWork
<1>6. g.made \in [Dds -> Seq(Entry)]
  BY <1>4 DEF Anew, AtWork
<1>7. g.array \in Rates /\ g.regs \in Rates
  BY <1>1, <1>2 DEF Anew, AtWork, Rates, w
<1>8. g.full \in BOOLEAN /\ g.stale \in SUBSET {"switched", "clock", "lost"}
  BY DEF Anew, AtWork
<1>9. g.select \in SUBSET Selection
  BY <1>3 DEF Anew, AtWork
<1>. QED
  BY <1>5, <1>6, <1>7, <1>8, <1>9 DEF Anew, WithFields, AtWork

\* The new entry comes last, and the others stay.
LEMMA AnewEntries ==
    ASSUME Types, NEW h \in AtWork, Listed(h.list, h.made), NEW d \in Dds, NEW length \in Length,
           NEW lost \in BOOLEAN, NEW g, Anew(h, g, d, length, lost), NEW e \in Dds
    PROVE  /\ e # d => g.list[e] = h.list[e] /\ g.made[e] = h.made[e]
           /\ e = d => /\ Len(g.list[e]) = Len(h.list[e]) + 1
                       /\ Len(g.made[e]) = Len(h.list[e]) + 1
                       /\ g.list[e][Len(h.list[e]) + 1] = length
                       /\ g.made[e][Len(h.list[e]) + 1] = NewEntry(length, lost)
           /\ \A i \in 1 .. Len(h.list[e]) :
                 g.list[e][i] = h.list[e][i] /\ g.made[e][i] = h.made[e][i]
<1>1. h.list[e] \in Seq(Length) /\ h.made[e] \in Seq(Entry) /\ Len(h.made[e]) = Len(h.list[e])
  BY DEF AtWork, Listed
<1>2. CASE e # d
  BY <1>2 DEF Anew, AtWork
<1>3. CASE e = d
  <2>1. g.list[e] = Append(h.list[e], length) /\ g.made[e] = Append(h.made[e], NewEntry(length, lost))
    BY <1>3 DEF Anew, AtWork
  <2>. QED
    BY <1>1, <1>3, <2>1
<1>. QED
  BY <1>2, <1>3

LEMMA AnewSound ==
    ASSUME Types, NEW h, Sound(h), NEW d \in Dds, NEW length \in Length, NEW lost \in BOOLEAN,
           NEW g, Anew(h, g, d, length, lost)
    PROVE  Sound(g)
<1>. DEFINE n == Len(h.list[d])
            w == Word(cur_board, length)
            before == [regs EXCEPT ![cur_board] = h.regs]
            after == [regs EXCEPT ![cur_board] = g.regs]
<1>1. h \in AtWork /\ g \in AtWork /\ Listed(h.list, h.made)
  BY AnewType DEF Sound
<1>2. n \in 0 .. NumShape - 1 /\ \A e \in Dds : Len(h.list[e]) \in Nat
  <2>1. \A e \in Dds : Len(h.list[e]) \in Nat
    BY <1>1 DEF AtWork
  <2>. QED
    BY <1>1, <2>1, AnewRoom
<1>3. Listed(g.list, g.made)
  <2>. SUFFICES ASSUME NEW e \in Dds
                PROVE  /\ Len(g.list[e]) <= NumShape /\ Len(g.made[e]) = Len(g.list[e])
                       /\ \A i, j \in 1 .. Len(g.list[e]) : g.list[e][i] = g.list[e][j] => i = j
    BY DEF Listed
  <2>1. CASE e # d
    BY <1>1, <2>1, AnewEntries DEF Listed
  <2>2. CASE e = d
    <3>1. /\ Len(g.list[e]) = n + 1 /\ Len(g.made[e]) = n + 1
          /\ g.list[e][n + 1] = length
          /\ \A i \in 1 .. n : g.list[e][i] = h.list[e][i]
      BY <1>1, <2>2, AnewEntries
    <3>2. /\ \A i, j \in 1 .. n : h.list[e][i] = h.list[e][j] => i = j
          /\ \A i \in 1 .. n : h.list[e][i] # length
      BY <1>1, <2>2 DEF Listed, Anew
    <3>3. Len(g.list[e]) <= NumShape
      BY <1>2, <3>1, ShapeAssumption
    <3>4. ASSUME NEW i \in 1 .. n + 1, NEW j \in 1 .. n + 1, g.list[e][i] = g.list[e][j]
          PROVE  i = j
      <4>1. CASE i \in 1 .. n /\ j \in 1 .. n
        BY <3>1, <3>2, <3>4, <4>1
      <4>2. CASE i = n + 1 /\ j \in 1 .. n
        BY <3>1, <3>2, <3>4, <4>2
      <4>3. CASE i \in 1 .. n /\ j = n + 1
        BY <3>1, <3>2, <3>4, <4>3
      <4>. QED
        BY <1>2, <4>1, <4>2, <4>3
    <3>. QED
      BY <3>1, <3>3, <3>4
  <2>. QED
    BY <2>1, <2>2
<1>4. Spelled(g.list, g.made)
  <2>. SUFFICES ASSUME NEW e \in Dds, NEW i \in 1 .. Len(g.list[e])
                PROVE  g.made[e][i].word.length = g.list[e][i]
    BY DEF Spelled
  <2>1. NewEntry(length, lost).word.length = length
    BY WordType DEF NewEntry, Types
  <2>2. i \in 1 .. Len(h.list[e]) \/ (e = d /\ i = n + 1)
    BY <1>1, <1>2, AnewEntries
  <2>3. CASE i \in 1 .. Len(h.list[e])
    BY <1>1, <2>3, AnewEntries DEF Sound, Spelled
  <2>. QED
    BY <1>1, <2>1, <2>2, <2>3, AnewEntries
<1>5. Filed(g.made, g.array, after)
  <2>. SUFFICES ASSUME NEW e \in Dds, NEW i \in 1 .. Len(g.made[e]), NEW x, x = g.made[e][i]
                PROVE  /\ x.kind = kind[x.board] /\ x.word.mult = Mult[x.kind]
                       /\ x.kind \in DdsBoard => g.array[e][i - 1] = x.word
                       /\ x.kind = "reg" /\ ~x.lost => after[x.board][e][i - 1] = x.word
    BY DEF Filed
  <2>1. i \in 1 .. Len(h.list[e]) \/ (e = d /\ i = n + 1)
    BY <1>1, <1>2, AnewEntries DEF Listed
  <2>2. CASE i \in 1 .. Len(h.list[e])
    <3>1. x = h.made[e][i] /\ i \in 1 .. Len(h.made[e]) /\ x \in Entry
      <4>1. x = h.made[e][i]
        BY <1>1, <2>2, AnewEntries
      <4>2. i \in 1 .. Len(h.made[e]) /\ h.made[e] \in Seq(Entry)
        BY <1>1, <2>2 DEF Listed, AtWork
      <4>. QED
        BY <4>1, <4>2
    <3>2. /\ x.kind = kind[x.board] /\ x.word.mult = Mult[x.kind]
          /\ x.kind \in DdsBoard => h.array[e][i - 1] = x.word
          /\ x.kind = "reg" /\ ~x.lost => before[x.board][e][i - 1] = x.word
      BY <3>1 DEF Sound, Filed
    <3>3. i - 1 \in 0 .. NumShape - 1 /\ (e = d => i - 1 # n)
      <4>1. i \in Int /\ 1 <= i /\ i <= Len(h.list[e]) /\ Len(h.list[e]) <= NumShape
        BY <1>1, <2>2 DEF Listed
      <4>. QED
        BY <1>2, <4>1, ShapeAssumption
    <3>4. g.array[e][i - 1] = h.array[e][i - 1] /\ g.regs[e][i - 1] = h.regs[e][i - 1]
      BY <1>1, <1>2, <3>3 DEF Anew, AtWork, Rates
    <3>5. after[x.board][e][i - 1] = before[x.board][e][i - 1]
      BY <3>1, <3>4 DEF Types, Boards, Entry
    <3>. QED
      BY <3>2, <3>4, <3>5
  <2>3. CASE e = d /\ i = n + 1
    <3>1. x = NewEntry(length, lost)
      BY <1>1, <2>3, AnewEntries
    <3>2. /\ x.kind = kind[x.board] /\ x.word.mult = Mult[x.kind] /\ x.word = w
          /\ x.kind = Cur /\ x.board = cur_board /\ x.lost = lost
      BY <3>1, WordType DEF NewEntry, Types, Cur
    <3>3. i - 1 = n
      BY <1>2, <2>3
    <3>4. Cur \in DdsBoard => g.array[d][n] = w
      <4>1. Cur \in DdsBoard => g.array = [h.array EXCEPT ![d][n] = w]
        BY DEF Anew, OnDds, DdsBoard
      <4>2. h.array \in Rates
        BY <1>1 DEF AtWork
      <4>. QED
        BY <1>2, <4>1, <4>2 DEF Rates
    <3>5. Cur = "reg" /\ ~lost => g.regs[d][n] = w
      <4>1. Cur = "reg" /\ ~lost => g.regs = [h.regs EXCEPT ![d][n] = w]
        BY DEF Anew
      <4>2. h.regs \in Rates
        BY <1>1 DEF AtWork
      <4>. QED
        BY <1>2, <4>1, <4>2 DEF Rates
    <3>6. after[cur_board] = g.regs
      BY DEF Types, Boards
    <3>. QED
      BY <2>3, <3>2, <3>3, <3>4, <3>5, <3>6
  <2>. QED
    BY <2>1, <2>2, <2>3
<1>6. g.full => \E e \in Dds : Len(g.list[e]) >= NumOf(cur_board)
  <2>1. ASSUME NEW e \in Dds
        PROVE  Len(g.list[e]) >= Len(h.list[e])
    BY <1>1, <1>2, AnewEntries
  <2>2. g.full = h.full
    BY DEF Anew
  <2>3. NumOf(cur_board) \in Nat
    BY NumOfBound DEF Types, Boards
  <2>4. \A e \in Dds : Len(g.list[e]) \in Nat
    BY <1>1 DEF AtWork
  <2>. QED
    BY <1>2, <2>1, <2>2, <2>3, <2>4 DEF Sound
<1>. QED
  BY <1>1, <1>3, <1>4, <1>5, <1>6 DEF Sound

\* An instruction keeps the lists and the registers together.
LEMMA TakeSound ==
    ASSUME Types, NEW h, Sound(h), NEW d \in Dds, NEW length \in Length, NEW lost \in BOOLEAN,
           NEW g, g = Take(h, d, length, lost)
    PROVE  Sound(g)
<1>1. h \in AtWork /\ Listed(h.list, h.made)
  BY DEF Sound
<1>2. Again(h, g, d, length) \/ Anew(h, g, d, length, lost) \/ NoneLeft(h, g, d)
  BY <1>1, TakeCases
<1>3. ASSUME NoneLeft(h, g, d)
      PROVE  Sound(g)
  <2>1. /\ g \in AtWork /\ g.list = h.list /\ g.made = h.made /\ g.array = h.array
        /\ g.regs = h.regs
    BY <1>1, <1>3 DEF NoneLeft, AtWork
  <2>. QED
    BY <1>3, <2>1 DEF Sound, NoneLeft
<1>. QED
  BY <1>2, <1>3, AgainSound, AnewSound

-----------------------------------------------------------------------------
(* The lists and the registers.                                            *)

\* Between calls nothing is selected yet.
LEMMA NowSound ==
    ASSUME ListInv
    PROVE  Sound(Now)
<1>1. Now \in AtWork
  BY DEF ListInv, Types, Boards, Now, AtWork
<1>2. [regs EXCEPT ![cur_board] = regs[cur_board]] = regs
  BY DEF ListInv, Types, Boards, Rates
<1>. QED
  BY <1>1, <1>2 DEF ListInv, Sound, Now

\* Noting that an entry was of use changes nothing else of it.
LEMMA UsedFields ==
    ASSUME NEW h \in AtWork, NEW u, u = Used(h)
    PROVE  /\ u \in [Dds -> Seq(Entry)]
           /\ \A d \in Dds :
                 /\ Len(u[d]) = Len(h.made[d])
                 /\ \A i \in 1 .. Len(h.made[d]) :
                       /\ u[d][i].board = h.made[d][i].board /\ u[d][i].kind = h.made[d][i].kind
                       /\ u[d][i].lost = h.made[d][i].lost /\ u[d][i].word = h.made[d][i].word
<1>. DEFINE mark(d, i) == \E t \in h.select : t.dds = d /\ t.register = i - 1
<1>1. ASSUME NEW d \in Dds
      PROVE  /\ u[d] \in Seq(Entry) /\ Len(u[d]) = Len(h.made[d])
             /\ \A i \in 1 .. Len(h.made[d]) :
                   /\ u[d][i].board = h.made[d][i].board /\ u[d][i].kind = h.made[d][i].kind
                   /\ u[d][i].lost = h.made[d][i].lost /\ u[d][i].word = h.made[d][i].word
  <2>. DEFINE m == h.made[d]
              n == Len(m)
  <2>1. m \in Seq(Entry) /\ DOMAIN m = 1 .. n /\ n \in Nat
    BY DEF AtWork
  <2>2. u[d] = [i \in 1 .. n |-> [m[i] EXCEPT !.used = @ \/ mark(d, i)]]
    BY <2>1 DEF Used
  <2>3. ASSUME NEW i \in 1 .. n
        PROVE  LET x == [m[i] EXCEPT !.used = @ \/ mark(d, i)]
               IN  /\ x \in Entry
                   /\ x.board = m[i].board /\ x.kind = m[i].kind
                   /\ x.lost = m[i].lost /\ x.word = m[i].word
    <3>1. m[i] \in Entry
      BY <2>1
    <3>2. (m[i].used \/ mark(d, i)) \in BOOLEAN
      OBVIOUS
    <3>. HIDE DEF mark, m
    <3>. QED
      BY <3>1, <3>2 DEF Entry
  <2>. HIDE DEF m, mark
  <2>4. u[d] \in Seq(Entry) /\ Len(u[d]) = n
    BY <2>1, <2>2, <2>3
  <2>. QED
    BY <2>1, <2>2, <2>3, <2>4 DEF m
<1>2. DOMAIN u = Dds /\ u = [d \in Dds |-> u[d]]
  BY DEF Used
<1>. QED
  BY <1>1, <1>2

LEMMA GoesTypes ==
    ASSUME Types, NEW hazards, NEW select \in SUBSET Selection, Goes(hazards, select)
    PROVE  excused' \in [Board -> BOOLEAN] /\ program' \in [Board -> SUBSET Selection]
<1>1. excused' \in [Board -> BOOLEAN]
  BY DEF Goes
<1>. QED
  BY <1>1 DEF Goes, Types

LEMMA ApplyList ==
    ASSUME ListInv, NEW h, Sound(h), NEW refused \in BOOLEAN, Apply(h, refused)
    PROVE  ListInv'
<1>1. h \in AtWork /\ UNCHANGED <<kind, clock, cur_board, open>>
  BY DEF Sound, Apply, globals
<1>2. /\ shape_list' = h.list /\ shape_period_array' = h.array
      /\ regs' = [regs EXCEPT ![cur_board] = h.regs] /\ full' = h.full
      /\ made' = h.made \/ made' = Used(h)
  BY DEF Apply
<1>3. /\ made' \in [Dds -> Seq(Entry)]
      /\ \A d \in Dds :
            /\ Len(made'[d]) = Len(h.made[d])
            /\ \A i \in 1 .. Len(h.made[d]) :
                  /\ made'[d][i].board = h.made[d][i].board
                  /\ made'[d][i].kind = h.made[d][i].kind
                  /\ made'[d][i].lost = h.made[d][i].lost
                  /\ made'[d][i].word = h.made[d][i].word
  <2>1. CASE made' = h.made
    BY <1>1, <2>1 DEF AtWork
  <2>2. CASE made' = Used(h)
    BY <1>1, <2>2, UsedFields
  <2>. QED
    BY <1>2, <2>1, <2>2
<1>4. excused' \in [Board -> BOOLEAN] /\ program' \in [Board -> SUBSET Selection]
  <2>1. CASE h.full \/ refused
    BY <2>1 DEF Apply, ListInv, Types
  <2>2. CASE ~(h.full \/ refused)
    <3>1. Goes([b \in {cur_board} |-> h.stale], h.select) /\ h.select \in SUBSET Selection
      BY <1>1, <2>2 DEF Apply, AtWork
    <3>. QED
      BY <3>1, GoesTypes DEF ListInv
  <2>. QED
    BY <2>1, <2>2
<1>5. Types'
  <2>1. regs' \in [Board -> Rates]
    BY <1>1, <1>2 DEF ListInv, Types, AtWork
  <2>. QED
    BY <1>1, <1>2, <1>3, <1>4, <2>1 DEF ListInv, Types, Boards, AtWork
<1>6. Listed(h.list, h.made) /\ Spelled(h.list, h.made)
  BY DEF Sound
<1>7. Listed(shape_list', made')
  BY <1>2, <1>3, <1>6 DEF Listed
<1>8. Spelled(shape_list', made')
  <2>. SUFFICES ASSUME NEW d \in Dds, NEW i \in 1 .. Len(h.list[d])
                PROVE  made'[d][i].word.length = h.list[d][i]
    BY <1>2 DEF Spelled
  <2>1. i \in 1 .. Len(h.made[d])
    BY <1>6 DEF Listed
  <2>. QED
    BY <1>3, <1>6, <2>1 DEF Spelled
<1>9. Filed(made, shape_period_array, regs)'
  <2>. SUFFICES ASSUME NEW d \in Dds, NEW i \in 1 .. Len(h.made[d]), NEW e, e = made'[d][i],
                       NEW x, x = h.made[d][i]
                PROVE  /\ e.kind = kind[e.board] /\ e.word.mult = Mult[e.kind]
                       /\ e.kind \in DdsBoard => h.array[d][i - 1] = e.word
                       /\ e.kind = "reg" /\ ~e.lost => regs'[e.board][d][i - 1] = e.word
    BY <1>1, <1>2, <1>3 DEF Filed
  <2>1. /\ x.kind = kind[x.board] /\ x.word.mult = Mult[x.kind]
        /\ x.kind \in DdsBoard => h.array[d][i - 1] = x.word
        /\ x.kind = "reg" /\ ~x.lost => regs'[x.board][d][i - 1] = x.word
    BY <1>2 DEF Sound, Filed
  <2>2. e.board = x.board /\ e.kind = x.kind /\ e.lost = x.lost /\ e.word = x.word
    BY <1>3
  <2>. QED
    BY <2>1, <2>2
<1>10. full' => \E d \in Dds : Len(shape_list'[d]) >= NumOf(cur_board)'
  BY <1>1, <1>2 DEF Sound, NumOf
<1>. QED
  BY <1>5, <1>7, <1>8, <1>9, <1>10 DEF ListInv

-----------------------------------------------------------------------------
(* Instructions: one or two registers are taken, and the result applied.   *)

\* What was taken stays where it is.
Later(h, g) ==
    /\ \A d \in Dds :
        /\ Len(h.list[d]) <= Len(g.list[d])
        /\ \A i \in 1 .. Len(h.list[d]) :
            /\ g.list[d][i] = h.list[d][i] /\ g.array[d][i - 1] = h.array[d][i - 1]
            /\ g.regs[d][i - 1] = h.regs[d][i - 1]
    /\ ~OnDds => g.array = h.array
    /\ Cur # "reg" => g.regs = h.regs

\* What is selected is listed, and without a hazard the register, or the word
\* that is to be written to it, is right.
InPlace(h, t) ==
    /\ OnDds => h.array[t.dds][t.register] = t.word
    /\ Cur = "reg" => h.regs[t.dds][t.register] = t.word

Picked(h) ==
    \A t \in h.select :
        /\ Selects(h.list, t)
        /\ Cur = "dds1" => t.dds = 0
        /\ Cur # "rpg"
        /\ h.stale = {} => InPlace(h, t)

Inst(h) == Sound(h) /\ Later(Now, h) /\ Picked(h)

LEMMA LaterTransitive ==
    ASSUME NEW f \in AtWork, NEW h \in AtWork, NEW g \in AtWork, Later(f, h), Later(h, g)
    PROVE  Later(f, g)
<1>1. \A d \in Dds : Len(f.list[d]) \in Nat /\ Len(h.list[d]) \in Nat /\ Len(g.list[d]) \in Nat
  BY DEF AtWork
<1>2. ASSUME NEW d \in Dds
      PROVE  /\ Len(f.list[d]) <= Len(g.list[d])
             /\ \A i \in 1 .. Len(f.list[d]) :
                  /\ g.list[d][i] = f.list[d][i] /\ g.array[d][i - 1] = f.array[d][i - 1]
                  /\ g.regs[d][i - 1] = f.regs[d][i - 1]
  <2>1. Len(f.list[d]) <= Len(h.list[d]) /\ Len(h.list[d]) <= Len(g.list[d])
    BY DEF Later
  <2>2. ASSUME NEW i \in 1 .. Len(f.list[d])
        PROVE  /\ g.list[d][i] = f.list[d][i] /\ g.array[d][i - 1] = f.array[d][i - 1]
               /\ g.regs[d][i - 1] = f.regs[d][i - 1]
    <3>1. i \in 1 .. Len(h.list[d])
      BY <1>1, <2>1
    <3>. QED
      BY <3>1 DEF Later
  <2>. QED
    BY <1>1, <2>1, <2>2
<1>. QED
  BY <1>2 DEF Later

\* An earlier selection stays right.
LEMMA SelectionStays ==
    ASSUME NEW h \in AtWork, NEW g \in AtWork, Later(h, g), NEW t \in Selection, Selects(h.list, t)
    PROVE  /\ Selects(g.list, t)
           /\ InPlace(h, t) => InPlace(g, t)
<1>. DEFINE i == t.register + 1
<1>1. t.dds \in Dds /\ t.register \in Nat
  BY ShapeAssumption DEF Selection
<1>2. /\ Len(h.list[t.dds]) \in Nat /\ Len(g.list[t.dds]) \in Nat
      /\ Len(h.list[t.dds]) <= Len(g.list[t.dds])
  BY <1>1 DEF AtWork, Later
<1>3. i \in 1 .. Len(h.list[t.dds]) /\ i - 1 = t.register
  BY <1>1, <1>2 DEF Selects
<1>4. /\ g.list[t.dds][i] = h.list[t.dds][i]
      /\ g.array[t.dds][t.register] = h.array[t.dds][t.register]
      /\ g.regs[t.dds][t.register] = h.regs[t.dds][t.register]
  <2>1. /\ g.list[t.dds][i] = h.list[t.dds][i] /\ g.array[t.dds][i - 1] = h.array[t.dds][i - 1]
        /\ g.regs[t.dds][i - 1] = h.regs[t.dds][i - 1]
    BY <1>1, <1>3 DEF Later
  <2>. QED
    BY <1>3, <2>1
<1>. QED
  BY <1>1, <1>2, <1>4 DEF Selects, InPlace

LEMMA TakeLater ==
    ASSUME Types, NEW h, Sound(h), NEW d \in Dds, NEW length \in Length, NEW lost \in BOOLEAN,
           NEW g, g = Take(h, d, length, lost)
    PROVE  Later(h, g)
<1>1. h \in AtWork /\ Listed(h.list, h.made) /\ \A e \in Dds : Len(h.list[e]) \in Nat
  BY DEF Sound, AtWork
<1>2. Again(h, g, d, length) \/ Anew(h, g, d, length, lost) \/ NoneLeft(h, g, d)
  BY <1>1, TakeCases
<1>3. CASE Again(h, g, d, length)
  BY <1>1, <1>3 DEF Again, Later
<1>4. CASE NoneLeft(h, g, d)
  BY <1>1, <1>4 DEF NoneLeft, Later, AtWork
<1>5. CASE Anew(h, g, d, length, lost)
  <2>. DEFINE n == Len(h.list[d])
  <2>1. n \in 0 .. NumShape - 1
    BY <1>1, <1>5, AnewRoom
  <2>2. /\ ~OnDds => g.array = h.array
        /\ Cur # "reg" => g.regs = h.regs
    BY <1>5 DEF Anew
  <2>3. ASSUME NEW e \in Dds
        PROVE  /\ Len(h.list[e]) <= Len(g.list[e])
               /\ \A i \in 1 .. Len(h.list[e]) : g.list[e][i] = h.list[e][i]
    BY <1>1, <1>5, AnewEntries
  <2>4. ASSUME NEW e \in Dds, NEW i \in 1 .. Len(h.list[e])
        PROVE  g.array[e][i - 1] = h.array[e][i - 1] /\ g.regs[e][i - 1] = h.regs[e][i - 1]
    <3>1. i - 1 \in 0 .. NumShape - 1 /\ (e = d => i - 1 # n)
      <4>1. i \in Int /\ 1 <= i /\ i <= Len(h.list[e]) /\ Len(h.list[e]) <= NumShape
        BY <1>1, <2>4 DEF Listed
      <4>. QED
        BY <1>1, <2>1, <4>1, ShapeAssumption
    <3>. QED
      BY <1>1, <1>5, <2>1, <3>1 DEF Anew, AtWork, Rates
  <2>. QED
    BY <2>2, <2>3, <2>4 DEF Later
<1>. QED
  BY <1>2, <1>3, <1>4, <1>5

\* A register that is used again without a hazard holds this board's word.
LEMMA AgainInPlace ==
    ASSUME Types, NEW h, Sound(h), NEW d \in Dds, NEW length \in Length,
           NEW i \in 1 .. Len(h.list[d]), h.list[d][i] = length,
           Cur # "rpg", Stale(h.made[d][i]) = {}
    PROVE  /\ OnDds => h.array[d][i - 1] = Word(cur_board, length)
           /\ Cur = "reg" => h.regs[d][i - 1] = Word(cur_board, length)
<1>. DEFINE e == h.made[d][i]
            w == Word(cur_board, length)
<1>1. e \in Entry /\ i \in 1 .. Len(h.made[d])
  <2>1. h.made[d] \in Seq(Entry) /\ i \in 1 .. Len(h.made[d])
    BY DEF Sound, AtWork, Listed
  <2>. QED
    BY <2>1
<1>2. /\ e.kind = kind[e.board] /\ e.word.mult = Mult[e.kind] /\ e.word.length = length
      /\ e.kind \in DdsBoard => h.array[d][i - 1] = e.word
      /\ e.kind = "reg" /\ ~e.lost => [regs EXCEPT ![cur_board] = h.regs][e.board][d][i - 1] = e.word
  BY <1>1 DEF Sound, Filed, Spelled
<1>. HIDE DEF e
<1>3. /\ OnDds => e.kind \in DdsBoard
      /\ ~OnDds => e.board = cur_board
      /\ e.word.clock = clock[cur_board] /\ ~e.lost
  <2>1. "switched" \notin Stale(e) /\ "clock" \notin Stale(e) /\ "lost" \notin Stale(e)
    BY DEF e
  <2>. QED
    BY <2>1 DEF Stale, DdsBoard
<1>4. ASSUME Mult[e.kind] = Mult[Cur]
      PROVE  e.word = w
  <2>1. w \in Rate /\ w.length = length /\ w.clock = clock[cur_board] /\ w.mult = Mult[Cur]
    BY WordType DEF Types
  <2>2. e.word \in Rate
    BY <1>1 DEF Entry
  <2>. HIDE DEF w
  <2>. QED
    BY <1>2, <1>3, <1>4, <2>1, <2>2 DEF Rate
<1>5. CASE OnDds
  <2>1. Mult[e.kind] = Mult[Cur] /\ Cur # "reg"
    BY <1>3, <1>5 DEF Mult, OnDds, DdsBoard
  <2>. QED
    BY <1>2, <1>3, <1>4, <1>5, <2>1
<1>6. CASE ~OnDds
  <2>1. e.kind = Cur
    BY <1>2, <1>3, <1>6 DEF Cur
  <2>2. Cur = "reg"
    BY <1>6 DEF OnDds, Types, Boards, Kind, Cur
  <2>3. [regs EXCEPT ![cur_board] = h.regs][cur_board] = h.regs
    BY DEF Types, Boards
  <2>. QED
    BY <1>2, <1>3, <1>4, <1>6, <2>1, <2>2, <2>3
<1>. QED
  BY <1>5, <1>6

LEMMA TakePicked ==
    ASSUME Types, NEW h, Sound(h), Picked(h), NEW d \in Dds, NEW length \in Length,
           NEW lost \in BOOLEAN, Cur # "rpg", OnDds => lost = FALSE, Cur = "dds1" => d = 0,
           NEW g, g = Take(h, d, length, lost)
    PROVE  Picked(g)
<1>1. Later(h, g) /\ Sound(g)
  BY TakeLater, TakeSound
<1>2. h \in AtWork /\ g \in AtWork /\ Listed(h.list, h.made)
  BY <1>1 DEF Sound
<1>3. Again(h, g, d, length) \/ Anew(h, g, d, length, lost) \/ NoneLeft(h, g, d)
  BY <1>2, TakeCases
<1>4. ASSUME NEW t \in h.select, h.stale \subseteq g.stale
      PROVE  /\ Selects(g.list, t) /\ (Cur = "dds1" => t.dds = 0)
             /\ g.stale = {} => InPlace(g, t)
  <2>1. t \in Selection /\ Selects(h.list, t)
    BY <1>2 DEF AtWork, Picked
  <2>2. Selects(g.list, t) /\ (InPlace(h, t) => InPlace(g, t))
    BY <1>1, <1>2, <2>1, SelectionStays
  <2>3. g.stale = {} => InPlace(h, t)
    BY <1>4 DEF Picked
  <2>. QED
    BY <2>2, <2>3 DEF Picked
<1>5. CASE Again(h, g, d, length)
  <2>1. PICK i \in 1 .. Len(h.list[d]) :
            /\ h.list[d][i] = length
            /\ g.select = h.select \cup {Chosen(d, i, length)}
            /\ g.stale = h.stale \cup Stale(h.made[d][i])
    BY <1>5 DEF Again
  <2>. DEFINE t == Chosen(d, i, length)
  <2>2. t.dds = d /\ t.register = i - 1 /\ t.word = Word(cur_board, length)
    BY DEF Chosen
  <2>3. t.word.length = length
    BY <2>2, WordType DEF Types
  <2>4. g.list = h.list /\ g.array = h.array /\ g.regs = h.regs
    BY <1>5 DEF Again
  <2>5. Len(h.list[d]) \in Nat
    BY <1>2 DEF AtWork
  <2>. HIDE DEF t
  <2>6. Selects(g.list, t)
    <3>1. (i - 1) + 1 = i /\ i - 1 < Len(h.list[d])
      BY <2>5
    <3>. QED
      BY <2>1, <2>2, <2>3, <2>4, <3>1 DEF Selects
  <2>7. g.stale = {} => InPlace(g, t)
    BY <2>1, <2>2, <2>4, AgainInPlace DEF InPlace
  <2>8. g.select = h.select \cup {t} /\ h.stale \subseteq g.stale
    BY <2>1 DEF t
  <2>. QED
    BY <1>4, <2>2, <2>6, <2>7, <2>8 DEF Picked
<1>6. CASE Anew(h, g, d, length, lost)
  <2>. DEFINE n == Len(h.list[d])
              t == Chosen(d, n + 1, length)
  <2>1. n \in 0 .. NumShape - 1 /\ (n + 1) - 1 = n
    BY <1>2, <1>6, AnewRoom, ShapeAssumption
  <2>2. t.dds = d /\ t.register = n /\ t.word = Word(cur_board, length)
    BY <2>1 DEF Chosen
  <2>3. t.word.length = length
    BY <2>2, WordType DEF Types
  <2>4. /\ g.select = h.select \cup {t} /\ h.stale \subseteq g.stale
        /\ lost => g.stale # {}
        /\ OnDds => g.array = [h.array EXCEPT ![d][n] = Word(cur_board, length)]
        /\ Cur = "reg" /\ ~lost => g.regs = [h.regs EXCEPT ![d][n] = Word(cur_board, length)]
    BY <1>6 DEF Anew
  <2>. HIDE DEF t
  <2>5. Selects(g.list, t)
    <3>1. Len(g.list[d]) = n + 1 /\ g.list[d][n + 1] = length
      BY <1>2, <1>6, AnewEntries
    <3>. QED
      BY <2>1, <2>2, <2>3, <3>1 DEF Selects
  <2>6. g.stale = {} => InPlace(g, t)
    <3>1. h.array \in Rates /\ h.regs \in Rates
      BY <1>2 DEF AtWork
    <3>2. ASSUME OnDds
          PROVE  g.array[d][n] = Word(cur_board, length)
      <4>1. g.array = [h.array EXCEPT ![d][n] = Word(cur_board, length)]
        BY <2>4, <3>2
      <4>. QED
        BY <2>1, <3>1, <4>1 DEF Rates
    <3>3. ASSUME Cur = "reg", g.stale = {}
          PROVE  g.regs[d][n] = Word(cur_board, length)
      <4>1. ~lost
        BY <2>4, <3>3
      <4>2. g.regs = [h.regs EXCEPT ![d][n] = Word(cur_board, length)]
        BY <2>4, <3>3, <4>1
      <4>. QED
        BY <2>1, <3>1, <4>2 DEF Rates
    <3>. QED
      BY <2>2, <3>2, <3>3 DEF InPlace
  <2>. QED
    BY <1>4, <2>2, <2>4, <2>5, <2>6 DEF Picked
<1>7. CASE NoneLeft(h, g, d)
  <2>1. g.select = h.select /\ g.stale = h.stale
    BY <1>2, <1>7 DEF NoneLeft, AtWork
  <2>. QED
    BY <1>4, <2>1 DEF Picked
<1>. QED
  BY <1>3, <1>5, <1>6, <1>7

\* A take leads from an instruction that is under way to one.
LEMMA TakeInst ==
    ASSUME ListInv, NEW h, Inst(h), NEW d \in Dds, NEW length \in Length,
           NEW lost \in BOOLEAN, Cur # "rpg", OnDds => lost = FALSE, Cur = "dds1" => d = 0,
           NEW g, g = Take(h, d, length, lost)
    PROVE  Inst(g)
<1>1. Types /\ Sound(h) /\ Later(Now, h) /\ Picked(h)
  BY DEF ListInv, Inst
<1>2. Sound(g) /\ Later(h, g)
  BY <1>1, TakeSound, TakeLater
<1>3. Picked(g)
  BY <1>1, TakePicked
<1>4. Later(Now, g)
  BY <1>1, <1>2, NowSound, LaterTransitive DEF Sound
<1>. QED
  BY <1>2, <1>3, <1>4 DEF Inst

LEMMA NowInst ==
    ASSUME ListInv
    PROVE  Inst(Now)
<1>1. Sound(Now) /\ Now.select = {}
  BY NowSound DEF Now
<1>2. \A d \in Dds : Len(Now.list[d]) \in Nat
  BY <1>1 DEF Sound, AtWork
<1>3. Later(Now, Now)
  BY <1>2 DEF Later
<1>. QED
  BY <1>1, <1>3 DEF Inst, Picked

PbInst == PbInstRadioShape \/ PbInstRadioShapeCyclops \/ PbInstDds2Shape

\* All three instruction calls are of this form.
LEMMA InstApplied ==
    ASSUME ListInv, PbInst
    PROVE  open[cur_board] /\ \E h : Inst(h) /\ \E refused \in BOOLEAN : Apply(h, refused)
<1>. USE NowInst
<1>1. Types
  BY DEF ListInv
<1>2. CASE PbInstRadioShape
  <2>1. PICK length \in Length, lost \in BOOLEAN, refused \in BOOLEAN :
            Apply(Take(Now, 0, length, lost), refused)
    BY <1>2 DEF PbInstRadioShape
  <2>2. Cur = "reg" /\ ~OnDds
    BY <1>2 DEF PbInstRadioShape, OnDds
  <2>3. Inst(Take(Now, 0, length, lost))
    BY <2>2, TakeInst DEF Dds
  <2>. QED
    BY <1>2, <2>1, <2>3 DEF PbInstRadioShape
<1>3. CASE PbInstRadioShapeCyclops
  <2>1. PICK length \in Length, refused \in BOOLEAN :
            Apply([Take(Now, 0, length, FALSE) EXCEPT !.select = {}, !.stale = {}], refused)
    BY <1>3 DEF PbInstRadioShapeCyclops
  <2>. DEFINE s == Take(Now, 0, length, FALSE)
              g == [s EXCEPT !.select = {}, !.stale = {}]
  <2>2. Sound(s) /\ Later(Now, s)
    BY <1>1, TakeSound, TakeLater DEF Dds, Inst
  <2>. HIDE DEF s
  <2>3. /\ g \in AtWork /\ g.select = {}
        /\ g.list = s.list /\ g.made = s.made /\ g.array = s.array /\ g.regs = s.regs
        /\ g.full = s.full
    BY <2>2 DEF Sound, AtWork
  <2>. HIDE DEF g
  <2>4. Sound(g) /\ Later(Now, g) /\ Picked(g)
    BY <2>2, <2>3 DEF Sound, Later, Picked
  <2>5. Apply(g, refused)
    BY <2>1 DEF g, s
  <2>. QED
    BY <1>3, <2>4, <2>5 DEF Inst, PbInstRadioShapeCyclops
<1>4. CASE PbInstDds2Shape
  <2>. DEFINE First(length, use) == IF 0 \in use THEN Take(Now, 0, length, FALSE) ELSE Now
              Both(length, use) == IF 1 \in use /\ ~First(length, use).full
                                   THEN Take(First(length, use), 1, length, FALSE)
                                   ELSE First(length, use)
  <2>1. PICK length \in Length, use \in (SUBSET (IF Cur = "dds2" THEN Dds ELSE {0})) \ {{}} :
            Apply(Both(length, use), FALSE)
    BY <1>4 DEF PbInstDds2Shape
  <2>2. OnDds /\ Cur # "rpg" /\ (Cur = "dds1" => 1 \notin use)
    BY <1>4 DEF PbInstDds2Shape, OnDds
  <2>3. Inst(First(length, use))
    BY <2>2, TakeInst DEF Dds
  <2>. HIDE DEF First
  <2>4. Inst(Both(length, use))
    BY <2>2, <2>3, TakeInst DEF Dds
  <2>. QED
    BY <1>4, <2>1, <2>4 DEF PbInstDds2Shape
<1>. QED
  BY <1>2, <1>3, <1>4 DEF PbInst

-----------------------------------------------------------------------------
(* ListInv holds always.                                                   *)

LEMMA ListStep ==
    ASSUME ListInv, [Next]_vars
    PROVE  ListInv'
<1>1. Types
  BY DEF ListInv
<1>2. CASE PbInst
  <2>1. PICK h : Inst(h) /\ \E refused \in BOOLEAN : Apply(h, refused)
    BY <1>2, InstApplied
  <2>. QED
    BY <2>1, ApplyList DEF Inst
<1>3. CASE PbSelectBoard
  BY <1>1, <1>3 DEF PbSelectBoard, Elsewhere, ListInv, Types, Boards, Filed
<1>4. CASE PbCoreClock
  BY <1>1, <1>4 DEF PbCoreClock, Elsewhere, ListInv, Types, Boards, Filed
<1>5. ASSUME NEW ds \in SUBSET Dds, Clear(ds)
      PROVE  ListInv'
  <2>1. /\ UNCHANGED <<kind, clock, cur_board, open, shape_period_array, regs>> /\ ~full'
        /\ shape_list' \in [Dds -> Seq(Length)] /\ made' \in [Dds -> Seq(Entry)]
    BY <1>1, <1>5 DEF Clear, globals, Types
  <2>2. excused' \in [Board -> BOOLEAN] /\ program' \in [Board -> SUBSET Selection]
    BY <1>1, <1>5, GoesTypes DEF Clear
  <2>3. ASSUME NEW d \in Dds
        PROVE  \/ shape_list'[d] = << >> /\ made'[d] = << >>
               \/ shape_list'[d] = shape_list[d] /\ made'[d] = made[d]
    BY <1>5 DEF Clear
  <2>4. Len(<< >>) = 0 /\ 1 .. 0 = {}
    OBVIOUS
  <2>5. Listed(shape_list', made')
    <3>. SUFFICES ASSUME NEW d \in Dds
                  PROVE  /\ Len(shape_list'[d]) <= NumShape /\ Len(made'[d]) = Len(shape_list'[d])
                         /\ \A i, j \in 1 .. Len(shape_list'[d]) :
                               shape_list'[d][i] = shape_list'[d][j] => i = j
      BY DEF Listed
    <3>1. CASE shape_list'[d] = << >> /\ made'[d] = << >>
      BY <2>4, <3>1, ShapeAssumption
    <3>2. CASE shape_list'[d] = shape_list[d] /\ made'[d] = made[d]
      BY <3>2 DEF ListInv, Listed
    <3>. QED
      BY <2>3, <3>1, <3>2
  <2>6. Spelled(shape_list', made') /\ Filed(made, shape_period_array, regs)'
    BY <2>1, <2>3, <2>4 DEF ListInv, Spelled, Filed
  <2>. QED
    BY <1>1, <2>1, <2>2, <2>5, <2>6 DEF ListInv, Types, Boards
<1>6. CASE PbSetDefaults \/ PbSetShapeDefaults
  BY <1>5, <1>6 DEF PbSetDefaults, PbSetShapeDefaults, Dds
<1>7. CASE PbStartProgramming
  <2>1. /\ UNCHANGED <<kind, clock, cur_board, shape_list, made, shape_period_array, regs>>
        /\ ~full'
    BY <1>7 DEF PbStartProgramming, globals
  <2>2. /\ open' \in [Board -> BOOLEAN] /\ excused' \in [Board -> BOOLEAN]
        /\ program' \in [Board -> SUBSET Selection]
    BY <1>1, <1>7 DEF PbStartProgramming, Types, Boards
  <2>. QED
    BY <1>1, <2>1, <2>2 DEF ListInv, Types, Boards, Filed
<1>8. CASE PbStopProgramming
  <2>1. /\ UNCHANGED <<kind, clock, cur_board, shape_list, made, shape_period_array>>
        /\ ~full' /\ open' \in [Board -> BOOLEAN]
        /\ \/ regs' = regs
           \/ OnDds /\ regs' = [regs EXCEPT ![cur_board] = Flushed(cur_board)]
    BY <1>1, <1>8 DEF PbStopProgramming, globals, Types, Flushes
  <2>2. excused' \in [Board -> BOOLEAN] /\ program' \in [Board -> SUBSET Selection]
    BY <1>1, <1>8, GoesTypes DEF PbStopProgramming
  <2>3. Flushed(cur_board) \in Rates
    BY <1>1 DEF Flushed, Types, Boards, Rates
  <2>4. regs' \in [Board -> Rates]
    BY <1>1, <2>1, <2>3 DEF Types
  <2>5. Filed(made, shape_period_array, regs')
    <3>. SUFFICES ASSUME NEW d \in Dds, NEW i \in 1 .. Len(made[d]), NEW e, e = made[d][i]
                  PROVE  /\ e.kind = kind[e.board] /\ e.word.mult = Mult[e.kind]
                         /\ e.kind \in DdsBoard => shape_period_array[d][i - 1] = e.word
                         /\ e.kind = "reg" /\ ~e.lost => regs'[e.board][d][i - 1] = e.word
      BY DEF Filed
    <3>1. /\ e.kind = kind[e.board] /\ e.word.mult = Mult[e.kind]
          /\ e.kind \in DdsBoard => shape_period_array[d][i - 1] = e.word
          /\ e.kind = "reg" /\ ~e.lost => regs[e.board][d][i - 1] = e.word
      BY DEF ListInv, Filed
    <3>2. e.board \in Board
      <4>1. made[d] \in Seq(Entry)
        BY <1>1 DEF Types
      <4>2. e \in Entry
        BY <4>1
      <4>. QED
        BY <4>2 DEF Entry
    <3>3. e.kind = "reg" => regs'[e.board] = regs[e.board]
      BY <1>1, <2>1, <3>1, <3>2 DEF OnDds, Cur, Types
    <3>. QED
      BY <3>1, <3>3
  <2>. QED
    BY <1>1, <2>1, <2>2, <2>4, <2>5 DEF ListInv, Types, Boards, Filed
<1>9. CASE UNCHANGED vars
  BY <1>1, <1>9 DEF vars, ListInv, Types, Boards, Filed, NumOf
<1>. QED
  BY <1>2, <1>3, <1>4, <1>6, <1>7, <1>8, <1>9 DEF Next, Call, PbInst

LEMMA ListInitially ==
    ASSUME Init
    PROVE  ListInv
<1>1. Types
  <2>1. (CHOOSE c \in Clock : TRUE) \in Clock
    BY ShapeAssumption
  <2>2. Blank \in Rate
    BY DEF Blank, Rate
  <2>3. shape_period_array \in Rates /\ regs \in [Board -> Rates]
    BY <2>2 DEF Init, Rates
  <2>. QED
    BY <2>1, <2>3, ShapeAssumption DEF Init, Types, Boards
<1>2. \A d \in Dds : shape_list[d] = << >> /\ made[d] = << >>
  BY DEF Init
<1>3. Len(<< >>) = 0 /\ 1 .. 0 = {}
  OBVIOUS
<1>4. Listed(shape_list, made) /\ Spelled(shape_list, made) /\ Filed(made, shape_period_array, regs)
  BY <1>2, <1>3, ShapeAssumption DEF Listed, Spelled, Filed
<1>. QED
  BY <1>1, <1>4 DEF ListInv, Init

LEMMA ListAlways == Spec => []ListInv
BY ListInitially, ListStep, PTL DEF Spec

\* The lists fit into the registers, there is an entry for each length in
\* them, and what is to be written to a DDS board are rates (if.c, shape_list),
\* whatever is called in which order.
THEOREM ShapeTypes == Spec => []TypeOK
<1>1. ListInv => TypeOK
  BY DEF ListInv, TypeOK, Listed, Types, Rates, Rate
<1>. QED
  BY <1>1, ListAlways, PTL

\* if.c: a shape is refused only when the board's registers are taken by as
\* many lengths.  Registers wasted by a refused instruction count as taken.
THEOREM FullWhenRefused ==
    ASSUME "refused" \in Voids
    PROVE  Spec => []RefusedOnlyWhenFull
<1>1. ASSUME ListInv, full
      PROVE  \E d \in Dds :
                Cardinality({shape_list[d][i] : i \in DOMAIN shape_list[d]}) >= NumOf(cur_board)
  <2>1. PICK d \in Dds : Len(shape_list[d]) >= NumOf(cur_board)
    BY <1>1 DEF ListInv
  <2>. DEFINE n == Len(shape_list[d])
              lengths == {shape_list[d][i] : i \in DOMAIN shape_list[d]}
              f == [i \in 1 .. n |-> shape_list[d][i]]
  <2>2. n \in Nat /\ DOMAIN shape_list[d] = 1 .. n
    BY <1>1 DEF ListInv, Types
  <2>3. \A i, j \in 1 .. n : shape_list[d][i] = shape_list[d][j] => i = j
    BY <1>1 DEF ListInv, Listed
  <2>4. f \in Bijection(1 .. n, lengths)
    BY <2>2, <2>3 DEF Bijection, Injection, Surjection, IsInjective
  <2>5. Cardinality(lengths) = n
    BY <2>2, <2>4, FS_CountingElements DEF ExistsBijection
  <2>. QED
    BY <2>1, <2>5
<1>2. ListInv => RefusedOnlyWhenFull
  BY <1>1 DEF RefusedOnlyWhenFull
<1>. QED
  BY <1>2, ListAlways, PTL

-----------------------------------------------------------------------------
(* What programs select.                                                   *)

\* A program that is not excused gains what its instruction selects.
LEMMA GoesPrograms ==
    ASSUME Types, NEW hazards, NEW select, Goes(hazards, select), NEW b \in Board
    PROVE  /\ excused'[b] => program'[b] = {}
           /\ program'[b] \subseteq program[b] \cup (IF b = cur_board THEN select ELSE {})
           /\ ~excused'[b] => ~excused[b] /\ (b \in DOMAIN hazards => hazards[b] \cap Voids = {})
BY DEF Goes

\* What is selected from one list is distinct.
LEMMA SelectsDistinct ==
    ASSUME NEW list, NEW how, Listed(list, how), list \in [Dds -> Seq(Length)],
           NEW p \in SUBSET Selection, \A t \in p : Selects(list, t)
    PROVE  Distinct(p)
<1>. SUFFICES ASSUME NEW s \in p, NEW t \in p, s.dds = t.dds
              PROVE  s.register = t.register <=> s.word.length = t.word.length
  BY DEF Distinct
<1>. DEFINE d == s.dds
<1>1. d \in Dds /\ s.register \in Nat /\ t.register \in Nat /\ Len(list[d]) \in Nat
  BY ShapeAssumption DEF Selection
<1>2. /\ s.register < Len(list[d]) /\ list[d][s.register + 1] = s.word.length
      /\ t.register < Len(list[d]) /\ list[d][t.register + 1] = t.word.length
  BY DEF Selects
<1>3. s.register + 1 \in 1 .. Len(list[d]) /\ t.register + 1 \in 1 .. Len(list[d])
  BY <1>1, <1>2
<1>4. s.word.length = t.word.length => s.register + 1 = t.register + 1
  BY <1>1, <1>2, <1>3 DEF Listed
<1>. QED
  BY <1>1, <1>2, <1>4

\* What an instruction does to the programs.
LEMMA ApplyPrograms ==
    ASSUME ListInv, NEW h, Inst(h), NEW refused \in BOOLEAN, Apply(h, refused), NEW b \in Board
    PROVE  /\ program'[b] \subseteq program[b] \cup (IF b = cur_board THEN h.select ELSE {})
           /\ excused'[b] => program'[b] = {} \/ (program'[b] = program[b] /\ excused[b])
           /\ ~excused'[b] => ~excused[b]
           /\ b = cur_board /\ ~excused'[b] =>
                 program'[b] \subseteq program[b] \/ h.stale \cap Voids = {}
<1>1. CASE h.full \/ refused
  BY <1>1 DEF Apply
<1>2. CASE ~(h.full \/ refused)
  <2>1. Goes([c \in {cur_board} |-> h.stale], h.select)
    BY <1>2 DEF Apply
  <2>. QED
    BY <2>1, GoesPrograms DEF ListInv
<1>. QED
  BY <1>1, <1>2

LEMMA ApplySelects ==
    ASSUME ListInv, SelectInv, open[cur_board], NEW h, Inst(h), NEW refused \in BOOLEAN,
           Apply(h, refused)
    PROVE  SelectInv'
<1>1. Types /\ Now \in AtWork /\ h \in AtWork /\ Listed(h.list, h.made)
  BY NowSound DEF ListInv, Inst, Sound
<1>2. UNCHANGED <<open, cur_board>> /\ shape_list' = h.list
  BY DEF Apply, globals
<1>. SUFFICES ASSUME NEW b \in Board
              PROVE  /\ Distinct(program'[b])
                     /\ open[b] => \A t \in program'[b] : Selects(h.list, t)
                     /\ excused'[b] => program'[b] = {}
  BY <1>2 DEF SelectInv
<1>3. /\ program'[b] \subseteq program[b] \cup (IF b = cur_board THEN h.select ELSE {})
      /\ excused'[b] => program'[b] = {} \/ (program'[b] = program[b] /\ excused[b])
  BY ApplyPrograms
<1>4. excused'[b] => program'[b] = {}
  BY <1>3 DEF SelectInv
<1>5. ASSUME NEW t \in program[b], open[b]
      PROVE  Selects(h.list, t)
  <2>1. t \in Selection /\ Selects(Now.list, t)
    BY <1>1, <1>5 DEF SelectInv, Types, Now
  <2>. QED
    BY <1>1, <2>1, SelectionStays DEF Inst
<1>6. open[b] => \A t \in program'[b] : Selects(h.list, t)
  BY <1>3, <1>5 DEF Inst, Picked
<1>7. Distinct(program'[b])
  <2>1. CASE open[b]
    <3>1. program'[b] \in SUBSET Selection /\ h.list \in [Dds -> Seq(Length)]
      BY <1>1, <1>3 DEF Types, AtWork
    <3>. QED
      BY <1>1, <1>6, <2>1, <3>1, SelectsDistinct
  <2>2. CASE ~open[b]
    BY <1>3, <2>2 DEF SelectInv, Distinct
  <2>. QED
    BY <2>1, <2>2
<1>. QED
  BY <1>4, <1>6, <1>7

LEMMA SelectStep ==
    ASSUME "cleared" \in Voids, ListInv, SelectInv, [Next]_vars
    PROVE  SelectInv'
<1>1. Types
  BY DEF ListInv
<1>2. CASE PbInst
  <2>1. open[cur_board] /\ \E h : Inst(h) /\ \E refused \in BOOLEAN : Apply(h, refused)
    BY <1>2, InstApplied
  <2>. QED
    BY <2>1, ApplySelects
<1>3. CASE PbSelectBoard \/ PbCoreClock \/ UNCHANGED vars
  <2>1. UNCHANGED <<open, excused, shape_list, program>>
    BY <1>3 DEF PbSelectBoard, PbCoreClock, Elsewhere, vars
  <2>. QED
    BY <2>1 DEF SelectInv
<1>4. ASSUME NEW ds \in SUBSET Dds, Clear(ds)
      PROVE  SelectInv'
  <2>. DEFINE hazards == [b \in {c \in Board : open[c] /\ program[c] # {}} |-> {"cleared"}]
  <2>1. Goes(hazards, {}) /\ open' = open
    BY <1>4 DEF Clear
  <2>. SUFFICES ASSUME NEW b \in Board
                PROVE  /\ Distinct(program'[b])
                       /\ open[b] => program'[b] = {}
                       /\ excused'[b] => program'[b] = {}
    BY <2>1 DEF SelectInv
  <2>2. /\ excused'[b] => program'[b] = {}
        /\ program'[b] \subseteq program[b]
        /\ ~excused'[b] => (b \in DOMAIN hazards => hazards[b] \cap Voids = {})
    BY <1>1, <2>1, GoesPrograms
  <2>. QED
    BY <2>2 DEF SelectInv, Distinct
<1>5. CASE PbSetDefaults \/ PbSetShapeDefaults
  BY <1>4, <1>5 DEF PbSetDefaults, PbSetShapeDefaults, Dds
<1>6. CASE PbStartProgramming
  <2>1. CASE cur_device' = Pulse
    <3>1. /\ program' = [program EXCEPT ![cur_board] = {}] /\ shape_list' = shape_list
          /\ excused' = [excused EXCEPT ![cur_board] = FALSE]
          /\ open' = [open EXCEPT ![cur_board] = TRUE]
      BY <1>6, <2>1 DEF PbStartProgramming
    <3>. QED
      BY <1>1, <3>1 DEF SelectInv, Distinct, Types, Boards
  <2>2. CASE cur_device' # Pulse
    <3>1. UNCHANGED <<open, excused, shape_list, program>>
      BY <1>6, <2>2 DEF PbStartProgramming
    <3>. QED
      BY <3>1 DEF SelectInv
  <2>. QED
    BY <2>1, <2>2
<1>7. CASE PbStopProgramming
  <2>1. PICK hazards : Goes(hazards, {})
    BY <1>7 DEF PbStopProgramming
  <2>2. open' = [open EXCEPT ![cur_board] = FALSE] /\ shape_list' = shape_list
    BY <1>7 DEF PbStopProgramming
  <2>. SUFFICES ASSUME NEW b \in Board
                PROVE  /\ Distinct(program'[b])
                       /\ open'[b] => \A t \in program'[b] : Selects(shape_list, t)
                       /\ excused'[b] => program'[b] = {}
    BY <2>2 DEF SelectInv
  <2>3. program'[b] \subseteq program[b] /\ (excused'[b] => program'[b] = {})
    BY <1>1, <2>1, GoesPrograms
  <2>. QED
    BY <1>1, <2>2, <2>3 DEF SelectInv, Distinct, Types
<1>. QED
  BY <1>2, <1>3, <1>5, <1>6, <1>7 DEF Next, Call, PbInst

LEMMA SelectAlways ==
    ASSUME "cleared" \in Voids
    PROVE  Spec => []SelectInv
<1>1. Init => SelectInv
  BY DEF Init, SelectInv, Distinct
<1>. QED
  BY <1>1, SelectStep, ListAlways, PTL DEF Spec

\* Within a program two lengths never share a register of a DDS and one length
\* has one register (if.c: "check if this shape period has already been
\* programmed"), if the program is given up once its lists are emptied.
THEOREM LengthsAndRegisters ==
    ASSUME "cleared" \in Voids
    PROVE  Spec => []OneLengthOneRegister
<1>1. SelectInv => OneLengthOneRegister
  BY DEF SelectInv, Distinct, OneLengthOneRegister
<1>. QED
  BY <1>1, SelectAlways, PTL

-----------------------------------------------------------------------------
(* What the registers hold.                                                *)

Excuses == {"switched", "clock", "lost", "cleared", "device"}

LEMMA ApplyFits ==
    ASSUME Excuses \subseteq Voids, ListInv, SelectInv, FitInv, open[cur_board],
           NEW h, Inst(h), NEW refused \in BOOLEAN, Apply(h, refused)
    PROVE  FitInv'
<1>1. Types /\ Now \in AtWork /\ h \in AtWork
  BY NowSound DEF ListInv, Inst, Sound
<1>2. /\ UNCHANGED <<kind, open, cur_board>> /\ shape_period_array' = h.array
      /\ regs' = [regs EXCEPT ![cur_board] = h.regs]
  BY DEF Apply, globals
<1>. SUFFICES ASSUME NEW b \in Board, NEW t \in program'[b]
              PROVE  /\ kind[b] # "rpg" /\ (kind[b] = "dds1" => t.dds = 0)
                     /\ kind[b] = "reg" \/ ~open[b] => regs'[b][t.dds][t.register] = t.word
                     /\ kind[b] \in DdsBoard /\ open[b] => h.array[t.dds][t.register] = t.word
  BY <1>2 DEF FitInv
<1>3. /\ program'[b] \subseteq program[b] \cup (IF b = cur_board THEN h.select ELSE {})
      /\ ~excused'[b]
      /\ b = cur_board => program'[b] \subseteq program[b] \/ h.stale \cap Voids = {}
  BY ApplyPrograms DEF SelectInv
<1>4. regs'[cur_board] = h.regs /\ (b # cur_board => regs'[b] = regs[b])
  BY <1>1, <1>2 DEF Types, Boards
<1>5. CASE t \in program[b]
  <2>1. /\ kind[b] # "rpg" /\ (kind[b] = "dds1" => t.dds = 0)
        /\ kind[b] = "reg" \/ ~open[b] => regs[b][t.dds][t.register] = t.word
        /\ kind[b] \in DdsBoard /\ open[b] => shape_period_array[t.dds][t.register] = t.word
    BY <1>5 DEF FitInv
  <2>2. ASSUME open[b]
        PROVE  /\ h.array[t.dds][t.register] = shape_period_array[t.dds][t.register]
               /\ h.regs[t.dds][t.register] = regs[cur_board][t.dds][t.register]
    <3>1. /\ t.dds \in Dds /\ t.register \in Nat
          /\ t.register < Len(shape_list[t.dds]) /\ Len(shape_list[t.dds]) \in Nat
      BY <1>1, <1>5, <2>2, ShapeAssumption DEF SelectInv, Selects, Types, Selection
    <3>. DEFINE i == t.register + 1
    <3>2. i \in 1 .. Len(Now.list[t.dds]) /\ i - 1 = t.register
      BY <3>1 DEF Now
    <3>3. /\ h.array[t.dds][i - 1] = Now.array[t.dds][i - 1]
          /\ h.regs[t.dds][i - 1] = Now.regs[t.dds][i - 1]
      BY <3>1, <3>2 DEF Inst, Later
    <3>. QED
      BY <3>2, <3>3 DEF Now
  <2>. QED
    BY <1>4, <2>1, <2>2
<1>6. CASE t \notin program[b]
  <2>1. b = cur_board /\ t \in h.select /\ h.stale \cap Voids = {}
    BY <1>3, <1>6
  <2>2. h.stale = {}
    BY <1>1, <2>1 DEF AtWork, Excuses
  <2>3. Cur # "rpg" /\ (Cur = "dds1" => t.dds = 0) /\ InPlace(h, t)
    BY <2>1, <2>2 DEF Inst, Picked
  <2>. QED
    BY <1>4, <2>1, <2>3 DEF InPlace, OnDds, Cur, DdsBoard
<1>. QED
  BY <1>5, <1>6

LEMMA FitStep ==
    ASSUME Excuses \subseteq Voids, ListInv, SelectInv, FitInv, [Next]_vars
    PROVE  FitInv'
<1>1. Types
  BY DEF ListInv
<1>2. CASE PbInst
  <2>1. open[cur_board] /\ \E h : Inst(h) /\ \E refused \in BOOLEAN : Apply(h, refused)
    BY <1>2, InstApplied
  <2>. QED
    BY <2>1, ApplyFits
<1>3. CASE PbSelectBoard \/ PbCoreClock \/ UNCHANGED vars
  <2>1. UNCHANGED <<kind, open, program, regs, shape_period_array>>
    BY <1>3 DEF PbSelectBoard, PbCoreClock, Elsewhere, vars
  <2>. QED
    BY <2>1 DEF FitInv
<1>4. CASE PbSetDefaults \/ PbSetShapeDefaults
  <2>1. PICK ds : Clear(ds)
    BY <1>4 DEF PbSetDefaults, PbSetShapeDefaults
  <2>2. UNCHANGED <<kind, open, regs, shape_period_array>>
    BY <2>1 DEF Clear, globals
  <2>3. \A b \in Board : program'[b] \subseteq program[b]
    BY <1>1, <2>1, GoesPrograms DEF Clear
  <2>. QED
    BY <2>2, <2>3 DEF FitInv
<1>5. CASE PbStartProgramming
  <2>1. UNCHANGED <<kind, regs, shape_period_array>>
    BY <1>5 DEF PbStartProgramming, globals
  <2>2. ASSUME NEW b \in Board
        PROVE  program'[b] = {} \/ (program'[b] = program[b] /\ open'[b] = open[b])
    BY <1>1, <1>5 DEF PbStartProgramming, Types, Boards
  <2>. QED
    BY <2>1, <2>2 DEF FitInv
<1>6. CASE PbStopProgramming
  <2>1. PICK lost \in IF Flushes THEN BOOLEAN ELSE {FALSE} :
            /\ regs' = IF Flushes /\ ~lost THEN [regs EXCEPT ![cur_board] = Flushed(cur_board)]
                       ELSE regs
            /\ Goes([b \in {cur_board} |->
                       {x \in {"lost", "device"} :
                           IF x = "lost" THEN lost
                           ELSE OnDds /\ (cur_device = Pulse) # open[cur_board]}], {})
    BY <1>6 DEF PbStopProgramming
  <2>2. UNCHANGED <<kind, cur_board, shape_period_array>> /\ open' = [open EXCEPT ![cur_board] = FALSE]
    BY <1>6 DEF PbStopProgramming, globals
  <2>. SUFFICES ASSUME NEW b \in Board, NEW t \in program'[b]
                PROVE  /\ kind[b] # "rpg" /\ (kind[b] = "dds1" => t.dds = 0)
                       /\ kind[b] = "reg" \/ ~open'[b] => regs'[b][t.dds][t.register] = t.word
                       /\ kind[b] \in DdsBoard /\ open'[b] =>
                              shape_period_array[t.dds][t.register] = t.word
    BY <2>2 DEF FitInv
  <2>3. /\ t \in program[b] /\ ~excused'[b]
        /\ b = cur_board => ~lost /\ (OnDds => (cur_device = Pulse) = open[cur_board])
    <3>1. t \in program[b] /\ ~excused'[b]
      BY <1>1, <2>1, GoesPrograms
    <3>2. b = cur_board =>
            {x \in {"lost", "device"} :
                IF x = "lost" THEN lost
                ELSE OnDds /\ (cur_device = Pulse) # open[cur_board]} \cap Voids = {}
      BY <1>1, <2>1, <3>1, GoesPrograms
    <3>3. "lost" \in Voids /\ "device" \in Voids
      BY DEF Excuses
    <3>. QED
      BY <3>1, <3>2, <3>3
  <2>4. /\ kind[b] # "rpg" /\ (kind[b] = "dds1" => t.dds = 0)
        /\ kind[b] = "reg" \/ ~open[b] => regs[b][t.dds][t.register] = t.word
        /\ kind[b] \in DdsBoard /\ open[b] => shape_period_array[t.dds][t.register] = t.word
    BY <2>3 DEF FitInv
  <2>5. CASE b # cur_board
    BY <1>1, <2>1, <2>2, <2>4, <2>5 DEF Types, Boards
  <2>6. CASE b = cur_board
    <3>1. ~open'[b]
      BY <1>1, <2>2, <2>6 DEF Types, Boards
    <3>2. CASE OnDds /\ open[b]
      <4>1. regs' = [regs EXCEPT ![b] = Flushed(b)]
        BY <2>1, <2>3, <2>6, <3>2 DEF Flushes
      <4>2. t.dds = 0 \/ kind[b] = "dds2"
        BY <2>4, <2>6, <3>2 DEF OnDds, Cur
      <4>3. regs'[b][t.dds] = shape_period_array[t.dds]
        <5>1. t \in Selection /\ regs'[b] = Flushed(b)
          BY <1>1, <2>3, <4>1 DEF Types
        <5>. QED
          BY <4>2, <5>1 DEF Flushed, Selection
      <4>. QED
        BY <2>4, <2>6, <3>1, <3>2, <4>3 DEF OnDds, Cur, DdsBoard
    <3>3. CASE ~(OnDds /\ open[b])
      <4>1. regs' = regs
        BY <2>1, <2>3, <2>6, <3>3 DEF Flushes
      <4>2. kind[b] = "reg" \/ ~open[b]
        BY <1>1, <2>4, <2>6, <3>3 DEF OnDds, Cur, Types, Boards, Kind
      <4>. QED
        BY <2>4, <3>1, <4>1, <4>2
    <3>. QED
      BY <3>2, <3>3
  <2>. QED
    BY <2>5, <2>6
<1>. QED
  BY <1>2, <1>3, <1>4, <1>5, <1>6 DEF Next, Call, PbInst

LEMMA FitAlways ==
    ASSUME Excuses \subseteq Voids
    PROVE  Spec => []FitInv
<1>1. Init => FitInv
  BY DEF Init, FitInv
<1>2. "cleared" \in Voids
  BY DEF Excuses
<1>. QED
  BY <1>1, <1>2, FitStep, ListAlways, SelectAlways, PTL DEF Spec

\* Once a program is finished, every register that its instructions select
\* holds the rate for the instruction's length and clock on this board and
\* DDS, unless one of the five hazards has happened to it.
THEOREM FinishedShapesFit ==
    ASSUME Excuses \subseteq Voids
    PROVE  Spec => []ShapesFit
<1>1. FitInv => ShapesFit
  BY DEF FitInv, ShapesFit
<1>. QED
  BY <1>1, FitAlways, PTL

=============================================================================

--------------------------------- MODULE ShapeRegs ---------------------------------
(***************************************************************************)
(* Shaped pulses.  A shaped instruction selects a register of the board    *)
(* that holds the rate at which its shape is played, which follows from    *)
(* the instruction's length and the board's clock.  The library hands out  *)
(* the registers behind the caller's back: it lists the lengths that have  *)
(* one, per DDS but for all boards together (if.c, shape_list).            *)
(* RadioProcessors ("reg") are written to at once, DDS boards ("dds2",     *)
(* "dds1") when programming stops, and the RPG ("rpg") never.              *)
(***************************************************************************)
EXTENDS Integers, Sequences, FiniteSets

CONSTANTS
    Board,
    Kinds,        \* the kinds that the boards may have, a set of functions on Board
    NumShape,     \* num_shape of the boards other than the RPG, which has one
    Length,       \* the lengths of shaped instructions
    Clock,        \* the clocks that pb_core_clock may set
    Voids,        \* the hazards that excuse a program
    MaxCalls      \* bound: the calls of a behaviour

Kind == {"reg", "dds2", "dds1", "rpg"}
Dds == {0, 1}

ASSUME ShapeAssumption ==
    /\ Kinds \subseteq [Board -> Kind] /\ Clock # {}
    /\ NumShape \in Nat \ {0} /\ MaxCalls \in Nat
    /\ Voids \subseteq {"switched", "clock", "lost", "cleared", "device", "refused"}

VARIABLES
    kind,         \* of each board
    clock,        \* of each board
    cur_board, cur_device,
    shape_list,   \* of each DDS: the lengths that have a register
    made,         \* of each of them: how it got its register
    shape_period_array, \* of each DDS: words to be written to a DDS board
    regs,         \* of each board and DDS: the shape registers
    open,         \* of each board: whether a program is being entered
    program,      \* of each board: what the shaped instructions of its program select
    excused,      \* of each board: whether a hazard of Voids happened to its program
    full,         \* whether the last call was refused for want of a register
    calls         \* how many there were

vars == <<kind, clock, cur_board, cur_device, shape_list, made, shape_period_array, regs, open,
          program, excused, full, calls>>
globals == <<kind, cur_board, clock>>

Blank == [length |-> 0, clock |-> 0, mult |-> 0]
Mult == [reg |-> 2, dds2 |-> 4, dds1 |-> 4, rpg |-> 4]
Word(b, length) == [length |-> length, clock |-> clock[b], mult |-> Mult[kind[b]]]

Cur == kind[cur_board]
OnDds == Cur \in {"dds2", "dds1"}
NumOf(b) == IF kind[b] = "rpg" THEN 1 ELSE NumShape
Pulse == "PULSE_PROGRAM"

-----------------------------------------------------------------------------
(* Handing out registers.                                                  *)

\* The registers while an instruction is at work, and how far it has got.
Now == [list |-> shape_list, made |-> made, array |-> shape_period_array,
        regs |-> regs[cur_board], full |-> FALSE, select |-> {}, stale |-> {}]

Positions(s, x) == {i \in 1 .. Len(s) : s[i] = x}

\* set_shape_period.  lost: the board did not get what reg_write wrote.
SetShapePeriod(s, d, i, length, lost) ==
    LET word == Word(cur_board, length)
    IN  IF OnDds THEN [s EXCEPT !.array[d][i] = word]
        ELSE IF Cur = "reg" /\ ~lost THEN [s EXCEPT !.regs[d][i] = word]
        ELSE s

\* What is wrong with an entry that this board uses again.
Stale(how) ==
    {h \in {"switched", "clock", "lost"} :
        CASE h = "switched" -> IF OnDds THEN how.kind \notin {"dds2", "dds1"}
                                        ELSE how.board # cur_board
          [] h = "clock" -> how.word.clock # clock[cur_board]
          [] h = "lost" -> how.lost}

\* One register more than the board has.
TakeTooMany(s, d, length, lost) ==
    LET i == Len(s.list[d])
    IN  IF i <= NumOf(cur_board)
        THEN [s EXCEPT !.list[d] = Append(@, length),
                       !.made[d] = Append(@, [board |-> cur_board, kind |-> Cur, lost |-> lost,
                                              word |-> Word(cur_board, length), used |-> FALSE])]
        ELSE [s EXCEPT !.full = TRUE]

\* A register for a length that has none (or, without Take, a new one whether
\* it has or not).
TakeAnew(s, d, length, lost) ==
    LET i == Len(s.list[d])
    IN  IF i < NumOf(cur_board)
        THEN [SetShapePeriod(s, d, i, length, lost) EXCEPT
                !.list[d] = Append(@, length),
                !.made[d] = Append(@, [board |-> cur_board, kind |-> Cur, lost |-> lost,
                                       word |-> Word(cur_board, length), used |-> FALSE]),
                !.select = @ \cup {[dds |-> d, register |-> i,
                                    word |-> Word(cur_board, length)]},
                !.stale = IF lost THEN @ \cup {"lost"} ELSE @]
        ELSE [s EXCEPT !.full = TRUE]

Take(s, d, length, lost) ==
    LET found == Positions(s.list[d], length)
    IN  IF found = {} THEN TakeAnew(s, d, length, lost)
        ELSE LET i == CHOOSE j \in found : \A k \in found : j <= k
             IN  [s EXCEPT !.select = @ \cup {[dds |-> d, register |-> i - 1,
                                               word |-> Word(cur_board, length)]},
                           !.stale = @ \cup Stale(s.made[d][i])]

\* What happens to programs, by board, and what the current one selects.  A
\* program that is excused is not followed any further.
Goes(hazards, select) ==
    /\ excused' = [b \in Board |->
                     excused[b] \/ (b \in DOMAIN hazards /\ hazards[b] \cap Voids # {})]
    /\ program' = [b \in Board |-> IF excused'[b] THEN {}
                                   ELSE IF b = cur_board THEN program[b] \cup select
                                   ELSE program[b]]

\* Registers that an acknowledged instruction selects have not been wasted.
Used(s) ==
    [d \in Dds |-> [i \in DOMAIN s.made[d] |->
        [s.made[d][i] EXCEPT !.used = @ \/ \E t \in s.select : t.dds = d /\ t.register = i - 1]]]

Apply(s, refused) ==
    /\ shape_list' = s.list
    /\ made' = IF s.full \/ refused THEN s.made ELSE Used(s)
    /\ shape_period_array' = s.array
    /\ regs' = [regs EXCEPT ![cur_board] = s.regs]
    /\ full' = s.full
    /\ IF s.full \/ refused THEN UNCHANGED <<program, excused>>
       ELSE Goes([b \in {cur_board} |-> s.stale], s.select)
    /\ UNCHANGED <<globals, cur_device, open>>

\* pb_inst_radio_shape and pb_inst_radio_shape_cyclops: the register is taken
\* before pb_inst_pbonly64 refuses a delay, a count or a flag.
PbInstRadioShape ==
    /\ open[cur_board] /\ Cur = "reg"
    /\ \E length \in Length, lost, refused \in BOOLEAN :
        Apply(Take(Now, 0, length, lost), refused)

\* The RPG, whose set_shape_period does nothing, takes part in the list.
PbInstRadioShapeCyclops ==
    /\ open[cur_board] /\ Cur = "rpg"
    /\ \E length \in Length, refused \in BOOLEAN :
        LET s == Take(Now, 0, length, FALSE)
        IN  Apply([s EXCEPT !.select = {}, !.stale = {}], refused)

\* The first DDS, the second, or both; the only DDS of "dds1" is the first.
PbInstDds2Shape ==
    /\ open[cur_board] /\ OnDds
    /\ \E length \in Length, use \in (SUBSET (IF Cur = "dds2" THEN Dds ELSE {0})) \ {{}} :
        LET first == IF 0 \in use THEN Take(Now, 0, length, FALSE) ELSE Now
            both == IF 1 \in use /\ ~first.full THEN Take(first, 1, length, FALSE) ELSE first
        IN  Apply(both, FALSE)

-----------------------------------------------------------------------------
(* The calls around them.                                                  *)

Elsewhere ==
    /\ full' = FALSE
    /\ UNCHANGED <<shape_list, made, shape_period_array, regs, program>>

PbSelectBoard ==
    /\ cur_board' \in Board
    /\ UNCHANGED <<kind, clock, cur_device, open, excused>> /\ Elsewhere

PbCoreClock ==
    /\ \E c \in Clock : clock' = [clock EXCEPT ![cur_board] = c]
    /\ UNCHANGED <<kind, cur_board, cur_device, open, excused>> /\ Elsewhere

\* The lists of these DDSs are emptied, under the programs being entered.
Clear(ds) ==
    /\ shape_list' = [d \in Dds |-> IF d \in ds THEN <<>> ELSE shape_list[d]]
    /\ made' = [d \in Dds |-> IF d \in ds THEN <<>> ELSE made[d]]
    /\ Goes([b \in {c \in Board : open[c] /\ program[c] # {}} |-> {"cleared"}], {})
    /\ full' = FALSE
    /\ UNCHANGED <<globals, cur_device, shape_period_array, regs, open>>

PbSetDefaults == Cur \in {"reg", "rpg", "dds1"} /\ Clear({0})

PbSetShapeDefaults == OnDds /\ Clear(Dds)

PbStartProgramming ==
    /\ cur_device' \in {Pulse, "FREQ_REGS"}
    /\ IF cur_device' = Pulse
       THEN /\ open' = [open EXCEPT ![cur_board] = TRUE]
            /\ program' = [program EXCEPT ![cur_board] = {}]
            /\ excused' = [excused EXCEPT ![cur_board] = FALSE]
       ELSE UNCHANGED <<open, program, excused>>
    /\ full' = FALSE
    /\ UNCHANGED <<globals, shape_list, made, shape_period_array, regs>>

\* DDS boards get their shape registers if the last start, of whichever board,
\* was for a program.
Flushes == OnDds /\ cur_device = Pulse

\* Only the first DDS.
FlushedFirst(b) == [regs[b] EXCEPT ![0] = shape_period_array[0]]

Flushed(b) ==
    [d \in Dds |-> IF d = 0 \/ kind[b] = "dds2" THEN shape_period_array[d] ELSE regs[b][d]]

PbStopProgramming ==
    /\ cur_device' = "none"
    /\ open' = [open EXCEPT ![cur_board] = FALSE]
    /\ \E lost \in IF Flushes THEN BOOLEAN ELSE {FALSE} :
        /\ regs' = IF Flushes /\ ~lost THEN [regs EXCEPT ![cur_board] = Flushed(cur_board)]
                   ELSE regs
        /\ Goes([b \in {cur_board} |->
                   {h \in {"lost", "device"} :
                       IF h = "lost" THEN lost
                       ELSE OnDds /\ (cur_device = Pulse) # open[cur_board]}], {})
    /\ full' = FALSE
    /\ UNCHANGED <<globals, shape_list, made, shape_period_array>>

Init ==
    /\ kind \in Kinds
    /\ clock = [b \in Board |-> CHOOSE c \in Clock : TRUE]
    /\ cur_board \in Board /\ cur_device = "none"
    /\ shape_list = [d \in Dds |-> <<>>] /\ made = [d \in Dds |-> <<>>]
    /\ shape_period_array = [d \in Dds |-> [i \in 0 .. NumShape - 1 |-> Blank]]
    /\ regs = [b \in Board |-> [d \in Dds |-> [i \in 0 .. NumShape - 1 |-> Blank]]]
    /\ open = [b \in Board |-> FALSE] /\ program = [b \in Board |-> {}]
    /\ excused = [b \in Board |-> FALSE] /\ full = FALSE /\ calls = 0

Call ==
    \/ PbSelectBoard \/ PbCoreClock
    \/ PbSetDefaults \/ PbSetShapeDefaults
    \/ PbStartProgramming \/ PbStopProgramming
    \/ PbInstRadioShape \/ PbInstRadioShapeCyclops \/ PbInstDds2Shape

Next == calls < MaxCalls /\ calls' = calls + 1 /\ Call

Spec == Init /\ [][Next]_vars

-----------------------------------------------------------------------------
(* Properties.                                                             *)

TypeOK ==
    /\ \A d \in Dds : Len(shape_list[d]) <= NumShape /\ Len(made[d]) = Len(shape_list[d])
    /\ shape_period_array \in [Dds -> [0 .. NumShape - 1 ->
           [length : Length \cup {0}, clock : Clock \cup {0}, mult : {0, 2, 4}]]]

\* "check if this shape period has already been programmed; if not, program it"
\* (if.c): once a program is finished, every register its instructions select
\* holds, on this board and DDS, the rate for the length and the clock of the
\* instruction.
ShapesFit ==
    \A b \in Board : (~open[b] /\ ~excused[b]) =>
        \A s \in program[b] : regs[b][s.dds][s.register] = s.word

\* Within a program two lengths never share a register, and one length has one.
OneLengthOneRegister ==
    \A b \in Board :
        \A s, t \in program[b] :
            s.dds = t.dds => (s.register = t.register <=> s.word.length = t.word.length)

\* "No more shape period registers available" (if.c) only when as many
\* different lengths as the board has registers are in use.  Instructions that
\* were refused after they took a register have wasted it.
RefusedOnlyWhenFull ==
    full =>
        \E d \in Dds :
            /\ Cardinality({shape_list[d][i] : i \in DOMAIN shape_list[d]}) >= NumOf(cur_board)
            /\ "refused" \in Voids \/ \A i \in DOMAIN made[d] : made[d][i].used

=============================================================================

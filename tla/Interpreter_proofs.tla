-------------------------- MODULE Interpreter_proofs --------------------------
(***************************************************************************)
(* What the Interpreter loads, for programs of any length, with any labels *)
(* and any nesting of loops.  Three inductive invariants on top of the     *)
(* types: where the labels read so far stand, at which addresses the lines *)
(* loaded so far are, and which LOOPs the stack holds.  The last one is    *)
(* about the whole program loaded: seen from an open LOOP, there are as    *)
(* many LOOPs more than END_LOOPs after it as the stack is higher, and     *)
(* seen from a closed one there are fewer.                                 *)
(***************************************************************************)
EXTENDS Interpreter, FiniteSetTheorems, SequenceTheorems, WellFoundedInduction, TLAPS

-----------------------------------------------------------------------------
(* The inductive invariants.                                               *)

Phases == {"idle", "line", "time", "command", "data", "loading"}
ReadingPhases == {"line", "time", "command", "data"}

\* What may be known of the data of a line with a command.
DataOf(command) ==
    IF command = "BRANCH" THEN Name \cup {Unset} ELSE IF command = "LOOP" THEN {0, 7} ELSE {0}

Word == Name \cup Commands \cup Numbers

ProgramLine ==
    {l \in [fits : BOOLEAN, command : Commands, data : Name \cup {Unset, 0, 7},
            labels : SUBSET Name] : l.data \in DataOf(l.command)}

\* A line being read: nothing but its command has been found, and that it can
\* be loaded is known only of a command there is.
LineRead ==
    /\ line \in [fits : BOOLEAN, command : Word, data : {0}, labels : {{}}]
    /\ line.fits => line.command \in Commands
    /\ phase # "data" => line.command = "CONTINUE"

Instr == [command : Commands, data : 0 .. MaxLines + 7]

TypeInv ==
    /\ phase \in Phases
    /\ LineRead
    /\ ProgramLines \in Seq(ProgramLine)
    /\ Len(ProgramLines) <= MaxLines
    /\ phase \in {"time", "command", "data"} => Len(ProgramLines) < MaxLines
    /\ ahead \in SUBSET Name
    /\ Labels \in Seq([name : Name, line : 0 .. MaxLines])
    /\ Variables \in [Var -> VarValues \cup {Unset}]
    /\ LoopStack \in Seq(0 .. MaxLines - 1)
    /\ answers \in Seq(Nat) /\ sent \in Seq(Instr)
    /\ Len(sent) = Len(answers) /\ Len(sent) <= Len(ProgramLines)
    /\ Len(LoopStack) <= Len(sent)
    /\ phase \in ReadingPhases => sent = <<>> /\ LoopStack = <<>>
    /\ \A k \in 1 .. Len(sent) : sent[k].command = ProgramLines[k].command
    /\ result \in {-1, 0, 1}
    /\ started \in BOOLEAN /\ num_instructions \in Nat /\ loads \in Nat

\* A label stands in front of the line it is said to mark, or of the next one.
Marks ==
    \A i \in 1 .. Len(Labels) :
        \/ /\ Labels[i].line < Len(ProgramLines)
           /\ Labels[i].name \in ProgramLines[Labels[i].line + 1].labels
        \/ Labels[i].line = Len(ProgramLines) /\ Labels[i].name \in ahead

\* A BRANCH has been sent the line of a label with its name.
Jumps ==
    \A k \in 1 .. Len(sent) : sent[k].command = "BRANCH" =>
        \E i \in 1 .. Len(Labels) :
            Labels[i].name = ProgramLines[k].data /\ Labels[i].line = sent[k].data

\* A board that has been started has the lines at the addresses of their numbers.
Addresses ==
    /\ (phase = "loading" \/ Loaded) /\ started =>
            \A k \in 1 .. Len(answers) : answers[k] = k - 1
    /\ phase = "loading" /\ started => num_instructions = Len(answers)
    /\ Loaded => Len(answers) = Len(ProgramLines)

\* How often a command occurs between line j and line k of the instructions s,
\* and how many more LOOPs than END_LOOPs there are.
CountIn(s, c, j, k) == Cardinality({i \in j + 1 .. k - 1 : s[i].command = c})
Depth(s, j, k) == CountIn(s, "LOOP", j, k) - CountIn(s, "END_LOOP", j, k)

Open(stack) == {stack[i] + 1 : i \in 1 .. Len(stack)}

\* The stack holds the LOOPs that are not closed, ...
OpenLoops(s, stack) ==
    \A i \in 1 .. Len(stack) :
        /\ stack[i] + 1 \in 1 .. Len(s)
        /\ s[stack[i] + 1].command = "LOOP"
        /\ Depth(s, stack[i] + 1, Len(s) + 1) = Len(stack) - i

\* ... and more END_LOOPs than LOOPs follow a closed one, those not counted
\* that are still open.
ClosedLoops(s, stack) ==
    \A j \in 1 .. Len(s), i \in 0 .. Len(stack) :
        (s[j].command = "LOOP" /\ j \notin Open(stack) /\ (i = 0 \/ stack[i] + 1 < j)) =>
            Depth(s, j, Len(s) + 1) < Len(stack) - i

\* An END_LOOP has been sent the line of the nearest LOOP with nothing open in
\* between.
Opens(s, k) == {j \in 1 .. k - 1 : s[j].command = "LOOP" /\ Depth(s, j, k) = 0}
Matched(s, k) == \E j \in Opens(s, k) : (\A i \in Opens(s, k) : i <= j) /\ s[k].data = j - 1

Loops ==
    /\ OpenLoops(sent, LoopStack) /\ ClosedLoops(sent, LoopStack)
    /\ \A k \in 1 .. Len(sent) : sent[k].command = "END_LOOP" => Matched(sent, k)

Inv == TypeInv /\ Marks /\ Jumps /\ Addresses /\ Loops

-----------------------------------------------------------------------------
(* Reading: nothing is in the board yet.                                   *)

\* Without an instruction sent there is nothing to match.
LEMMA NothingSent ==
    ASSUME sent' = <<>>, LoopStack' = <<>>
    PROVE  Jumps' /\ Loops'
<1>1. Len(sent') = 0 /\ Len(LoopStack') = 0
  OBVIOUS
<1>2. Jumps'
  BY <1>1 DEF Jumps
<1>3. OpenLoops(sent', LoopStack') /\ ClosedLoops(sent', LoopStack')
  BY <1>1 DEF OpenLoops, ClosedLoops
<1>. QED
  BY <1>1, <1>2, <1>3 DEF Loops

\* A sequence over a set is one over any larger set.
LEMMA SeqWider ==
    ASSUME NEW S, NEW T, S \subseteq T, NEW s \in Seq(S)
    PROVE  s \in Seq(T)
<1>1. Len(s) \in Nat /\ s \in [1 .. Len(s) -> S]
  BY LenProperties
<1>2. s \in [1 .. Len(s) -> T]
  BY <1>1
<1>. QED
  BY <1>1, <1>2, IsASeq

\* A file that is begun, or given up.
LEMMA Emptied ==
    ASSUME Forgotten, phase' \in {"idle", "line"}, result' \in {-1, 0},
           started' \in BOOLEAN, num_instructions' \in Nat, loads' \in Nat
    PROVE  Inv'
<1>1. /\ line' = NoLine /\ ProgramLines' = <<>> /\ ahead' = {} /\ Labels' = <<>>
      /\ Variables' = [v \in Var |-> Unset]
      /\ LoopStack' = <<>> /\ answers' = <<>> /\ sent' = <<>>
  BY DEF Forgotten
<1>2. Jumps' /\ Loops'
  BY <1>1, NothingSent
<1>3. Marks' /\ Addresses'
  BY <1>1 DEF Marks, Addresses, Loaded
<1>4. LineRead'
  BY <1>1 DEF LineRead, NoLine, Word, Commands
<1>5. /\ Len(<<>>) = 0 /\ MaxLines \in Nat \ {0}
      /\ <<>> \in Seq(ProgramLine) /\ <<>> \in Seq([name : Name, line : 0 .. MaxLines])
      /\ <<>> \in Seq(0 .. MaxLines - 1) /\ <<>> \in Seq(Nat) /\ <<>> \in Seq(Instr)
  BY InterpreterAssumption
<1>6. Variables' \in [Var -> VarValues \cup {Unset}]
  BY <1>1
<1>7. TypeInv'
  BY <1>1, <1>4, <1>5, <1>6 DEF TypeInv, Phases, ReadingPhases
<1>. QED
  BY <1>2, <1>3, <1>7 DEF Inv

\* A step of the reader that reads on.
LEMMA ReadOn ==
    ASSUME Inv, phase \in ReadingPhases, NEW next \in ReadingPhases, Reading(next),
           LineRead',
           ProgramLines' \in Seq(ProgramLine), Len(ProgramLines') <= MaxLines,
           next \in {"time", "command", "data"} => Len(ProgramLines') < MaxLines,
           ahead' \in SUBSET Name, Labels' \in Seq([name : Name, line : 0 .. MaxLines]),
           Variables' \in [Var -> VarValues \cup {Unset}],
           Marks'
    PROVE  Inv'
<1>1. /\ phase' = next
      /\ UNCHANGED <<LoopStack, answers, sent, result, started, num_instructions, loads>>
  BY DEF Reading, board
<1>2. sent = <<>> /\ LoopStack = <<>> /\ answers \in Seq(Nat) /\ Len(answers) = Len(sent)
  BY DEF Inv, TypeInv
<1>3. Jumps' /\ Loops'
  BY <1>1, <1>2, NothingSent
<1>4. Addresses'
  BY <1>1 DEF Addresses, Loaded, ReadingPhases
<1>5. /\ Len(sent') = Len(answers') /\ Len(sent') = 0 /\ Len(ProgramLines') \in Nat
  BY <1>1, <1>2
<1>6. TypeInv'
  BY <1>1, <1>2, <1>5 DEF Inv, TypeInv, ReadingPhases, Phases
<1>. QED
  BY <1>3, <1>4, <1>6 DEF Inv

\* The line read becomes one of the program, with the labels in front of it.
LEMMA Pushed ==
    ASSUME Inv, Len(ProgramLines) < MaxLines,
           NEW l \in [fits : BOOLEAN, command : Word, data : Name \cup {Unset, 0, 7},
                      labels : {{}}],
           l.fits => l.command \in Commands /\ l.data \in DataOf(l.command),
           Push(l)
    PROVE  /\ ProgramLines' \in Seq(ProgramLine) /\ Len(ProgramLines') <= MaxLines
           /\ ahead' \in SUBSET Name
           /\ Labels' \in Seq([name : Name, line : 0 .. MaxLines])
           /\ Variables' \in [Var -> VarValues \cup {Unset}]
           /\ Marks'
<1>. DEFINE p == [(IF l.fits THEN l ELSE NoLine) EXCEPT !.labels = ahead]
<1>1. /\ ProgramLines \in Seq(ProgramLine) /\ ahead \in SUBSET Name /\ MaxLines \in Nat
      /\ Labels \in Seq([name : Name, line : 0 .. MaxLines])
      /\ Variables \in [Var -> VarValues \cup {Unset}]
  BY InterpreterAssumption DEF Inv, TypeInv
<1>2. /\ ProgramLines' = Append(ProgramLines, p) /\ ahead' = {} /\ Labels' = Labels
      /\ Variables' = Variables
  BY DEF Push
<1>3. p \in ProgramLine /\ p.labels = ahead
  <2>1. CASE l.fits
    <3>1. p = [fits |-> l.fits, command |-> l.command, data |-> l.data, labels |-> ahead]
      <4>1. (IF l.fits THEN l ELSE NoLine) = l
        BY <2>1
      <4>. QED
        BY <4>1
    <3>. QED
      BY <1>1, <2>1, <3>1 DEF ProgramLine
  <2>2. CASE ~l.fits
    <3>1. p = [fits |-> FALSE, command |-> "CONTINUE", data |-> 0, labels |-> ahead]
      <4>1. (IF l.fits THEN l ELSE NoLine) = NoLine
        BY <2>2
      <4>2. p = [NoLine EXCEPT !.labels = ahead]
        BY <4>1
      <4>. HIDE DEF p
      <4>. QED
        BY <4>2 DEF NoLine
    <3>. QED
      BY <1>1, <3>1 DEF ProgramLine, DataOf, Commands
  <2>. QED
    BY <2>1, <2>2
<1>. HIDE DEF p
<1>4. /\ ProgramLines' \in Seq(ProgramLine) /\ Len(ProgramLines') = Len(ProgramLines) + 1
      /\ \A k \in 1 .. Len(ProgramLines) : ProgramLines'[k] = ProgramLines[k]
      /\ ProgramLines'[Len(ProgramLines) + 1] = p
  BY <1>1, <1>2, <1>3
<1>5. Marks'
  <2>1. SUFFICES ASSUME NEW i \in 1 .. Len(Labels)
                 PROVE  /\ Labels[i].line < Len(ProgramLines')
                        /\ Labels[i].name \in ProgramLines'[Labels[i].line + 1].labels
    BY <1>2 DEF Marks
  <2>2. Labels[i].line \in Nat /\ Len(ProgramLines) \in Nat
    <3>1. Labels[i] \in [name : Name, line : 0 .. MaxLines]
      BY <1>1, ElementOfSeq
    <3>. QED
      BY <1>1, <3>1
  <2>3. CASE /\ Labels[i].line < Len(ProgramLines)
             /\ Labels[i].name \in ProgramLines[Labels[i].line + 1].labels
    BY <1>4, <2>2, <2>3
  <2>4. CASE Labels[i].line = Len(ProgramLines) /\ Labels[i].name \in ahead
    BY <1>3, <1>4, <2>2, <2>4
  <2>. QED
    BY <2>3, <2>4 DEF Inv, Marks
<1>. QED
  BY <1>1, <1>2, <1>4, <1>5

\* An error in the file.
LEMMA FailedInv ==
    ASSUME Inv, Failed
    PROVE  Inv'
BY Emptied DEF Failed, board, Inv, TypeInv

\* What a word stands for is a word.
LEMMA ResolvedWord ==
    ASSUME TypeInv, NEW t \in Token, Known(t), NEW type
    PROVE  Resolved(t, type).value \in Word
<1>1. CASE t.type = "Variable"
  <2>1. t.value \in Var
    BY <1>1 DEF Token
  <2>2. Variables[t.value] \in VarValues
    BY <1>1, <2>1 DEF Known, TypeInv
  <2>3. Resolved(t, type).value = Variables[t.value]
    BY <1>1 DEF Resolved
  <2>. QED
    BY <2>2, <2>3, InterpreterAssumption DEF Word
<1>2. CASE t.type # "Variable"
  <2>1. t.value \in Word
    BY <1>2 DEF Token, Word
  <2>. QED
    BY <1>2, <2>1 DEF Resolved
<1>. QED
  BY <1>1, <1>2

\* A label marks the line that is read next.
LEMMA ReadLabelInv ==
    ASSUME Inv, ReadLabel
    PROVE  Inv'
<1>1. PICK name \in Name :
        /\ Labels' = Append(Labels, [name |-> name, line |-> LineHere])
        /\ ahead' = ahead \cup {name}
  BY DEF ReadLabel
<1>2. /\ phase = "line" /\ Reading("line")
      /\ UNCHANGED <<line, ProgramLines, Variables>>
  BY DEF ReadLabel
<1>. DEFINE new == [name |-> name, line |-> LineHere]
            LabelSet == [name : Name, line : 0 .. MaxLines]
<1>3. /\ ProgramLines \in Seq(ProgramLine) /\ Len(ProgramLines) <= MaxLines
      /\ ahead \in SUBSET Name /\ Labels \in Seq(LabelSet) /\ MaxLines \in Nat
      /\ Variables \in [Var -> VarValues \cup {Unset}] /\ LineRead
  BY InterpreterAssumption DEF Inv, TypeInv
<1>4. new \in LabelSet
  BY <1>3 DEF LineHere
<1>5. Labels' \in Seq(LabelSet) /\ Len(Labels') = Len(Labels) + 1 /\ Len(Labels) \in Nat
  BY <1>1, <1>3, <1>4
<1>6. /\ \A i \in 1 .. Len(Labels) : Labels'[i] = Labels[i]
      /\ Labels'[Len(Labels) + 1] = new
  BY <1>1, <1>3, <1>4
<1>. HIDE DEF LabelSet
<1>7. Marks'
  <2>1. ASSUME NEW i \in 1 .. Len(Labels)
        PROVE  \/ /\ Labels'[i].line < Len(ProgramLines)
                  /\ Labels'[i].name \in ProgramLines[Labels'[i].line + 1].labels
               \/ Labels'[i].line = Len(ProgramLines) /\ Labels'[i].name \in ahead'
    BY <1>1, <1>6 DEF Inv, Marks
  <2>2. Labels'[Len(Labels) + 1].line = Len(ProgramLines)
        /\ Labels'[Len(Labels) + 1].name \in ahead'
    BY <1>1, <1>6 DEF LineHere
  <2>3. \A i \in 1 .. Len(Labels') : i \in 1 .. Len(Labels) \/ i = Len(Labels) + 1
    BY <1>5
  <2>. QED
    BY <1>2, <2>1, <2>2, <2>3 DEF Marks
<1>8. LineRead'
  BY <1>2, <1>3 DEF LineRead, Reading
<1>. QED
  BY <1>1, <1>2, <1>3, <1>5, <1>7, <1>8, ReadOn DEF ReadingPhases, LabelSet

LEMMA ReadAssignmentInv ==
    ASSUME Inv, ReadAssignment
    PROVE  Inv'
<1>1. /\ phase = "line" /\ Reading("line") /\ phase' = "line"
      /\ UNCHANGED <<line, ProgramLines, ahead, Labels>>
  BY DEF ReadAssignment, Reading
<1>2. PICK v \in Var, w \in VarValues : Variables' = [Variables EXCEPT ![v] = w]
  BY DEF ReadAssignment
<1>3. /\ ProgramLines \in Seq(ProgramLine) /\ Len(ProgramLines) <= MaxLines
      /\ ahead \in SUBSET Name /\ Labels \in Seq([name : Name, line : 0 .. MaxLines])
      /\ Variables \in [Var -> VarValues \cup {Unset}] /\ LineRead
  BY DEF Inv, TypeInv
<1>4. Variables' \in [Var -> VarValues \cup {Unset}]
  BY <1>2, <1>3
<1>5. Marks' /\ LineRead'
  BY <1>1, <1>3 DEF Inv, Marks, LineRead
<1>. QED
  BY <1>1, <1>3, <1>4, <1>5, ReadOn DEF ReadingPhases

LEMMA ReadStopInv ==
    ASSUME Inv, ReadStop
    PROVE  Inv'
<1>. DEFINE l == [NoLine EXCEPT !.fits = TRUE, !.command = "STOP"]
<1>1. /\ phase = "line" /\ Reading("line") /\ phase' = "line" /\ line' = line
      /\ Len(ProgramLines) < MaxLines /\ Push(l)
  BY DEF ReadStop, Reading
<1>2. l = [fits |-> TRUE, command |-> "STOP", data |-> 0, labels |-> {}]
  <2>1. NoLine \in [fits : BOOLEAN, command : {"CONTINUE"}, data : {0}, labels : {{}}]
    BY DEF NoLine
  <2>2. l = [NoLine EXCEPT !.fits = TRUE, !.command = "STOP"]
    OBVIOUS
  <2>. HIDE DEF l
  <2>. QED
    BY <2>1, <2>2
<1>. HIDE DEF l
<1>3. /\ l \in [fits : BOOLEAN, command : Word, data : Name \cup {Unset, 0, 7}, labels : {{}}]
      /\ l.command \in Commands /\ l.data \in DataOf(l.command)
  BY <1>2 DEF Word, Commands, DataOf
<1>4. LineRead'
  BY <1>1 DEF Inv, TypeInv, LineRead
<1>. QED
  BY <1>1, <1>3, <1>4, Pushed, ReadOn DEF ReadingPhases

LEMMA ReadOutputInv ==
    ASSUME Inv, ReadOutput
    PROVE  Inv'
<1>1. PICK t \in Token :
        \/ Failed
        \/ /\ line' = [NoLine EXCEPT !.fits = IsOutput(Resolved(t, "Numeric").value)]
           /\ UNCHANGED <<ProgramLines, ahead, Labels, Variables>> /\ Reading("time")
  BY DEF ReadOutput
<1>2. phase = "line" /\ Len(ProgramLines) < MaxLines
  BY DEF ReadOutput
<1>3. ASSUME line' = [NoLine EXCEPT !.fits = IsOutput(Resolved(t, "Numeric").value)],
             UNCHANGED <<ProgramLines, ahead, Labels, Variables>>, Reading("time")
      PROVE  Inv'
  <2>. DEFINE fits == IsOutput(Resolved(t, "Numeric").value)
  <2>1. fits \in BOOLEAN
    BY DEF IsOutput
  <2>. HIDE DEF fits
  <2>2. line' = [fits |-> fits, command |-> "CONTINUE", data |-> 0, labels |-> {}]
    BY <1>3 DEF NoLine, fits
  <2>3. LineRead'
    BY <2>1, <2>2 DEF LineRead, Word, Commands
  <2>4. /\ ProgramLines \in Seq(ProgramLine)
        /\ ahead \in SUBSET Name /\ Labels \in Seq([name : Name, line : 0 .. MaxLines])
        /\ Variables \in [Var -> VarValues \cup {Unset}]
        /\ Len(ProgramLines) <= MaxLines
    BY DEF Inv, TypeInv
  <2>5. Marks'
    BY <1>3 DEF Inv, Marks
  <2>. QED
    BY <1>2, <1>3, <2>3, <2>4, <2>5, ReadOn DEF ReadingPhases
<1>. QED
  BY <1>1, <1>3, FailedInv

\* The time, at which the line may end.
LEMMA ReadTimeInv ==
    ASSUME Inv, ReadTime
    PROVE  Inv'
<1>. DEFINE value(t) == Resolved(t, "Numeric").value
            read(t) == [line EXCEPT !.fits = @ /\ IsTime(value(t))]
<1>1. PICK t \in Token :
        \/ Failed
        \/ Push(read(t)) /\ line' = NoLine /\ Reading("line")
        \/ /\ line' = read(t) /\ Reading("command")
           /\ UNCHANGED <<ProgramLines, ahead, Labels, Variables>>
  BY DEF ReadTime
<1>2. phase = "time"
  BY DEF ReadTime
<1>3. /\ ProgramLines \in Seq(ProgramLine) /\ Len(ProgramLines) < MaxLines
      /\ Len(ProgramLines) <= MaxLines
      /\ ahead \in SUBSET Name /\ Labels \in Seq([name : Name, line : 0 .. MaxLines])
      /\ Variables \in [Var -> VarValues \cup {Unset}]
  BY <1>2 DEF Inv, TypeInv
<1>. DEFINE r == read(t)
            fits == line.fits /\ IsTime(value(t))
<1>4. /\ line \in [fits : BOOLEAN, command : Word, data : {0}, labels : {{}}]
      /\ line.command = "CONTINUE"
  BY <1>2 DEF Inv, TypeInv, LineRead
<1>5. fits \in BOOLEAN
  OBVIOUS
<1>6. r = [fits |-> fits, command |-> "CONTINUE", data |-> 0, labels |-> {}]
  BY <1>4
<1>. HIDE DEF r, fits
<1>7. /\ r \in [fits : BOOLEAN, command : Word, data : {0}, labels : {{}}]
      /\ r.command = "CONTINUE" /\ r.command \in Commands /\ r.data = 0
  BY <1>5, <1>6 DEF Word, Commands
<1>8. CASE Push(r) /\ line' = NoLine /\ Reading("line")
  <2>1. LineRead'
    BY <1>8 DEF LineRead, NoLine, Word, Commands
  <2>2. /\ r \in [fits : BOOLEAN, command : Word, data : Name \cup {Unset, 0, 7},
                  labels : {{}}]
        /\ r.data \in DataOf(r.command)
    BY <1>5, <1>6, <1>7 DEF DataOf
  <2>. QED
    BY <1>2, <1>3, <1>7, <1>8, <2>1, <2>2, Pushed, ReadOn DEF ReadingPhases
<1>9. CASE /\ line' = r /\ Reading("command")
           /\ UNCHANGED <<ProgramLines, ahead, Labels, Variables>>
  <2>1. LineRead'
    BY <1>7, <1>9 DEF LineRead
  <2>2. Marks'
    BY <1>9 DEF Inv, Marks
  <2>. QED
    BY <1>2, <1>3, <1>9, <2>1, <2>2, ReadOn DEF ReadingPhases
<1>. QED
  BY <1>1, <1>8, <1>9, FailedInv DEF r

\* The command, at which the line may end too, and which is looked up later.
LEMMA ReadCommandInv ==
    ASSUME Inv, ReadCommand
    PROVE  Inv'
<1>. DEFINE value(t) == Resolved(t, "Identifier").value
            read(t) == [line EXCEPT !.fits = @ /\ value(t) \in Commands, !.command = value(t)]
<1>1. PICK t \in Token :
        \/ Failed
        \/ /\ Known(t) /\ value(t) # "BRANCH"
           /\ Push(read(t)) /\ line' = NoLine /\ Reading("line")
        \/ /\ Known(t)
           /\ line' = read(t) /\ Reading("data")
           /\ UNCHANGED <<ProgramLines, ahead, Labels, Variables>>
  BY DEF ReadCommand
<1>2. phase = "command"
  BY DEF ReadCommand
<1>3. /\ ProgramLines \in Seq(ProgramLine) /\ Len(ProgramLines) < MaxLines
      /\ Len(ProgramLines) <= MaxLines
      /\ ahead \in SUBSET Name /\ Labels \in Seq([name : Name, line : 0 .. MaxLines])
      /\ Variables \in [Var -> VarValues \cup {Unset}]
  BY <1>2 DEF Inv, TypeInv
<1>. DEFINE w == value(t)
            r == read(t)
            fits == line.fits /\ w \in Commands
<1>4. line \in [fits : BOOLEAN, command : Word, data : {0}, labels : {{}}]
  BY DEF Inv, TypeInv, LineRead
<1>5. fits \in BOOLEAN
  OBVIOUS
<1>6. r = [fits |-> fits, command |-> w, data |-> 0, labels |-> {}]
  <2>. HIDE DEF w
  <2>1. r = [line EXCEPT !.fits = line.fits /\ w \in Commands, !.command = w]
    BY <1>4 DEF w
  <2>. HIDE DEF r
  <2>. QED
    BY <1>4, <2>1
<1>7. Known(t) => w \in Word
  BY ResolvedWord DEF Inv
<1>8. fits => w \in Commands
  OBVIOUS
<1>. HIDE DEF r, w, fits
<1>9. ASSUME Known(t)
      PROVE  /\ r \in [fits : BOOLEAN, command : Word, data : {0}, labels : {{}}]
             /\ r.fits => r.command \in Commands
             /\ r.data = 0 /\ r.command = w
  BY <1>5, <1>6, <1>7, <1>8, <1>9
<1>10. CASE Known(t) /\ w # "BRANCH" /\ Push(r) /\ line' = NoLine /\ Reading("line")
  <2>1. LineRead'
    BY <1>10 DEF LineRead, NoLine, Word, Commands
  <2>2. /\ r \in [fits : BOOLEAN, command : Word, data : Name \cup {Unset, 0, 7},
                  labels : {{}}]
        /\ r.data \in DataOf(r.command)
    BY <1>5, <1>6, <1>7, <1>10 DEF DataOf
  <2>. QED
    BY <1>2, <1>3, <1>9, <1>10, <2>1, <2>2, Pushed, ReadOn DEF ReadingPhases
<1>11. CASE /\ Known(t) /\ line' = r /\ Reading("data")
            /\ UNCHANGED <<ProgramLines, ahead, Labels, Variables>>
  <2>1. LineRead'
    BY <1>9, <1>11 DEF LineRead, Reading
  <2>2. Marks'
    BY <1>11 DEF Inv, Marks
  <2>. QED
    BY <1>2, <1>3, <1>11, <2>1, <2>2, ReadOn DEF ReadingPhases
<1>. QED
  BY <1>1, <1>10, <1>11, FailedInv DEF r, w

\* The data, of which the command decides what is made.
LEMMA ReadDataInv ==
    ASSUME Inv, ReadData
    PROVE  Inv'
<1>. DEFINE value(t) ==
                Resolved(t, IF line.command = "BRANCH" THEN "Identifier" ELSE "Numeric").value
            read(t) == [line EXCEPT !.data = Meaning(line.command, value(t))]
<1>1. PICK t \in Token :
        \/ Failed
        \/ Push(read(t)) /\ line' = NoLine /\ Reading("line")
  BY DEF ReadData
<1>2. phase = "data"
  BY DEF ReadData
<1>3. /\ ProgramLines \in Seq(ProgramLine) /\ Len(ProgramLines) < MaxLines
  BY <1>2 DEF Inv, TypeInv
<1>. DEFINE r == read(t)
            d == Meaning(line.command, value(t))
<1>4. /\ line \in [fits : BOOLEAN, command : Word, data : {0}, labels : {{}}]
      /\ line.fits => line.command \in Commands
  BY DEF Inv, TypeInv, LineRead
<1>5. d \in DataOf(line.command)
  <2>1. CASE line.command = "BRANCH"
    BY <2>1 DEF Meaning, DataOf
  <2>2. CASE line.command = "LOOP"
    BY <2>2 DEF Meaning, DataOf, Atoi
  <2>3. CASE line.command \notin {"BRANCH", "LOOP"}
    BY <2>3 DEF Meaning, DataOf
  <2>. QED
    BY <2>1, <2>2, <2>3
<1>6. d \in Name \cup {Unset, 0, 7}
  BY <1>5 DEF DataOf
<1>7. r = [fits |-> line.fits, command |-> line.command, data |-> d, labels |-> {}]
  BY <1>4
<1>. HIDE DEF r, d
<1>8. /\ r \in [fits : BOOLEAN, command : Word, data : Name \cup {Unset, 0, 7}, labels : {{}}]
      /\ r.fits => r.command \in Commands /\ r.data \in DataOf(r.command)
  BY <1>4, <1>5, <1>6, <1>7
<1>9. CASE Push(r) /\ line' = NoLine /\ Reading("line")
  <2>1. LineRead'
    BY <1>9 DEF LineRead, NoLine, Word, Commands
  <2>. QED
    BY <1>2, <1>3, <1>8, <1>9, <2>1, Pushed, ReadOn DEF ReadingPhases
<1>. QED
  BY <1>1, <1>9, FailedInv DEF r

-----------------------------------------------------------------------------
(* Loading: the data of an instruction.                                    *)

\* A set of indices of a sequence has a greatest element.
LEMMA Greatest ==
    ASSUME NEW n \in Nat, NEW S \in SUBSET (1 .. n), S # {}
    PROVE  Max(S) \in S
<1>. DEFINE T == {m \in Nat : m < n /\ n - m \in S}
            R == OpToRel(<, Nat)
<1>1. T \subseteq Nat /\ T # {}
  <2>1. PICK i \in S : TRUE
    OBVIOUS
  <2>2. n - i \in Nat /\ n - i < n /\ n - (n - i) = i
    BY <2>1
  <2>3. n - i \in T
    BY <2>1, <2>2
  <2>. QED
    BY <2>3
<1>2. PICK m \in T : \A k \in T : <<k, m>> \notin R
  <2>. HIDE DEF T, R
  <2>1. IsWellFoundedOn(R, Nat)
    BY NatLessThanWellFounded DEF R
  <2>. QED
    BY <1>1, <2>1, WFMin
<1>3. \A k \in T : m <= k
  <2>1. SUFFICES ASSUME NEW k \in T, k < m PROVE FALSE
    OBVIOUS
  <2>2. <<k, m>> \in R
    BY <2>1 DEF OpToRel
  <2>. QED
    BY <1>2, <2>2
<1>4. \A i \in S : n - m >= i
  <2>1. SUFFICES ASSUME NEW i \in S PROVE n - m >= i
    OBVIOUS
  <2>2. n - i \in Nat /\ n - i < n /\ n - (n - i) = i
    BY <2>1
  <2>3. n - i \in T
    BY <2>1, <2>2
  <2>. QED
    BY <1>3, <2>3
<1>5. n - m \in S
  OBVIOUS
<1>. QED
  BY <1>4, <1>5 DEF Max

\* Where a jump goes is where a label with its name stands.
LEMMA MarkedLabel ==
    ASSUME TypeInv, NEW name, Marked(name) # -1
    PROVE  \E i \in 1 .. Len(Labels) : Labels[i].name = name /\ Labels[i].line = Marked(name)
<1>. DEFINE I == {i \in 1 .. Len(Labels) : Labels[i].name = name}
            last == IF I # {} THEN Max(I) ELSE 0
<1>1. Marked(name) = IF last = 0 THEN -1 ELSE Labels[last].line
  BY DEF Marked, SelectLastInSeq
<1>2. Len(Labels) \in Nat
  BY DEF TypeInv
<1>3. I # {} => Max(I) \in I
  BY <1>2, Greatest
<1>. HIDE DEF last
<1>4. last # 0
  BY <1>1
<1>5. last \in I
  BY <1>3, <1>4 DEF last
<1>. QED
  BY <1>1, <1>4, <1>5

\* The line that is loaded next, when there is one.
LEMMA CurrentLine ==
    ASSUME Inv, Len(answers) < Len(ProgramLines)
    PROVE  /\ Len(sent) \in Nat /\ Len(answers) = Len(sent)
           /\ Len(sent) + 1 \in 1 .. Len(ProgramLines)
           /\ Current = ProgramLines[Len(sent) + 1]
           /\ Current \in ProgramLine
<1>1. /\ Len(sent) \in Nat /\ Len(answers) = Len(sent) /\ Len(ProgramLines) \in Nat
      /\ ProgramLines \in Seq(ProgramLine)
  BY DEF Inv, TypeInv
<1>2. Current = ProgramLines[Len(sent) + 1] /\ Len(sent) + 1 \in 1 .. Len(ProgramLines)
  BY <1>1 DEF Current
<1>. QED
  BY <1>1, <1>2, ElementOfSeq

\* The data of an instruction that is sent is a line or a number of turns.
LEMMA DataType ==
    ASSUME Inv, Len(answers) < Len(ProgramLines), Accepted
    PROVE  Data \in 0 .. MaxLines + 7
<1>1. Current \in ProgramLine /\ Current.data \in DataOf(Current.command)
      /\ Current.command \in Commands /\ MaxLines \in Nat
  BY CurrentLine, InterpreterAssumption DEF ProgramLine
<1>2. CASE Current.command = "BRANCH"
  <2>1. Data = Marked(Current.data) /\ Marked(Current.data) # -1
    BY <1>2 DEF Data, Accepted
  <2>2. PICK i \in 1 .. Len(Labels) : Labels[i].line = Marked(Current.data)
    BY <2>1, MarkedLabel DEF Inv
  <2>3. Labels[i] \in [name : Name, line : 0 .. MaxLines]
    BY ElementOfSeq DEF Inv, TypeInv
  <2>. QED
    BY <1>1, <2>1, <2>2, <2>3
<1>3. CASE Current.command = "END_LOOP"
  <2>1. LoopStack # <<>> /\ Data = Last(LoopStack)
    BY <1>3 DEF Data, Accepted
  <2>2. Last(LoopStack) \in 0 .. MaxLines - 1
    <3>1. LoopStack \in Seq(0 .. MaxLines - 1)
      BY DEF Inv, TypeInv
    <3>2. Len(LoopStack) \in 1 .. Len(LoopStack)
      BY <2>1, <3>1
    <3>. QED
      BY <3>1, <3>2, ElementOfSeq DEF Last
  <2>. QED
    BY <1>1, <2>1, <2>2
<1>4. CASE Current.command \notin {"BRANCH", "END_LOOP"}
  <2>1. Data = Current.data
    BY <1>4 DEF Data
  <2>2. Current.data \in {0, 7}
    BY <1>1, <1>4 DEF DataOf
  <2>. QED
    BY <1>1, <2>1, <2>2
<1>. QED
  BY <1>2, <1>3, <1>4

\* The stack of LOOPs stays one of lines of the program.
LEMMA StackType ==
    ASSUME Inv, Len(answers) < Len(ProgramLines)
    PROVE  Stack \in Seq(0 .. MaxLines - 1)
<1>1. /\ LoopStack \in Seq(0 .. MaxLines - 1) /\ Len(answers) \in Nat
      /\ Len(ProgramLines) <= MaxLines /\ Len(ProgramLines) \in Nat /\ MaxLines \in Nat
  BY InterpreterAssumption DEF Inv, TypeInv
<1>2. Append(LoopStack, Len(answers)) \in Seq(0 .. MaxLines - 1)
  BY <1>1
<1>3. LoopStack # <<>> => Front(LoopStack) \in Seq(0 .. MaxLines - 1)
  BY <1>1 DEF Front
<1>. QED
  BY <1>1, <1>2, <1>3 DEF Stack

-----------------------------------------------------------------------------
(* Loading: loops.                                                         *)

\* How often a command occurs between two lines is a number.
LEMMA CountIsNat ==
    ASSUME NEW s, NEW c, NEW j \in Int, NEW k \in Int
    PROVE  CountIn(s, c, j, k) \in Nat
<1>1. j + 1 \in Int /\ k - 1 \in Int
  OBVIOUS
<1>2. IsFiniteSet(j + 1 .. k - 1)
  BY <1>1, FS_Interval
<1>3. {i \in j + 1 .. k - 1 : s[i].command = c} \subseteq j + 1 .. k - 1
  OBVIOUS
<1>. QED
  BY <1>2, <1>3, FS_Subset, FS_CardinalityType DEF CountIn

\* Among the lines of before nothing changes, and an instruction more counts as
\* one of its command.
LEMMA CountGrows ==
    ASSUME NEW s \in Seq(Instr), NEW e \in Instr, NEW c, NEW j \in 1 .. Len(s) + 1
    PROVE  /\ \A k \in 1 .. Len(s) + 1 : CountIn(Append(s, e), c, j, k) = CountIn(s, c, j, k)
           /\ j <= Len(s) => CountIn(Append(s, e), c, j, Len(s) + 2) =
                 CountIn(s, c, j, Len(s) + 1) + (IF e.command = c THEN 1 ELSE 0)
           /\ j = Len(s) + 1 => CountIn(Append(s, e), c, j, Len(s) + 2) = 0
<1>. DEFINE t == Append(s, e)
            n == Len(s)
<1>0. n \in Nat /\ n = Len(s) /\ t = Append(s, e) /\ j \in 1 .. n + 1
  OBVIOUS
<1>1. /\ t[n + 1] = e
      /\ \A k \in 1 .. n : t[k] = s[k]
  OBVIOUS
<1>. HIDE DEF t, n
<1>2. ASSUME NEW k \in 1 .. n + 1
      PROVE  CountIn(t, c, j, k) = CountIn(s, c, j, k)
  <2>1. {i \in j + 1 .. k - 1 : t[i].command = c} = {i \in j + 1 .. k - 1 : s[i].command = c}
    BY <1>0, <1>1
  <2>. QED
    BY <2>1 DEF CountIn
<1>3. ASSUME j <= n
      PROVE  CountIn(t, c, j, n + 2) =
                 CountIn(s, c, j, n + 1) + (IF e.command = c THEN 1 ELSE 0)
  <2>. DEFINE old == {i \in j + 1 .. n : s[i].command = c}
              new == {i \in j + 1 .. n + 1 : t[i].command = c}
  <2>1. new = old \cup (IF e.command = c THEN {n + 1} ELSE {})
    BY <1>0, <1>1, <1>3
  <2>2. n + 1 \notin old
    BY <1>0, <1>1
  <2>3. IsFiniteSet(old) /\ Cardinality(old) \in Nat
    <3>1. IsFiniteSet(j + 1 .. n)
      BY <1>0, FS_Interval
    <3>. QED
      BY <3>1, FS_Subset, FS_CardinalityType
  <2>4. CountIn(t, c, j, n + 2) = Cardinality(new) /\ CountIn(s, c, j, n + 1) = Cardinality(old)
    BY <1>0 DEF CountIn
  <2>. HIDE DEF old, new
  <2>5. CASE e.command = c
    <3>1. new = old \cup {n + 1}
      BY <2>1, <2>5
    <3>2. Cardinality(new) = Cardinality(old) + 1
      BY <2>2, <2>3, <3>1, FS_AddElement
    <3>. QED
      BY <2>4, <2>5, <3>2
  <2>6. CASE e.command # c
    <3>1. new = old
      BY <2>1, <2>6
    <3>. QED
      BY <2>3, <2>4, <2>6, <3>1
  <2>. QED
    BY <2>5, <2>6
<1>4. ASSUME j = n + 1
      PROVE  CountIn(t, c, j, n + 2) = 0
  <2>1. \A k : CountIn(t, c, j, k) = Cardinality({i \in j + 1 .. k - 1 : t[i].command = c})
    BY DEF CountIn
  <2>2. {i \in j + 1 .. (n + 2) - 1 : t[i].command = c} = {}
    BY <1>0, <1>4
  <2>3. CountIn(t, c, j, n + 2) = Cardinality({})
    BY <2>1, <2>2
  <2>. QED
    BY <2>3, FS_EmptySet
<1>. QED
  BY <1>2, <1>3, <1>4 DEF t, n

\* So does the depth of the loops.
LEMMA DepthGrows ==
    ASSUME NEW s \in Seq(Instr), NEW e \in Instr, NEW j \in 1 .. Len(s) + 1
    PROVE  /\ \A k \in 1 .. Len(s) + 1 : Depth(Append(s, e), j, k) = Depth(s, j, k)
           /\ j <= Len(s) => Depth(Append(s, e), j, Len(s) + 2) =
                 Depth(s, j, Len(s) + 1) + (IF e.command = "LOOP" THEN 1
                                            ELSE IF e.command = "END_LOOP" THEN -1 ELSE 0)
           /\ j = Len(s) + 1 => Depth(Append(s, e), j, Len(s) + 2) = 0
           /\ Depth(s, j, Len(s) + 1) \in Int
<1>. DEFINE t == Append(s, e)
            n == Len(s)
<1>1. n + 1 \in Int
  OBVIOUS
<1>2. CountIn(s, "LOOP", j, n + 1) \in Nat /\ CountIn(s, "END_LOOP", j, n + 1) \in Nat
  BY <1>1, CountIsNat
<1>3. ASSUME j <= n
      PROVE  /\ CountIn(t, "LOOP", j, n + 2) =
                   CountIn(s, "LOOP", j, n + 1) + (IF e.command = "LOOP" THEN 1 ELSE 0)
             /\ CountIn(t, "END_LOOP", j, n + 2) =
                   CountIn(s, "END_LOOP", j, n + 1) + (IF e.command = "END_LOOP" THEN 1 ELSE 0)
  BY <1>3, CountGrows
<1>4. j = n + 1 => CountIn(t, "LOOP", j, n + 2) = 0 /\ CountIn(t, "END_LOOP", j, n + 2) = 0
  BY CountGrows, Zenon
<1>5. ASSUME NEW k \in 1 .. n + 1
      PROVE  /\ CountIn(t, "LOOP", j, k) = CountIn(s, "LOOP", j, k)
             /\ CountIn(t, "END_LOOP", j, k) = CountIn(s, "END_LOOP", j, k)
  BY CountGrows
<1>. QED
  BY <1>2, <1>3, <1>4, <1>5 DEF Depth

\* A LOOP is opened, an END_LOOP closes the one that was opened last, and the
\* other instructions leave the stack alone.
LEMMA StackSteps ==
    ASSUME Inv, NEW n, n = Len(answers), NEW top, top = Len(LoopStack)
    PROVE  /\ Current.command = "LOOP" =>
                 /\ Len(Stack) = top + 1 /\ Stack[top + 1] = n
                 /\ \A i \in 1 .. top : Stack[i] = LoopStack[i]
           /\ Current.command = "END_LOOP" /\ LoopStack # <<>> =>
                 /\ top >= 1 /\ Len(Stack) = top - 1
                 /\ \A i \in 1 .. top - 1 : Stack[i] = LoopStack[i]
           /\ Current.command \notin {"LOOP", "END_LOOP"} => Stack = LoopStack
           /\ Len(Stack) <= top + 1
<1>1. LoopStack \in Seq(0 .. MaxLines - 1) /\ n \in Nat
  BY DEF Inv, TypeInv
<1>2. CASE Current.command = "LOOP"
  BY <1>1, <1>2 DEF Stack
<1>3. CASE Current.command = "END_LOOP" /\ LoopStack # <<>>
  <2>1. Stack = SubSeq(LoopStack, 1, top - 1) /\ top \in Nat /\ top >= 1
    BY <1>1, <1>3 DEF Stack, Front
  <2>. QED
    BY <1>1, <1>3, <2>1
<1>4. CASE Current.command \notin {"LOOP", "END_LOOP"}
  BY <1>1, <1>4 DEF Stack
<1>5. CASE Current.command = "END_LOOP" /\ LoopStack = <<>>
  BY <1>1, <1>5 DEF Stack
<1>. QED
  BY <1>2, <1>3, <1>4, <1>5

\* What an END_LOOP has been sent stays right.
LEMMA MatchedStays ==
    ASSUME NEW s \in Seq(Instr), NEW e \in Instr, NEW t, t = Append(s, e),
           NEW n \in Nat, n = Len(s), NEW k \in 1 .. n, Matched(s, k)
    PROVE  Matched(t, k)
<1>1. \A i \in 1 .. n : t[i] = s[i]
  OBVIOUS
<1>2. ASSUME NEW j \in 1 .. k - 1 PROVE Depth(t, j, k) = Depth(s, j, k)
  <2>1. j \in 1 .. n + 1 /\ k \in 1 .. n + 1
    OBVIOUS
  <2>. QED
    BY <2>1, DepthGrows
<1>3. Opens(t, k) = Opens(s, k)
  BY <1>1, <1>2 DEF Opens
<1>. QED
  BY <1>1, <1>3 DEF Matched

\* An END_LOOP is sent the line of the LOOP that was opened last.
LEMMA MatchedTop ==
    ASSUME NEW s \in Seq(Instr), NEW e \in Instr, NEW t, t = Append(s, e),
           NEW n \in Nat, n = Len(s), NEW stack \in Seq(Nat), stack # <<>>,
           OpenLoops(s, stack), ClosedLoops(s, stack), e.data = Last(stack)
    PROVE  Matched(t, n + 1)
<1>. DEFINE top == Len(stack)
            p == stack[top] + 1
<1>1. top \in 1 .. Len(stack) /\ top \in Nat
  OBVIOUS
<1>2. stack[top] \in Nat /\ p \in 1 .. n /\ s[p].command = "LOOP" /\ Depth(s, p, n + 1) = 0
  BY <1>1, ElementOfSeq DEF OpenLoops
<1>3. /\ \A j \in 1 .. n : t[j] = s[j] /\ Depth(t, j, n + 1) = Depth(s, j, n + 1)
      /\ t[n + 1] = e
  <2>1. ASSUME NEW j \in 1 .. n PROVE Depth(t, j, n + 1) = Depth(s, j, n + 1)
    <3>1. j \in 1 .. Len(s) + 1 /\ n + 1 \in 1 .. Len(s) + 1
      OBVIOUS
    <3>. QED
      BY <3>1, DepthGrows
  <2>. QED
    BY <2>1
<1>4. Opens(t, n + 1) = {j \in 1 .. n : s[j].command = "LOOP" /\ Depth(s, j, n + 1) = 0}
  BY <1>3 DEF Opens
<1>5. p \in Opens(t, n + 1)
  BY <1>2, <1>4
<1>6. ASSUME NEW j \in Opens(t, n + 1) PROVE j <= p
  <2>1. j \in 1 .. n /\ s[j].command = "LOOP" /\ Depth(s, j, n + 1) = 0
    BY <1>4
  <2>2. CASE j \in Open(stack)
    <3>1. PICK i \in 1 .. Len(stack) : j = stack[i] + 1
      BY <2>2 DEF Open
    <3>2. Depth(s, j, n + 1) = Len(stack) - i
      BY <3>1 DEF OpenLoops
    <3>3. i = top
      BY <1>1, <2>1, <3>1, <3>2
    <3>. QED
      BY <2>1, <3>1, <3>3
  <2>3. CASE j \notin Open(stack)
    <3>1. SUFFICES ASSUME p < j PROVE FALSE
      BY <1>2, <2>1
    <3>2. Depth(s, j, n + 1) < Len(stack) - top
      BY <1>1, <2>1, <2>3, <3>1 DEF ClosedLoops
    <3>. QED
      BY <1>1, <2>1, <3>2
  <2>. QED
    BY <2>2, <2>3
<1>7. t[n + 1].data = p - 1
  BY <1>2, <1>3 DEF Last
<1>. HIDE DEF p
<1>. QED
  BY <1>5, <1>6, <1>7 DEF Matched

\* An instruction more: the stack keeps the LOOPs that are open.
LEMMA LoopsStep ==
    ASSUME Inv, NEW e \in Instr, sent' = Append(sent, e), LoopStack' = Stack,
           e.command = Current.command,
           e.command = "END_LOOP" => LoopStack # <<>> /\ e.data = Last(LoopStack)
    PROVE  Loops'
<1>. DEFINE n == Len(sent)
            top == Len(LoopStack)
<1>1. /\ sent \in Seq(Instr) /\ LoopStack \in Seq(Nat) /\ top \in Nat /\ n \in Nat
      /\ n = Len(answers)
      /\ OpenLoops(sent, LoopStack) /\ ClosedLoops(sent, LoopStack)
      /\ \A k \in 1 .. Len(sent) : sent[k].command = "END_LOOP" => Matched(sent, k)
  <2>1. sent \in Seq(Instr) /\ LoopStack \in Seq(0 .. MaxLines - 1) /\ Len(sent) = Len(answers)
    BY DEF Inv, TypeInv
  <2>2. LoopStack \in Seq(Nat)
    <3>1. 0 .. MaxLines - 1 \subseteq Nat
      OBVIOUS
    <3>. QED
      BY <2>1, <3>1, SeqWider
  <2>. QED
    BY <2>1, <2>2 DEF Inv, Loops
<1>2. /\ \A k \in 1 .. n : sent'[k] = sent[k]
      /\ sent'[n + 1] = e /\ Len(sent') = n + 1
  BY <1>1
<1>3. ASSUME NEW j \in 1 .. n
      PROVE  /\ Depth(sent', j, n + 2) =
                   Depth(sent, j, n + 1) + (IF e.command = "LOOP" THEN 1
                                            ELSE IF e.command = "END_LOOP" THEN -1 ELSE 0)
             /\ Depth(sent, j, n + 1) \in Int
  <2>1. j \in 1 .. Len(sent) + 1 /\ j <= Len(sent)
    BY <1>1
  <2>. QED
    BY <1>1, <2>1, DepthGrows
<1>4. Depth(sent', n + 1, n + 2) = 0
  BY <1>1, DepthGrows
<1>5. \A i \in 1 .. top : /\ LoopStack[i] \in Nat /\ LoopStack[i] + 1 \in 1 .. n
                          /\ sent[LoopStack[i] + 1].command = "LOOP"
                          /\ Depth(sent, LoopStack[i] + 1, n + 1) = top - i
  BY <1>1, ElementOfSeq DEF OpenLoops
<1>6. ASSUME NEW j \in 1 .. n, NEW i \in 0 .. top,
             sent[j].command = "LOOP", j \notin Open(LoopStack),
             i = 0 \/ LoopStack[i] + 1 < j
      PROVE  Depth(sent, j, n + 1) < top - i
  BY <1>1, <1>6 DEF ClosedLoops
<1>7. n + 2 = Len(sent') + 1
  BY <1>2, <1>1
<1>. HIDE DEF n, top
<1>8. ASSUME NEW k \in 1 .. Len(sent'), sent'[k].command = "END_LOOP"
      PROVE  Matched(sent', k)
  <2>1. CASE k \in 1 .. n
    <3>1. Matched(sent, k)
      BY <1>1, <1>2, <1>8, <2>1 DEF n
    <3>. QED
      BY <1>1, <2>1, <3>1, MatchedStays DEF n
  <2>2. CASE k = n + 1
    <3>1. LoopStack # <<>> /\ e.data = Last(LoopStack)
      BY <1>2, <1>8, <2>2
    <3>. QED
      BY <1>1, <2>2, <3>1, MatchedTop DEF n
  <2>. QED
    BY <1>1, <1>2, <2>1, <2>2
<1>9. OpenLoops(sent', LoopStack') /\ ClosedLoops(sent', LoopStack')
  <2>1. CASE e.command = "LOOP"
    <3>1. /\ Len(LoopStack') = top + 1 /\ LoopStack'[top + 1] = n
          /\ \A i \in 1 .. top : LoopStack'[i] = LoopStack[i]
      BY <1>1, <2>1, StackSteps DEF top
    <3>2. OpenLoops(sent', LoopStack')
      <4>1. SUFFICES ASSUME NEW i \in 1 .. top + 1
                     PROVE  /\ LoopStack'[i] + 1 \in 1 .. n + 1
                            /\ sent'[LoopStack'[i] + 1].command = "LOOP"
                            /\ Depth(sent', LoopStack'[i] + 1, n + 2) = top + 1 - i
        BY <1>1, <1>2, <1>7, <3>1 DEF OpenLoops
      <4>2. CASE i = top + 1
        BY <1>1, <1>2, <1>4, <2>1, <3>1, <4>2
      <4>3. CASE i \in 1 .. top
        <5>1. LoopStack[i] + 1 \in 1 .. n /\ LoopStack'[i] = LoopStack[i]
          BY <1>5, <3>1, <4>3
        <5>2. Depth(sent', LoopStack[i] + 1, n + 2) = top - i + 1
          BY <1>1, <1>3, <1>5, <2>1, <4>3, <5>1
        <5>. QED
          BY <1>1, <1>2, <1>5, <4>3, <5>1, <5>2
      <4>4. i = top + 1 \/ i \in 1 .. top
        BY <1>1
      <4>. QED
        BY <4>2, <4>3, <4>4
    <3>3. ClosedLoops(sent', LoopStack')
      <4>1. SUFFICES ASSUME NEW j \in 1 .. n + 1, NEW i \in 0 .. top + 1,
                            sent'[j].command = "LOOP", j \notin Open(LoopStack'),
                            i = 0 \/ LoopStack'[i] + 1 < j
                     PROVE  Depth(sent', j, n + 2) < top + 1 - i
        BY <1>1, <1>2, <1>7, <3>1 DEF ClosedLoops
      <4>2. j # n + 1
        <5>1. LoopStack'[top + 1] + 1 \in Open(LoopStack')
          BY <1>1, <3>1 DEF Open
        <5>. QED
          BY <3>1, <4>1, <5>1
      <4>3. j \in 1 .. n /\ i \in 0 .. top
        BY <1>1, <3>1, <4>1, <4>2
      <4>4. j \notin Open(LoopStack)
        BY <1>1, <3>1, <4>1 DEF Open, top
      <4>5. i = 0 \/ LoopStack[i] + 1 < j
        BY <1>1, <3>1, <4>1, <4>3
      <4>6. Depth(sent, j, n + 1) < top - i
        BY <1>2, <1>6, <4>1, <4>3, <4>4, <4>5
      <4>. QED
        BY <1>1, <1>3, <2>1, <4>3, <4>6
    <3>. QED
      BY <3>2, <3>3
  <2>2. CASE e.command = "END_LOOP"
    <3>1. /\ top >= 1 /\ Len(LoopStack') = top - 1
          /\ \A i \in 1 .. top - 1 : LoopStack'[i] = LoopStack[i]
      BY <1>1, <2>2, StackSteps DEF top
    <3>2. OpenLoops(sent', LoopStack')
      <4>1. SUFFICES ASSUME NEW i \in 1 .. top - 1
                     PROVE  /\ LoopStack'[i] + 1 \in 1 .. n + 1
                            /\ sent'[LoopStack'[i] + 1].command = "LOOP"
                            /\ Depth(sent', LoopStack'[i] + 1, n + 2) = top - 1 - i
        BY <1>2, <1>7, <3>1 DEF OpenLoops
      <4>2. i \in 1 .. top /\ LoopStack[i] + 1 \in 1 .. n /\ LoopStack'[i] = LoopStack[i]
        BY <1>1, <1>5, <3>1
      <4>3. Depth(sent', LoopStack[i] + 1, n + 2) = top - i - 1
        BY <1>1, <1>3, <1>5, <2>2, <4>2
      <4>. QED
        BY <1>1, <1>2, <1>5, <4>2, <4>3
    <3>3. ClosedLoops(sent', LoopStack')
      <4>1. SUFFICES ASSUME NEW j \in 1 .. n + 1, NEW i \in 0 .. top - 1,
                            sent'[j].command = "LOOP", j \notin Open(LoopStack'),
                            i = 0 \/ LoopStack'[i] + 1 < j
                     PROVE  Depth(sent', j, n + 2) < top - 1 - i
        BY <1>2, <1>7, <3>1 DEF ClosedLoops
      <4>2. j \in 1 .. n
        BY <1>1, <1>2, <2>2, <4>1
      <4>3. i = 0 \/ LoopStack[i] + 1 < j
        BY <1>1, <3>1, <4>1
      <4>4. Depth(sent, j, n + 1) < top - i
        <5>1. CASE j \notin Open(LoopStack)
          <6>1. i \in 0 .. top /\ sent[j].command = "LOOP"
            BY <1>1, <1>2, <4>1, <4>2
          <6>. QED
            BY <1>6, <4>2, <4>3, <5>1, <6>1
        <5>2. CASE j \in Open(LoopStack)
          <6>1. PICK m \in 1 .. top : j = LoopStack[m] + 1
            BY <5>2 DEF Open, top
          <6>2. m = top
            <7>1. SUFFICES ASSUME m \in 1 .. top - 1 PROVE FALSE
              BY <1>1
            <7>2. j \in Open(LoopStack')
              BY <3>1, <6>1, <7>1 DEF Open
            <7>. QED
              BY <4>1, <7>2
          <6>3. Depth(sent, j, n + 1) = 0
            BY <1>1, <1>5, <6>1, <6>2
          <6>. QED
            BY <1>1, <4>1, <6>3
        <5>. QED
          BY <5>1, <5>2
      <4>. QED
        BY <1>1, <1>3, <2>2, <4>2, <4>4
    <3>. QED
      BY <3>2, <3>3
  <2>3. CASE e.command \notin {"LOOP", "END_LOOP"}
    <3>1. LoopStack' = LoopStack
      BY <1>1, <2>3, StackSteps
    <3>2. \A j \in 1 .. n : Depth(sent', j, n + 2) = Depth(sent, j, n + 1)
      BY <1>3, <2>3
    <3>3. OpenLoops(sent', LoopStack')
      BY <1>1, <1>2, <1>5, <1>7, <3>1, <3>2 DEF OpenLoops, top
    <3>4. ClosedLoops(sent', LoopStack')
      <4>1. SUFFICES ASSUME NEW j \in 1 .. n + 1, NEW i \in 0 .. top,
                            sent'[j].command = "LOOP", j \notin Open(LoopStack),
                            i = 0 \/ LoopStack[i] + 1 < j
                     PROVE  Depth(sent', j, n + 2) < top - i
        BY <1>2, <1>7, <3>1 DEF ClosedLoops, top
      <4>2. j \in 1 .. n
        BY <1>1, <1>2, <2>3, <4>1
      <4>. QED
        BY <1>2, <1>6, <3>2, <4>1, <4>2
    <3>. QED
      BY <3>3, <3>4
  <2>. QED
    BY <2>1, <2>2, <2>3
<1>. QED
  BY <1>8, <1>9 DEF Loops

-----------------------------------------------------------------------------
(* Loading: the steps.                                                     *)

\* The file is opened, or it cannot be.
LEMMA InterpretInv ==
    ASSUME Inv, Interpret
    PROVE  Inv'
<1>1. /\ Forgotten /\ phase' \in {"line", "idle"} /\ result' \in {-1, 0}
      /\ loads' = loads + 1 /\ started' = started /\ num_instructions' = num_instructions
  BY DEF Interpret, board
<1>2. loads \in Nat /\ started \in BOOLEAN /\ num_instructions \in Nat
  BY DEF Inv, TypeInv
<1>. QED
  BY <1>1, <1>2, Emptied

\* The board is begun: a board that succeeds counts its instructions from 0.
LEMMA EndOfFileInv ==
    ASSUME Inv, EndOfFile
    PROVE  Inv'
<1>1. CASE Failed
  BY <1>1, FailedInv
<1>2. CASE /\ phase' = "loading"
           /\ \/ Started
              \/ started' = FALSE /\ num_instructions' \in {0, num_instructions}
           /\ Variables' = [v \in Var |-> Unset]
           /\ UNCHANGED <<line, ProgramLines, ahead, Labels>>
           /\ UNCHANGED <<LoopStack, answers, sent, result, loads>>
  <2>1. /\ phase = "line" /\ sent = <<>> /\ LoopStack = <<>> /\ Len(answers) = Len(sent)
        /\ num_instructions \in Nat
    BY DEF EndOfFile, Inv, TypeInv, ReadingPhases
  <2>2. Len(answers') = 0 /\ answers' = answers
    BY <1>2, <2>1
  <2>3. started' \in BOOLEAN /\ num_instructions' \in Nat /\ (started' => num_instructions' = 0)
    <3>1. CASE Started
      BY <3>1 DEF Started
    <3>2. CASE started' = FALSE /\ num_instructions' \in {0, num_instructions}
      <4>1. num_instructions' \in Nat
        BY <2>1, <3>2
      <4>. QED
        BY <3>2, <4>1
    <3>. QED
      BY <1>2, <3>1, <3>2
  <2>4. Addresses'
    BY <1>2, <2>2, <2>3 DEF Addresses, Loaded
  <2>5. Variables' \in [Var -> VarValues \cup {Unset}]
    BY <1>2
  <2>6. LineRead'
    BY <1>2, <2>1 DEF Inv, TypeInv, LineRead
  <2>7. TypeInv'
    BY <1>2, <2>3, <2>5, <2>6 DEF Inv, TypeInv, Phases, ReadingPhases
  <2>8. Marks' /\ Jumps' /\ Loops'
    BY <1>2, <2>1, NothingSent DEF Inv, Marks
  <2>. QED
    BY <2>4, <2>7, <2>8 DEF Inv
<1>. QED
  BY <1>1, <1>2 DEF EndOfFile

\* A line is loaded, or the loading is given up.
LEMMA LoadLineInv ==
    ASSUME Inv, LoadLine
    PROVE  Inv'
<1>1. phase = "loading" /\ Len(answers) < Len(ProgramLines)
  BY DEF LoadLine
<1>2. CASE Abandoned
  <2>1. loads \in Nat /\ num_instructions \in Nat
    BY DEF Inv, TypeInv
  <2>. QED
    BY <1>2, <2>1, Emptied DEF Abandoned
<1>3. CASE /\ Accepted
           /\ answers' = Append(answers, num_instructions)
           /\ num_instructions' = num_instructions + 1
           /\ sent' = Append(sent, [command |-> Current.command, data |-> Data])
           /\ LoopStack' = Stack
           /\ UNCHANGED <<phase, file, result, started, loads>>
  <2>. DEFINE e == [command |-> Current.command, data |-> Data]
              n == Len(sent)
  <2>1. /\ n \in Nat /\ Len(answers) = n /\ n + 1 \in 1 .. Len(ProgramLines)
        /\ Current = ProgramLines[n + 1] /\ Current \in ProgramLine
    BY <1>1, CurrentLine
  <2>2. /\ answers \in Seq(Nat) /\ sent \in Seq(Instr) /\ num_instructions \in Nat
        /\ Len(ProgramLines) \in Nat
    BY DEF Inv, TypeInv
  <2>3. e \in Instr
    <3>1. Data \in 0 .. MaxLines + 7
      BY <1>1, <1>3, DataType
    <3>. QED
      BY <2>1, <3>1 DEF Instr, ProgramLine
  <2>4. /\ sent' = Append(sent, e) /\ e.command = Current.command /\ e.data = Data
        /\ UNCHANGED <<phase, line, ProgramLines, ahead, Labels, Variables, result, started, loads>>
    BY <1>3 DEF file
  <2>. HIDE DEF e, n
  <2>5. /\ sent' \in Seq(Instr) /\ Len(sent') = n + 1 /\ sent'[n + 1] = e
        /\ \A k \in 1 .. n : sent'[k] = sent[k]
        /\ answers' \in Seq(Nat) /\ Len(answers') = n + 1
        /\ answers'[n + 1] = num_instructions
        /\ \A k \in 1 .. n : answers'[k] = answers[k]
    BY <1>3, <2>1, <2>2, <2>3, <2>4 DEF n
  <2>6. \A k \in 1 .. n + 1 : k \in 1 .. n \/ k = n + 1
    BY <2>1
  <2>7. TypeInv'
    <3>1. LoopStack' \in Seq(0 .. MaxLines - 1) /\ Len(LoopStack') <= n + 1
      <4>1. LoopStack \in Seq(0 .. MaxLines - 1) /\ Len(LoopStack) <= n
        BY DEF Inv, TypeInv, n
      <4>2. Len(Stack) <= n + 1
        <5>1. Len(Stack) <= Len(LoopStack) + 1
          BY StackSteps, Zenon
        <5>2. Len(Stack) \in Nat /\ Len(LoopStack) \in Nat
          BY <1>1, <4>1, StackType
        <5>. QED
          BY <2>1, <4>1, <5>1, <5>2
      <4>. QED
        BY <1>1, <1>3, <4>2, StackType
    <3>2. \A k \in 1 .. n + 1 : sent'[k].command = ProgramLines[k].command
      <4>1. \A k \in 1 .. n : sent[k].command = ProgramLines[k].command
        BY DEF Inv, TypeInv, n
      <4>. QED
        BY <2>1, <2>4, <2>5, <2>6, <4>1
    <3>3. n + 1 <= Len(ProgramLines) /\ num_instructions' \in Nat
      BY <1>3, <2>1, <2>2
    <3>4. LineRead'
      BY <2>4 DEF Inv, TypeInv, LineRead
    <3>. QED
      BY <1>1, <2>4, <2>5, <3>1, <3>2, <3>3, <3>4 DEF Inv, TypeInv, ReadingPhases
  <2>8. Marks'
    BY <2>4 DEF Inv, Marks
  <2>9. Jumps'
    <3>1. ASSUME NEW k \in 1 .. n + 1, sent'[k].command = "BRANCH"
          PROVE  \E i \in 1 .. Len(Labels) :
                    Labels[i].name = ProgramLines[k].data /\ Labels[i].line = sent'[k].data
      <4>1. CASE k \in 1 .. n
        BY <2>5, <3>1, <4>1 DEF Inv, Jumps, n
      <4>2. CASE k = n + 1
        <5>1. Current.command = "BRANCH" /\ Data = Marked(Current.data) /\ Data # -1
          BY <1>3, <2>4, <2>5, <3>1, <4>2 DEF Data, Accepted
        <5>2. \E i \in 1 .. Len(Labels) :
                Labels[i].name = Current.data /\ Labels[i].line = Marked(Current.data)
          BY <5>1, MarkedLabel DEF Inv
        <5>. QED
          BY <2>1, <2>4, <2>5, <4>2, <5>1, <5>2
      <4>. QED
        BY <2>6, <4>1, <4>2
    <3>. QED
      BY <2>4, <2>5, <3>1 DEF Jumps
  <2>10. Addresses'
    <3>1. started' = started
      BY <2>4
    <3>2. ASSUME started
          PROVE  /\ \A k \in 1 .. n + 1 : answers'[k] = k - 1
                 /\ num_instructions' = n + 1
      <4>1. num_instructions = n /\ \A k \in 1 .. n : answers[k] = k - 1
        BY <1>1, <2>1, <3>2 DEF Inv, Addresses, n
      <4>. QED
        BY <1>3, <2>1, <2>5, <2>6, <4>1
    <3>. QED
      BY <1>1, <2>4, <2>5, <3>1, <3>2 DEF Addresses, Loaded
  <2>11. Loops'
    <3>1. e.command = "END_LOOP" => LoopStack # <<>> /\ e.data = Last(LoopStack)
      BY <1>3, <2>4 DEF Accepted, Data
    <3>. QED
      BY <1>3, <2>3, <2>4, <3>1, LoopsStep
  <2>. QED
    BY <2>7, <2>8, <2>9, <2>10, <2>11 DEF Inv
<1>. QED
  BY <1>2, <1>3 DEF LoadLine

\* The last line has been loaded.
LEMMA FinishInv ==
    ASSUME Inv, Finish
    PROVE  Inv'
<1>1. /\ phase = "loading" /\ phase' = "idle" /\ result' = 1
      /\ Len(answers) = Len(ProgramLines)
      /\ UNCHANGED <<line, ProgramLines, ahead, Labels, Variables, LoopStack, answers, sent,
                     started, num_instructions, loads>>
  BY DEF Finish, file
<1>2. Addresses'
  BY <1>1 DEF Inv, Addresses, Loaded
<1>3. LineRead'
  BY <1>1 DEF Inv, TypeInv, LineRead
<1>4. TypeInv'
  BY <1>1, <1>3 DEF Inv, TypeInv, Phases, ReadingPhases
<1>5. Marks' /\ Jumps' /\ Loops'
  BY <1>1 DEF Inv, Marks, Jumps, Loops
<1>. QED
  BY <1>2, <1>4, <1>5 DEF Inv

LEMMA StutterInv ==
    ASSUME Inv, UNCHANGED vars
    PROVE  Inv'
<1>1. UNCHANGED <<phase, line, ProgramLines, ahead, Labels, Variables, LoopStack, answers, sent,
                  result, started, num_instructions, loads>>
  BY DEF vars, file, board
<1>2. TypeInv' /\ Addresses'
  BY <1>1 DEF Inv, TypeInv, LineRead, Addresses, Loaded
<1>. QED
  BY <1>1, <1>2 DEF Inv, Marks, Jumps, Loops

LEMMA NextInv ==
    ASSUME Inv, [Next]_vars
    PROVE  Inv'
BY InterpretInv, ReadLabelInv, ReadAssignmentInv, ReadStopInv, ReadOutputInv, ReadTimeInv,
   ReadCommandInv, ReadDataInv, FailedInv, EndOfFileInv, LoadLineInv, FinishInv, StutterInv
   DEF Next, ReadMalformed

-----------------------------------------------------------------------------
(* The theorems.                                                           *)

LEMMA InitInv == Init => Inv
<1>. SUFFICES ASSUME Init PROVE Inv
  OBVIOUS
<1>1. /\ phase = "idle" /\ line = NoLine /\ ProgramLines = <<>> /\ ahead = {} /\ Labels = <<>>
      /\ Variables = [v \in Var |-> Unset]
      /\ LoopStack = <<>> /\ answers = <<>> /\ sent = <<>>
      /\ result = -1 /\ started = FALSE /\ num_instructions = 0 /\ loads = 0
  BY DEF Init
<1>2. LineRead
  BY <1>1 DEF LineRead, NoLine, Word, Commands
<1>3. Variables \in [Var -> VarValues \cup {Unset}]
  BY <1>1
<1>4. /\ Len(<<>>) = 0 /\ MaxLines \in Nat \ {0}
      /\ <<>> \in Seq(ProgramLine) /\ <<>> \in Seq([name : Name, line : 0 .. MaxLines])
      /\ <<>> \in Seq(0 .. MaxLines - 1) /\ <<>> \in Seq(Nat) /\ <<>> \in Seq(Instr)
  BY InterpreterAssumption
<1>5. TypeInv
  <2>1. started \in BOOLEAN /\ result \in {-1, 0, 1} /\ num_instructions \in Nat /\ loads \in Nat
    BY <1>1
  <2>2. \A k \in 1 .. Len(sent) : sent[k].command = ProgramLines[k].command
    BY <1>1, <1>4
  <2>3. phase \in Phases /\ phase \notin {"time", "command", "data"}
    BY <1>1 DEF Phases
  <2>4. Len(ProgramLines) <= MaxLines /\ Len(sent) = Len(answers)
        /\ Len(sent) <= Len(ProgramLines) /\ Len(LoopStack) <= Len(sent)
    BY <1>1, <1>4
  <2>5. /\ ProgramLines \in Seq(ProgramLine) /\ ahead \in SUBSET Name
        /\ Labels \in Seq([name : Name, line : 0 .. MaxLines])
        /\ LoopStack \in Seq(0 .. MaxLines - 1) /\ answers \in Seq(Nat) /\ sent \in Seq(Instr)
        /\ sent = <<>> /\ LoopStack = <<>>
    BY <1>1, <1>4
  <2>. QED
    BY <1>2, <1>3, <2>1, <2>2, <2>3, <2>4, <2>5 DEF TypeInv
<1>6. Marks /\ Jumps /\ Addresses
  BY <1>1, <1>4 DEF Marks, Jumps, Addresses, Loaded
<1>7. Loops
  BY <1>1, <1>4 DEF Loops, OpenLoops, ClosedLoops
<1>. QED
  BY <1>5, <1>6, <1>7 DEF Inv

LEMMA Invariance == Spec => []Inv
BY InitInv, NextInv, PTL DEF Spec

\* TypeOK: the board is sent lines of the program and nothing else (Interpret,
\* interpreter.cpp), every jump and every END_LOOP with a target.
THEOREM InterpreterTypes == Spec => []TypeOK
<1>1. Inv => TypeOK
  <2>1. SUFFICES ASSUME TypeInv, OpenLoops(sent, LoopStack) PROVE TypeOK
    BY DEF Inv, Loops
  <2>2. /\ sent \in Seq(Instr) /\ Len(sent) = Len(answers) /\ result \in {-1, 0, 1}
        /\ \A k \in 1 .. Len(sent) : sent[k].command = ProgramLines[k].command
        /\ LoopStack \in Seq(0 .. MaxLines - 1)
    BY <2>1 DEF TypeInv
  <2>3. ASSUME NEW k \in DOMAIN sent
        PROVE  /\ sent[k].command = ProgramLines[k].command
               /\ sent[k].data \in 0 .. MaxLines + 7
    <3>1. k \in 1 .. Len(sent)
      BY <2>2, <2>3
    <3>2. sent[k] \in Instr
      BY <2>2, <3>1, ElementOfSeq
    <3>. QED
      BY <2>2, <3>1, <3>2 DEF Instr
  <2>4. Len(LoopStack) <= Len(sent)
    BY <2>1 DEF TypeInv
  <2>. QED
    BY <2>2, <2>3, <2>4 DEF TypeOK
<1>. QED
  BY <1>1, Invariance, PTL

\* LoadedWhole: of a program that is said to be in the board every line has been
\* answered with its own address, unless the board had not started.
THEOREM ProgramLoadedWhole ==
    ASSUME "start" \in Voids
    PROVE  Spec => []LoadedWhole
<1>1. Inv => LoadedWhole
  <2>1. SUFFICES ASSUME Inv, Loaded, started
                 PROVE  answers = [k \in DOMAIN ProgramLines |-> k - 1]
    BY DEF LoadedWhole, Excused
  <2>2. /\ answers \in Seq(Nat) /\ ProgramLines \in Seq(ProgramLine)
        /\ Len(answers) = Len(ProgramLines)
        /\ \A k \in 1 .. Len(answers) : answers[k] = k - 1
    BY <2>1 DEF Inv, TypeInv, Addresses
  <2>3. DOMAIN ProgramLines = 1 .. Len(answers)
        /\ answers \in [1 .. Len(answers) -> Nat]
    BY <2>2, LenProperties
  <2>. QED
    BY <2>2, <2>3
<1>. QED
  BY <1>1, Invariance, PTL

\* JumpsLand: a BRANCH of a loaded program leads to the address of a line with
\* the label that it names, unless the label stands after the last line.
THEOREM JumpsFindLabels ==
    ASSUME "start" \in Voids, "past" \in Voids
    PROVE  Spec => []JumpsLand
<1>1. Inv => JumpsLand
  <2>1. SUFFICES ASSUME Inv, Loaded, started, NEW k \in DOMAIN sent,
                        sent[k].command = "BRANCH"
                 PROVE  \/ \E j \in DOMAIN ProgramLines :
                              /\ ProgramLines[k].data \in ProgramLines[j].labels
                              /\ sent[k].data = answers[j]
                        \/ ProgramLines[k].data \in ahead
    BY DEF JumpsLand, Excused
  <2>2. /\ sent \in Seq(Instr) /\ ProgramLines \in Seq(ProgramLine)
        /\ Labels \in Seq([name : Name, line : 0 .. MaxLines])
        /\ Len(answers) = Len(ProgramLines) /\ MaxLines \in Nat
        /\ \A j \in 1 .. Len(answers) : answers[j] = j - 1
        /\ k \in 1 .. Len(sent)
    BY <2>1, InterpreterAssumption DEF Inv, TypeInv, Addresses
  <2>3. PICK i \in 1 .. Len(Labels) :
            Labels[i].name = ProgramLines[k].data /\ Labels[i].line = sent[k].data
    BY <2>1, <2>2 DEF Inv, Jumps
  <2>4. Labels[i].line \in Nat
    <3>1. Labels[i] \in [name : Name, line : 0 .. MaxLines]
      BY <2>2, ElementOfSeq
    <3>. QED
      BY <2>2, <3>1
  <2>5. CASE Labels[i].line = Len(ProgramLines) /\ Labels[i].name \in ahead
    BY <2>3, <2>5
  <2>6. CASE /\ Labels[i].line < Len(ProgramLines)
             /\ Labels[i].name \in ProgramLines[Labels[i].line + 1].labels
    <3>1. Labels[i].line + 1 \in 1 .. Len(ProgramLines)
      BY <2>2, <2>4, <2>6
    <3>2. answers[Labels[i].line + 1] = sent[k].data
      BY <2>2, <2>3, <2>4, <3>1
    <3>. QED
      BY <2>2, <2>3, <2>6, <3>1, <3>2
  <2>. QED
    BY <2>1, <2>5, <2>6 DEF Inv, Marks
<1>. QED
  BY <1>1, Invariance, PTL

\* LoopsMatch: an END_LOOP of a loaded program leads back to the address of the
\* LOOP that it closes, however deep the loops are nested.
THEOREM LoopsAreMatched ==
    ASSUME "start" \in Voids
    PROVE  Spec => []LoopsMatch
<1>1. Inv => LoopsMatch
  <2>1. SUFFICES ASSUME Inv, Loaded, started, NEW k \in DOMAIN sent,
                        sent[k].command = "END_LOOP"
                 PROVE  LET opens == {j \in 1 .. k - 1 :
                                        /\ sent[j].command = "LOOP"
                                        /\ Count("LOOP", j, k) = Count("END_LOOP", j, k)}
                        IN  /\ opens # {}
                            /\ \E j \in opens : (\A i \in opens : i <= j)
                                               /\ sent[k].data = answers[j]
    BY DEF LoopsMatch, Excused
  <2>2. /\ sent \in Seq(Instr) /\ Len(answers) = Len(sent)
        /\ \A j \in 1 .. Len(answers) : answers[j] = j - 1
    BY <2>1 DEF Inv, TypeInv, Addresses
  <2>3. k \in 1 .. Len(sent) /\ Len(sent) \in Nat
    BY <2>1, <2>2
  <2>4. PICK j \in Opens(sent, k) : (\A i \in Opens(sent, k) : i <= j) /\ sent[k].data = j - 1
    BY <2>1, <2>3 DEF Inv, Loops, Matched
  <2>5. ASSUME NEW i \in 1 .. k - 1
        PROVE  Count("LOOP", i, k) = Count("END_LOOP", i, k) <=> Depth(sent, i, k) = 0
    <3>1. Count("LOOP", i, k) = CountIn(sent, "LOOP", i, k)
          /\ Count("END_LOOP", i, k) = CountIn(sent, "END_LOOP", i, k)
      BY DEF Count, CountIn
    <3>2. CountIn(sent, "LOOP", i, k) \in Nat /\ CountIn(sent, "END_LOOP", i, k) \in Nat
      BY <2>3, CountIsNat
    <3>. QED
      BY <3>1, <3>2 DEF Depth
  <2>6. Opens(sent, k) = {i \in 1 .. k - 1 :
            /\ sent[i].command = "LOOP"
            /\ Count("LOOP", i, k) = Count("END_LOOP", i, k)}
    BY <2>5 DEF Opens
  <2>7. answers[j] = j - 1
    BY <2>2, <2>3, <2>4 DEF Opens
  <2>. QED
    BY <2>4, <2>6, <2>7
<1>. QED
  BY <1>1, Invariance, PTL

=============================================================================

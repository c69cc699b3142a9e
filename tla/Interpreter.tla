-------------------------------- MODULE Interpreter --------------------------------
(***************************************************************************)
(* The PulseBlaster Interpreter (interpreter.cpp): Interpret reads a pulse *)
(* program from a file, token by token, and then loads it into the board   *)
(* line by line.  The file is whatever the reader comes upon; of the words *)
(* in it only what they are good for matters (BRANCH stands for JSR, too,  *)
(* CONTINUE for the commands without a rule).  The library is seen through *)
(* its promises: an instruction is answered with its address, and          *)
(* num_instructions outlives the sessions (the GUI loads many programs).   *)
(***************************************************************************)
EXTENDS Integers, Sequences, FiniteSets, SequencesExt

CONSTANTS
    Name,          \* identifiers that are no commands
    Var,           \* names of variables
    VarValues,     \* bound: the words that variables are set to
    MaxLines,      \* bound: program lines of a file
    MaxLabels,     \* bound: labels of a file
    MaxLoads,      \* bound: files that are loaded
    Voids          \* the hazards that excuse a loaded program

Commands == {"BRANCH", "CONTINUE", "STOP", "LOOP", "END_LOOP"}
Numbers == {"7", "7US", "0X7"}

ASSUME InterpreterAssumption ==
    /\ Name \cap (Commands \cup Numbers) = {}
    /\ VarValues \subseteq Name \cup Commands \cup Numbers
    /\ MaxLines \in Nat \ {0} /\ MaxLabels \in Nat /\ MaxLoads \in Nat
    /\ Voids \subseteq {"past", "start"}

VARIABLES
    phase,             \* "idle", what the reader expects next, or "loading"
    line,              \* ProgramLine: the line being read
    ProgramLines,      \* ... and those read, with the labels in front of them
    ahead,             \* the labels in front of the next one
    Labels, Variables,
    LoopStack,
    answers, sent,     \* the instructions acknowledged: their addresses, what they do
    result,            \* of the last Interpret; -1 before
    started,           \* pb_start_programming succeeded
    num_instructions,
    loads              \* the files so far

file == <<line, ProgramLines, ahead, Labels, Variables>>
board == <<started, num_instructions>>
vars == <<phase, file, LoopStack, answers, sent, result, board, loads>>

NoLine == [fits |-> FALSE, command |-> "CONTINUE", data |-> 0, labels |-> {}]
Unset == "unset"

-----------------------------------------------------------------------------
(* Words.                                                                  *)

Token == [type : {"Identifier"}, value : Name \cup Commands]
         \cup [type : {"Numeric"}, value : Numbers]
         \cup [type : {"Variable"}, value : Var]

\* A variable stands for its value, which then passes for the type that is
\* expected, whatever it is.
Known(t) == t.type = "Variable" => Variables[t.value] # Unset
Resolved(t, type) ==
    IF t.type = "Variable" THEN [type |-> type, value |-> Variables[t.value]] ELSE t

\* A number in one of the forms of an output; digits and a unit that exists,
\* digits with no unit at all; and what atoi makes of a word.
IsOutput(v) == v \in {"7", "0X7"}
IsTime(v) == v = "7US"
HasUnit(v) == v # "7"
Atoi(v) == IF v \in {"7", "7US"} THEN 7 ELSE 0

-----------------------------------------------------------------------------
(* Reading.                                                                *)

Reading(next) ==
    /\ phase' = next
    /\ UNCHANGED <<LoopStack, answers, sent, result, board, loads>>

Forgotten ==
    /\ line' = NoLine /\ ProgramLines' = <<>> /\ ahead' = {} /\ Labels' = <<>>
    /\ Variables' = [v \in Var |-> Unset]
    /\ LoopStack' = <<>> /\ answers' = <<>> /\ sent' = <<>>

\* The file is opened, or it cannot be.
Interpret ==
    /\ phase = "idle" /\ loads < MaxLoads
    /\ loads' = loads + 1
    /\ Forgotten
    /\ \/ phase' = "line" /\ result' = -1
       \/ phase' = "idle" /\ result' = 0
    /\ UNCHANGED board

\* An error ends it before the board is touched.
Failed ==
    /\ phase' = "idle" /\ result' = 0 /\ Forgotten
    /\ UNCHANGED <<board, loads>>

\* A label that marks the line before it.
LineBefore == IF ProgramLines = <<>> THEN 0 ELSE Len(ProgramLines) - 1

\* programLineNum: a label marks the line that is read next.
LineHere == Len(ProgramLines)

ReadLabel ==
    /\ phase = "line" /\ Len(Labels) < MaxLabels
    /\ \E name \in Name :
        /\ Labels' = Append(Labels, [name |-> name, line |-> LineHere])
        /\ ahead' = ahead \cup {name}
    /\ Reading("line")
    /\ UNCHANGED <<line, ProgramLines, Variables>>

ReadAssignment ==
    /\ phase = "line"
    /\ \E v \in Var, w \in VarValues : Variables' = [Variables EXCEPT ![v] = w]
    /\ Reading("line")
    /\ UNCHANGED <<line, ProgramLines, ahead, Labels>>

\* A line that cannot be loaded is not told from another one.
Push(l) ==
    /\ ProgramLines' =
           Append(ProgramLines, [(IF l.fits THEN l ELSE NoLine) EXCEPT !.labels = ahead])
    /\ ahead' = {}
    /\ UNCHANGED <<Labels, Variables>>

\* STOP alone needs no output and no time.
ReadStop ==
    /\ phase = "line" /\ Len(ProgramLines) < MaxLines
    /\ Push([NoLine EXCEPT !.fits = TRUE, !.command = "STOP"])
    /\ Reading("line") /\ UNCHANGED line

ReadOutput ==
    /\ phase = "line" /\ Len(ProgramLines) < MaxLines
    /\ \E t \in Token :
        /\ t.type # "Identifier"
        /\ IF Known(t)
           THEN /\ line' = [NoLine EXCEPT !.fits = IsOutput(Resolved(t, "Numeric").value)]
                /\ UNCHANGED <<ProgramLines, ahead, Labels, Variables>> /\ Reading("time")
           ELSE Failed

\* The line may end after the time, and continues then with the next.
ReadTime ==
    /\ phase = "time"
    /\ \E t \in Token, last \in BOOLEAN :
        LET time == Resolved(t, "Numeric")
            read == [line EXCEPT !.fits = @ /\ IsTime(time.value)]
        IN  IF Known(t) /\ time.type = "Numeric" /\ HasUnit(time.value)
            THEN IF last THEN Push(read) /\ line' = NoLine /\ Reading("line")
                 ELSE /\ line' = read /\ Reading("command")
                      /\ UNCHANGED <<ProgramLines, ahead, Labels, Variables>>
            ELSE Failed

\* BRANCH must go on, the others may.
ReadCommand ==
    /\ phase = "command"
    /\ \E t \in Token, last \in BOOLEAN :
        LET command == Resolved(t, "Identifier")
            read == [line EXCEPT !.fits = @ /\ command.value \in Commands,
                                 !.command = command.value]
        IN  IF Known(t) /\ command.type = "Identifier" /\ ~(last /\ command.value = "BRANCH")
            THEN IF last THEN Push(read) /\ line' = NoLine /\ Reading("line")
                 ELSE /\ line' = read /\ Reading("data")
                      /\ UNCHANGED <<ProgramLines, ahead, Labels, Variables>>
            ELSE Failed

\* A label for a jump, which marks a line only if it is a Name; for the others
\* anything, of which a number is made that matters to LOOP.
Meaning(command, v) ==
    CASE command = "BRANCH" -> IF v \in Name THEN v ELSE Unset
      [] command = "LOOP" -> Atoi(v)
      [] OTHER -> 0

ReadData ==
    /\ phase = "data"
    /\ \E t \in Token :
        LET jump == line.command = "BRANCH"
            data == Resolved(t, IF jump THEN "Identifier" ELSE "Numeric")
        IN  IF Known(t) /\ (jump => data.type = "Identifier")
            THEN /\ Push([line EXCEPT !.data = Meaning(line.command, data.value)])
                 /\ line' = NoLine /\ Reading("line")
            ELSE Failed

\* A character no token begins with, a comma or an end of line where there
\* should be none, or the other way round.
ReadMalformed == phase \in {"line", "time", "command", "data"} /\ Failed

-----------------------------------------------------------------------------
(* Loading.                                                                *)

\* A start that leaves num_instructions to run on.
StartedOn == started' = TRUE /\ UNCHANGED num_instructions

Started == started' = TRUE /\ num_instructions' = 0

\* pb_init, and pb_start_programming, whose result is not looked at: a board
\* that fails in it has cleared num_instructions or not.  The variables have
\* been used.
EndOfFile ==
    /\ phase = "line"
    /\ \/ Failed
       \/ /\ phase' = "loading"
          /\ \/ Started
             \/ started' = FALSE /\ num_instructions' \in {0, num_instructions}
          /\ Variables' = [v \in Var |-> Unset]
          /\ UNCHANGED <<line, ProgramLines, ahead, Labels>>
          /\ UNCHANGED <<LoopStack, answers, sent, result, loads>>

\* pb_stop_programming, pb_close and return 0.
Abandoned ==
    /\ phase' = "idle" /\ result' = 0 /\ Forgotten
    /\ started' = FALSE
    /\ UNCHANGED <<num_instructions, loads>>

Current == ProgramLines[Len(answers) + 1]

\* LoopStack: END_LOOP looks at the top and leaves it there.
StackKept ==
    IF Current.command = "LOOP" THEN Append(LoopStack, Len(answers)) ELSE LoopStack

Stack ==
    CASE Current.command = "LOOP" -> Append(LoopStack, Len(answers))
      [] Current.command = "END_LOOP" /\ LoopStack # <<>> -> Front(LoopStack)
      [] OTHER -> LoopStack

\* The last of the labels with the name, or -1.
Marked(name) ==
    LET last == SelectLastInSeq(Labels, LAMBDA l : l.name = name)
    IN  IF last = 0 THEN -1 ELSE Labels[last].line

Data ==
    CASE Current.command = "BRANCH" -> Marked(Current.data)
      [] Current.command = "END_LOOP" -> IF LoopStack = <<>> THEN -1 ELSE Last(LoopStack)
      [] OTHER -> Current.data

\* Whatever is found is sent.
AnyAccepted == Current.fits

\* What the interpreter checks of a line before it sends it.
Accepted ==
    /\ Current.fits
    /\ Current.command \in {"BRANCH", "END_LOOP"} => Data # -1

\* pb_inst refuses a LOOP of no turns, and any instruction may fail.
LoadLine ==
    /\ phase = "loading" /\ Len(answers) < Len(ProgramLines)
    /\ \/ /\ Accepted /\ (Current.command = "LOOP" => Data >= 1)
          /\ answers' = Append(answers, num_instructions)
          /\ num_instructions' = num_instructions + 1
          /\ sent' = Append(sent, [command |-> Current.command, data |-> Data])
          /\ LoopStack' = Stack
          /\ UNCHANGED <<phase, file, result, started, loads>>
       \/ Abandoned

\* pb_stop_programming, pb_close and "Board programmed successfully."
Finish ==
    /\ phase = "loading" /\ Len(answers) = Len(ProgramLines)
    /\ phase' = "idle" /\ result' = 1
    /\ UNCHANGED <<file, LoopStack, answers, sent, started, num_instructions, loads>>

-----------------------------------------------------------------------------
Init ==
    /\ phase = "idle" /\ line = NoLine /\ ProgramLines = <<>> /\ ahead = {} /\ Labels = <<>>
    /\ Variables = [v \in Var |-> Unset]
    /\ LoopStack = <<>> /\ answers = <<>> /\ sent = <<>>
    /\ result = -1 /\ started = FALSE /\ num_instructions = 0
    /\ loads = 0

Next ==
    \/ Interpret
    \/ ReadLabel \/ ReadAssignment \/ ReadStop
    \/ ReadOutput \/ ReadTime \/ ReadCommand \/ ReadData \/ ReadMalformed
    \/ EndOfFile \/ LoadLine \/ Finish

Spec == Init /\ [][Next]_vars

-----------------------------------------------------------------------------
(* Properties.                                                             *)

\* The board is sent lines of the program and nothing else: every jump and
\* every END_LOOP has found its target.
TypeOK ==
    /\ \A k \in DOMAIN sent :
        /\ sent[k].command = ProgramLines[k].command
        /\ sent[k].data \in 0 .. MaxLines + 7
    /\ Len(sent) = Len(answers) /\ Len(LoopStack) <= Len(sent)
    /\ result \in {-1, 0, 1}

Loaded == phase = "idle" /\ result = 1
Excused == "start" \in Voids /\ ~started

\* "Board programmed successfully." (interpreter.cpp) is said only of a program
\* of which every line is in the board, the first at address 0, where it starts.
LoadedWhole == (Loaded /\ ~Excused) => answers = [k \in DOMAIN ProgramLines |-> k - 1]

\* A jump of a loaded program leads to the instruction of a line with the label
\* that it names (interpreter.cpp counts lines, the board instructions).
JumpsLand ==
    (Loaded /\ ~Excused) =>
        \A k \in DOMAIN sent :
            sent[k].command = "BRANCH" =>
                \/ \E j \in DOMAIN ProgramLines :
                      /\ ProgramLines[k].data \in ProgramLines[j].labels
                      /\ sent[k].data = answers[j]
                \/ "past" \in Voids /\ ProgramLines[k].data \in ahead

\* An END_LOOP of a loaded program leads back to the LOOP that it closes: the
\* nearest one with as many END_LOOPs as LOOPs in between.
Count(command, j, k) == Cardinality({i \in j + 1 .. k - 1 : sent[i].command = command})

LoopsMatch ==
    (Loaded /\ ~Excused) =>
        \A k \in DOMAIN sent :
            sent[k].command = "END_LOOP" =>
                LET opens == {j \in 1 .. k - 1 : /\ sent[j].command = "LOOP"
                                                 /\ Count("LOOP", j, k) = Count("END_LOOP", j, k)}
                IN  /\ opens # {}
                    /\ \E j \in opens : (\A i \in opens : i <= j) /\ sent[k].data = answers[j]

=============================================================================

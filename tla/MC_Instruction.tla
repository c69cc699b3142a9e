----------------------------- MODULE MC_Instruction -----------------------------
(* Every board, every bit of every operand on its own, and all at once. *)
EXTENDS Instruction

\* The enabling operands are 0 or 1, and a shape select is one of 8.
Enables == {"txen", "rxen", "rst", "trig", "real", "imag", "swap", "txen1", "rst1"}
Values(f) ==
    IF f \in Enables THEN {{0}}
    ELSE IF f \in {"shape", "shape1"} THEN {{0}, {1}, {2}, {0, 1, 2}}
    ELSE {{i} : i \in 0 .. 11} \cup {0 .. 31, {0, 1, 2}}

MCOperands ==
    {[f \in Field |-> {}]}
    \cup UNION {{[f \in Field |-> IF f = g THEN v ELSE {}] : v \in Values(g)} : g \in Field}
    \cup {[f \in Field |-> {0}],
          [f \in Field |-> IF f \in {"shape", "shape1"} THEN {0, 1, 2} ELSE {0}]}

MCFlagWords == {{}, {0, 1}} \cup {{i} : i \in 0 .. 63}

At(inst, data, length) == [inst |-> inst, data |-> data, length |-> length]
MCUsual == At("CONTINUE", 0, 20)
MCTimings ==
    {At("CONTINUE", 0, l) : l \in 0 .. 150}
    \cup {At(i, n, 20) : i \in Inst \ {"STOP"}, n \in -1 .. 10}
    \cup {At("STOP", 0, l) : l \in 0 .. 150}

MCBoards == DOMAIN Caps
MCWide == {"rp10_19"}

=============================================================================

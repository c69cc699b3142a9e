---------------------------- MODULE MC_Programming ----------------------------
(* Instances of Programming: two boards of different families, or two of one. *)
EXTENDS Programming, TLC

CONSTANTS b1, b2

Pair(f, g) == [b \in {b1, b2} |-> IF b = b1 THEN f ELSE g]

MCMachines == {Pair("oldpb", "pcie"), Pair("pcie", "usb2"), Pair("extreg", "pcie")}
MCTwoPcie == {Pair("pcie", "pcie")}
MCOneUsb2 == {Pair("usb2", "pcie")}

\* Frequencies and phases differ in little but the calls that set them, and any
\* call may be made whatever is being programmed.
MCDevices ==
    [oldpb  |-> {"PULSE_PROGRAM", "FREQ_REGS"},
     extreg |-> {"PULSE_PROGRAM", "TX_PHASE_REGS"},
     pcie   |-> {"PULSE_PROGRAM", "FREQ_REGS"},
     usb2   |-> {"PULSE_PROGRAM", "TX_PHASE_REGS"}]

\* Two instructions, one register.
MCSize == [f \in File |-> IF f = Program THEN 2 ELSE 1]

\* Nothing tells one datum from another.
MCSymmetry == Permutations(Datum)

=============================================================================

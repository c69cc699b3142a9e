------------------------------- MODULE MC_ShapeRegs -------------------------------
EXTENDS ShapeRegs, TLC

CONSTANTS b1, b2

Pair(f, g) == [b \in {b1, b2} |-> IF b = b1 THEN f ELSE g]

MCKinds == {Pair("reg", "reg"), Pair("reg", "dds2"), Pair("dds1", "dds2"), Pair("reg", "rpg")}
MCSymmetry == Permutations(Length)

=============================================================================

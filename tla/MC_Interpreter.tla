------------------------------ MODULE MC_Interpreter ------------------------------
EXTENDS Interpreter, TLC

CONSTANTS a, b

MCVarValues == Name \cup {"LOOP", "7US"}
MCSymmetry == Permutations(Name)

=============================================================================

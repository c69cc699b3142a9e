------------------------------- MODULE MC_RadioRegs -------------------------------
EXTENDS RadioRegs

CONSTANTS b1, b2

Pair(f, g) == [b \in {b1, b2} |-> IF b = b1 THEN f ELSE g]

Rpg == [family |-> "rpg", cic |-> "narrow"]

MCKinds ==
    {Pair(k, Rpg) : k \in {Rpg, [family |-> "pci", cic |-> "cut"],
                          [family |-> "pci", cic |-> "wide"], [family |-> "usb", cic |-> "wide"]}}

=============================================================================

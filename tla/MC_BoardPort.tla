------------------------------- MODULE MC_BoardPort -------------------------------
EXTENDS BoardPort

\* Of blocks of three lines: less than one, one, one and a half, two.
From(s, l) == [start |-> s, length |-> l]
MCRanges == {From(0, 1), From(1, 2), From(1, 3), From(0, 5)}

MCBoards == {"usb", "amcc", "amcc_old"}

\* The old handshake needs a call to fail, one to repair it, and one after.
MCMaxCalls == [b \in Boards |-> IF b = "amcc_old" THEN 3 ELSE 2]

=============================================================================

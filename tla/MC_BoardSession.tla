--------------------------- MODULE MC_BoardSession ---------------------------
(* Instances of BoardSession: two or three devices of different products.   *)
EXTENDS BoardSession

CONSTANTS d1, d2, d3

\* A USB RadioProcessor (0xC1A9) and two DDS boards (0xC2A9).
MCPid == [d \in Device |-> IF d = d1 THEN 49577 ELSE 49833]

=============================================================================

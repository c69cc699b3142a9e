------------------------------ MODULE ProgramStore ------------------------------
(***************************************************************************)
(* What programming a board promises.  A store is a memory of one board    *)
(* that is filled from its start: the pulse program, or the frequency      *)
(* registers of one DDS.  To begin a store empties it, and to add to it    *)
(* appends.  Adding an instruction answers the address the instruction got *)
(* ("this can be used as the branch address", dds.h); adding a frequency   *)
(* answers 0 and fills the next register.  A store may become unknown, and *)
(* is known again when it is begun again.                                  *)
(***************************************************************************)
EXTENDS Integers, Sequences

CONSTANTS
    Store,       \* the stores
    Addressed,   \* those of them whose additions answer an address
    Datum,       \* what can be added
    Unknown      \* contents nobody may rely on

VARIABLES
    contents,    \* of each store: the data added since it was begun, or Unknown
    call         \* the last call: the stores it may add to, the datum, the answer

storeVars == <<contents, call>>

\* The stores in S change at most by becoming unknown.
KeepOrForget(S) == \A s \in S : contents'[s] \in {contents[s], Unknown}

StoreInit ==
    /\ contents = [s \in Store |-> Unknown]
    /\ call = [to |-> {}, data |-> Unknown, answer |-> -1]

Begin(s) ==
    /\ contents'[s] = << >>
    /\ KeepOrForget(Store \ {s})
    /\ call'.answer = 0

Add(s) ==
    /\ contents[s] # Unknown
    /\ s \in call'.to
    /\ call'.data \in Datum
    /\ contents'[s] = Append(contents[s], call'.data)
    /\ KeepOrForget(Store \ {s})
    /\ call'.answer = IF s \in Addressed THEN Len(contents[s]) ELSE 0

\* Any other call adds nothing.  If it acknowledges a datum all the same, or
\* answers an address, then a store it may have added to is not known.
Other ==
    /\ KeepOrForget(Store)
    /\ (call'.data \in Datum \/ call'.answer > 0)
          => \E s \in call'.to : contents'[s] = Unknown

StoreNext ==
    /\ DOMAIN contents' = Store
    /\ call' \in [to : SUBSET Store, data : Datum \cup {Unknown}, answer : Int]
    /\ (\E s \in Store : Begin(s) \/ Add(s)) \/ Other

StoreSpec == StoreInit /\ [][StoreNext]_storeVars

=============================================================================

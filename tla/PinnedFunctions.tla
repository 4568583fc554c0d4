-------------------------- MODULE PinnedFunctions ---------------------------
(***************************************************************************)
(* What a Function<'_> of idalib promises to the program that holds it:    *)
(* as long as it is held the function it stands for exists, whatever       *)
(* plugins do to the database meanwhile.  Nothing is said about how the    *)
(* function is kept.                                                       *)
(***************************************************************************)
CONSTANTS
    Addresses,    \* where a function can start
    Slots,        \* where the program keeps its Function values
    NoFunction    \* an empty slot

VARIABLES
    starts,       \* where the functions of the database start
    held          \* the function whose handle is in each slot

Init ==
    /\ starts \in SUBSET Addresses
    /\ held = [s \in Slots |-> NoFunction]

\* The program obtains a handle, but only on a function that exists.
Hold(s, f) ==
    /\ held[s] = NoFunction
    /\ f \in starts
    /\ held' = [held EXCEPT ![s] = f]
    /\ UNCHANGED starts

Drop(s) ==
    /\ held[s] # NoFunction
    /\ held' = [held EXCEPT ![s] = NoFunction]
    /\ UNCHANGED starts

\* Functions come and go, except those a handle stands for.
Change(new) ==
    /\ \A s \in Slots : held[s] # NoFunction => held[s] \in new
    /\ starts' = new
    /\ UNCHANGED held

Next ==
    \/ \E s \in Slots, f \in Addresses : Hold(s, f)
    \/ \E s \in Slots : Drop(s)
    \/ \E new \in SUBSET Addresses : Change(new)

Spec == Init /\ [][Next]_<<starts, held>>
=============================================================================

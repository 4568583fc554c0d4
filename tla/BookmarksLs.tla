----------------------------- MODULE BookmarksLs -----------------------------
(***************************************************************************)
(* idalib/examples/bookmarks_ls.rs: a program that marks every function of *)
(* a database, asserting after each call what it should have done.  When   *)
(* it starts, functions may be marked already, each at most once: overlaid *)
(* bookmarks, holes and other addresses are beyond what its first pass can *)
(* erase.  A function without a name, or a list that is full, ends it.     *)
(***************************************************************************)
EXTENDS Naturals, Sequences, Functions

CONSTANTS
    Starts,    \* the start addresses of the functions, by id
    Old,       \* the description of a bookmark that was there before
    BadIndex, NoMark, NoHandle, Empty    \* of Bookmarks

Addresses == Range(Starts)
Descriptions == DOMAIN Starts \cup {Old}    \* an id stands for the text about its function

VARIABLES
    slots, len, internalError, handle, gapped,    \* of Bookmarks
    named,    \* the functions with a name
    pass,     \* the loop the program is in, or how it ended
    turn      \* the turn of that loop, from 1

list == <<slots, len, internalError, handle, gapped>>
vars == <<list, named, pass, turn>>

Bookmarks == INSTANCE Bookmarks
    WITH MarkAddresses <- Addresses, MarkDescriptions <- Descriptions

Init ==
    /\ len \in {n \in 0 .. BadIndex : n <= Len(Starts)}
    /\ \E at \in Injection(1 .. len, Addresses) :
         slots = [i \in 0 .. BadIndex - 1 |->
                    IF i < len THEN [ea |-> at[i + 1], desc |-> Old] ELSE NoMark]
    /\ internalError = FALSE /\ gapped = FALSE /\ handle = NoHandle
    /\ named \in SUBSET DOMAIN Starts
    /\ pass = "clear" /\ turn = 1

-----------------------------------------------------------------------------
\* The assertion that ends a turn, and the one between two loops.
Assert(holds) == pass' = (IF holds THEN pass ELSE "failed") /\ turn' = turn + 1
EndLoop(next, holds) ==
    pass' = (IF holds THEN next ELSE "failed") /\ turn' = 1 /\ UNCHANGED list

\* The functions whose turn it is: one, or none when the loop is over.
Current == {id \in DOMAIN Starts : id = turn}

\* What get_description is certain to return.
Described(ea, text) == Bookmarks!GetDescription(ea) = {text}

\* erase at a marked function.
EraseAt(ea) == Bookmarks!Erase(ea) /\ Assert(Described(ea, {})')
Unmarked(ea) == Bookmarks!SdkFindIndex(ea) = {BadIndex} /\ UNCHANGED list

\* Pass 1, which ignores the error of a function that is not marked.
Clear ==
    /\ pass = "clear"
    /\ \/ \E id \in Current : EraseAt(Starts[id]) \/ (Unmarked(Starts[id]) /\ Assert(TRUE))
       \/ Current = {} /\ EndLoop("mark", len = 0)

Mark ==
    /\ pass = "mark"
    /\ \/ \E id \in Current \cap named :
            /\ len # BadIndex
            /\ Bookmarks!Mark(Starts[id], id)
            /\ Assert(Described(Starts[id], {id})')
       \/ Current = {} /\ EndLoop("look", TRUE)

\* Every index has an address, whose description ends in that address.
Look ==
    /\ pass = "look"
    /\ \/ /\ turn <= len /\ UNCHANGED list
          /\ Assert(\E id \in DOMAIN Starts : /\ Bookmarks!GetAddress(turn - 1) = {Starts[id]}
                                              /\ Described(Starts[id], {id}))
       \/ turn > len /\ EndLoop("erase", TRUE)

\* Pass 2, in which every function is marked.
Erase ==
    /\ pass = "erase"
    /\ \/ \E id \in Current : EraseAt(Starts[id]) \/ (Unmarked(Starts[id]) /\ Assert(FALSE))
       \/ Current = {} /\ EndLoop("done", len = 0)

Next == (Clear \/ Mark \/ Look \/ Erase) /\ UNCHANGED named

Spec == Init /\ [][Next]_vars

\* Each assert, unwrap and `?' of the program holds, except for a function without
\* a name and a full list: a pass leaves the list as the next one relies on.
AssertionsHold == pass # "failed" /\ ~internalError
=============================================================================

----------------------------- MODULE CommentsLs -----------------------------
(***************************************************************************)
(* idalib/examples/comments_ls.rs: a program that comments every function  *)
(* of a database and searches for what it wrote, asserting after each call *)
(* what it should have done.  The text it searches for is in no comment of *)
(* an address.  A call the SDK refuses, or a function without a name, ends *)
(* the program: no step.  find_text is taken to look at its starting       *)
(* address too, as the assertions need: functions may adjoin.              *)
(***************************************************************************)
EXTENDS Naturals, FiniteSets, Sequences

CONSTANTS Top, Functions, MaxFound    \* of SearchIter

VARIABLES
    heads, imms, cmts, fcmts, skips, kind, cur, found, exhausted, edited,  \* of SearchIter
    pass,     \* the loop the program is in, or how it ended
    turn      \* the turn of that loop, which is the id of a function

iterator == <<cur, found, exhausted>>
others == <<heads, imms, cmts, fcmts, skips, kind, edited>>
vars == <<iterator, others, pass, turn>>

SearchIter == INSTANCE SearchIter

Init ==
    /\ heads \in {h \in SUBSET (0 .. Top) : \A f \in Functions : f.start \in h}
    /\ kind = "text" /\ imms = {} /\ skips = FALSE /\ edited = FALSE
    /\ cmts = {} /\ fcmts \in SUBSET Functions
    /\ cur = 0 /\ found = <<>> /\ exhausted = FALSE
    /\ pass = "clear" /\ turn = 0

-----------------------------------------------------------------------------
Assert(holds, next) == pass' = IF holds THEN next ELSE "failed"

\* The function with an id: there are as many before it.
Current == {f \in Functions : Cardinality({g \in Functions : g.start < f.start}) = turn}

\* The end of a loop over the functions, and the assertion in a turn of it.
EndLoop(next) ==
    Current = {} /\ pass' = next /\ turn' = 0 /\ UNCHANGED <<iterator, others>>
EndTurn(f, some) ==
    Assert(SearchIter!GetFuncCmt(f.start)' = some, pass) /\ turn' = turn + 1

ClearAll ==
    /\ pass = "clear"
    /\ EndLoop("set") \/ \E f \in Current : SearchIter!RemoveFuncCmt(f.start) /\ EndTurn(f, FALSE)

SetAll ==
    /\ pass = "set"
    /\ EndLoop("search") \/ \E f \in Current : SearchIter!SetFuncCmt(f.start) /\ EndTurn(f, TRUE)

AppendAll ==
    /\ pass = "append"
    /\ EndLoop("remove") \/ \E f \in Current : SearchIter!AppendCmt(f.start) /\ EndTurn(f, TRUE)

RemoveAll ==
    /\ pass = "remove"
    /\ \/ EndLoop("search again")
       \/ \E f \in Current : SearchIter!RemoveFuncCmt(f.start) /\ EndTurn(f, FALSE)

\* find_text_iter run to its end, and the assertions about what it found.
Search ==
    /\ pass \in {"search", "search again"}
    /\ ~exhausted /\ SearchIter!NextText
    /\ UNCHANGED <<pass, turn>>

Found ==
    /\ pass = "search" /\ exhausted
    /\ Assert(found # <<>> /\ Len(found) = Cardinality(Functions), "append")
    /\ cur' = 0 /\ found' = <<>> /\ exhausted' = FALSE
    /\ UNCHANGED <<others, turn>>

NotFound ==
    /\ pass = "search again" /\ exhausted
    /\ Assert(found = <<>>, "done")
    /\ UNCHANGED <<iterator, others, turn>>

Next == ClearAll \/ SetAll \/ Search \/ Found \/ AppendAll \/ RemoveAll \/ NotFound

Spec == Init /\ [][Next]_vars

\* Every assertion of the program holds, whatever comments an earlier run left and
\* wherever items start between the functions: the search finds each function's
\* comment once, and none after the last loop removed what the appends added to.
AssertionsHold == pass # "failed"
=============================================================================

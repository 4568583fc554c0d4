----------------------------- MODULE SearchIter -----------------------------
(***************************************************************************)
(* The two search iterators of idalib/src/idb.rs, find_text_iter and       *)
(* find_imm_iter, over the shims of idalib-sys/src/search_extras.h, and    *)
(* the comments a program edits between two steps: all these calls take    *)
(* &self.  An address has a comment of its own and, in a function, shares  *)
(* the function's; repeatable comments are a second pair of the same       *)
(* operations and are left out.  The text that is searched for is that of  *)
(* the comments and occurs nowhere else.  Addresses are numbers up to Top, *)
(* and BADADDR is the number after Top.                                    *)
(*                                                                         *)
(* A comment call the SDK refuses changes nothing and is no step.  A       *)
(* definition whose name starts with Faulty is the definition after it     *)
(* with a plausible mistake, kept to show that a property notices it.      *)
(***************************************************************************)
EXTENDS Naturals, Sequences, SequencesExt

CONSTANTS
    Top,        \* the highest address
    Functions,  \* the functions, each with its start and its addresses
    MaxFound    \* bound on the addresses one iterator returns

ASSUME SearchAssumption ==
    /\ Top \in Nat /\ MaxFound \in Nat
    /\ \A f \in Functions : f.start \in f.addresses /\ f.addresses \subseteq 0 .. Top
    /\ \A f, g \in Functions : f = g \/ f.addresses \cap g.addresses = {}

Addresses == 0 .. Top
BADADDR == Top + 1

VARIABLES
    heads,      \* the addresses at which an instruction or a datum starts
    imms,       \* the instructions with the immediate that is searched for
    cmts,       \* the addresses with a comment
    fcmts,      \* the functions with a comment
    skips,      \* whether the SDK's find_text looks beyond its starting address
    kind,       \* "text" for find_text_iter, "imm" for find_imm_iter
    cur,        \* the variable the closure of the iterator captured
    found,      \* the addresses the iterator has returned
    exhausted,  \* the iterator has returned None
    edited      \* a comment changed since the iterator was made

comments == <<cmts, fcmts>>
iterator == <<cur, found, exhausted>>
vars == <<heads, imms, comments, skips, kind, iterator, edited>>

Init ==
    /\ heads \in SUBSET Addresses
    /\ skips \in BOOLEAN
    /\ \/ kind = "text" /\ imms = {} /\ cmts \in SUBSET Addresses /\ fcmts \in SUBSET Functions
       \/ kind = "imm" /\ imms \in SUBSET heads /\ cmts = {} /\ fcmts = {}
    /\ cur = 0
    /\ found = <<>>
    /\ exhausted = FALSE
    /\ edited = FALSE

-----------------------------------------------------------------------------
(* The SDK, searching downwards.                                           *)

\* A function's comment is shown at its start.
Texts == cmts \cup {f.start : f \in fcmts}

Lowest(S) == IF S = {} THEN BADADDR ELSE CHOOSE a \in S : \A b \in S : a <= b

\* idalib_find_text, idalib_find_imm and idalib_find_defined; BADADDR is None.
\* SEARCH_NEXT makes find_imm and find_defined look beyond the address they
\* are given; for find_text both readings of the flag are modelled.
FindText(start) ==
    Lowest({a \in Texts : a > start \/ (a = start /\ ~skips)})
FindImm(start) == Lowest({a \in imms : a > start})

FindDefined(start) == Lowest({a \in heads : a > start})

-----------------------------------------------------------------------------
(* The iterators.                                                          *)

\* The item is returned, or None leaves the captured variable as it was.
Return(addr, next) ==
    /\ Len(found) < MaxFound
    /\ \/ addr # BADADDR /\ found' = Append(found, addr) /\ cur' = next /\ UNCHANGED exhausted
       \/ addr = BADADDR /\ exhausted' = TRUE /\ UNCHANGED <<found, cur>>
    /\ UNCHANGED <<heads, imms, comments, skips, kind, edited>>

FaultyNextText ==     \* the search goes on at the head after the next one
    kind = "text" /\ Return(FindText(cur), FindDefined(FindDefined(FindText(cur))))

FaultyStuckNextText == \* the search goes on where find_imm_iter would
    kind = "text" /\ Return(FindText(cur), FindText(cur))

\* find_text_iter: the search goes on at the next defined item after the find,
\* or nowhere if there is none.
NextText == kind = "text" /\ Return(FindText(cur), FindDefined(FindText(cur)))

FaultyNextImm ==      \* the search starts over
    kind = "imm" /\ Return(FindImm(0), FindImm(cur))

FaultyAdjacentNextImm == \* the search goes on where find_text_iter would
    kind = "imm" /\ Return(FindImm(cur), FindDefined(FindImm(cur)))

\* find_imm_iter: the search goes on at the find itself.
NextImm == kind = "imm" /\ Return(FindImm(cur), FindImm(cur))

-----------------------------------------------------------------------------
(* Comments.                                                               *)

\* IDB::function_at.
FunctionAt(ea) == {f \in Functions : ea \in f.addresses}

\* get_cmt and get_func_cmt are Some.
GetCmt(ea) == ea \in cmts
GetFuncCmt(ea) == FunctionAt(ea) \cap fcmts # {}

Edit(newCmts, newFcmts) ==
    /\ kind = "text"
    /\ cmts' = newCmts /\ fcmts' = newFcmts
    /\ edited' = TRUE
    /\ UNCHANGED <<heads, imms, skips, kind, iterator>>

SetCmt(ea) == Edit(cmts \cup {ea}, fcmts)

RemoveCmt(ea) == Edit(cmts \ {ea}, fcmts)

\* append_cmt: at the start of a function the SDK appends to the function's
\* comment, as examples/comments_ls.rs relies on.
AppendCmt(ea) ==
    LET starting == {f \in Functions : f.start = ea} IN
    IF starting # {} THEN Edit(cmts, fcmts \cup starting) ELSE Edit(cmts \cup {ea}, fcmts)

\* set_func_cmt, which finds the function first.
SetFuncCmt(ea) == FunctionAt(ea) # {} /\ Edit(cmts, fcmts \cup FunctionAt(ea))

FaultyRemoveFuncCmt(ea) == \* the body of remove_cmt, which it was copied from
    FunctionAt(ea) # {} /\ Edit(cmts \ {ea}, fcmts)

RemoveFuncCmt(ea) == FunctionAt(ea) # {} /\ Edit(cmts, fcmts \ FunctionAt(ea))

EditComment ==
    \E ea \in Addresses :
        \/ SetCmt(ea) \/ RemoveCmt(ea) \/ AppendCmt(ea)
        \/ SetFuncCmt(ea) \/ RemoveFuncCmt(ea)

Next == NextText \/ NextImm \/ EditComment

\* The program runs the iterator to its end, editing comments as it goes.
Spec == Init /\ [][Next]_vars /\ WF_vars(NextText \/ NextImm)

-----------------------------------------------------------------------------
(* Properties.                                                             *)

FoundSet == {found[i] : i \in DOMAIN found}

\* Addresses come in strictly ascending order, each at most once, even if the
\* comments of addresses already passed are edited again.
FindsAscend == \A i, j \in DOMAIN found : i < j => found[i] < found[j]

\* An undisturbed text search that can match at its starting address misses
\* no match at a defined item: a match right after another is found too.
TextAtItemsIsFound ==
    kind = "text" /\ exhausted /\ ~edited /\ ~skips
        => Texts \cap heads \subseteq FoundSet

\* A search for an immediate finds every instruction that has it, save one at
\* address 0, where the iterator starts.
ImmediatesAreFound ==
    kind = "imm" /\ exhausted => FoundSet = imms \ {0}

\* A step changes what get_func_cmt says at most for the addresses of one
\* function, alike for all of them, and get_cmt nowhere; or get_cmt at most at one
\* address, and get_func_cmt nowhere.
OnlyFuncCmt(ea) ==
    \A a \in Addresses :
       /\ GetCmt(a)' = GetCmt(a)
       /\ IF FunctionAt(a) = FunctionAt(ea)
          THEN GetFuncCmt(a)' = GetFuncCmt(ea)' ELSE GetFuncCmt(a)' = GetFuncCmt(a)
OnlyCmt(ea) ==
    \A a \in Addresses :
       /\ GetFuncCmt(a)' = GetFuncCmt(a)
       /\ a # ea => GetCmt(a)' = GetCmt(a)

\* Comments of addresses and of functions stay apart: setting or removing the
\* comment of a function, through any of its addresses, does so for that function
\* only, setting or removing one at an address does so there only, and appending
\* one is the former at the start of a function and the latter anywhere else, so
\* that get_func_cmt reads what append_cmt wrote there.
EditsStayApart ==
    [][\A ea \in Addresses :
         LET starts == \E f \in Functions : f.start = ea IN
         /\ SetFuncCmt(ea) \/ (AppendCmt(ea) /\ starts) => OnlyFuncCmt(ea) /\ GetFuncCmt(ea)'
         /\ RemoveFuncCmt(ea) => OnlyFuncCmt(ea) /\ ~GetFuncCmt(ea)'
         /\ SetCmt(ea) \/ (AppendCmt(ea) /\ ~starts) => OnlyCmt(ea) /\ GetCmt(ea)'
         /\ RemoveCmt(ea) => OnlyCmt(ea) /\ ~GetCmt(ea)']_vars

\* A loop over an iterator ends, even if its body keeps adding comments that
\* match: the searched part of the database only shrinks.
LoopEnds == <>exhausted
=============================================================================

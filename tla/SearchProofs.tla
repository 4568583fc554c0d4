---------------------------- MODULE SearchProofs ----------------------------
(***************************************************************************)
(* Proofs about SearchIter, for any number of addresses, any functions and *)
(* any comments: what the two iterators find, and that comments of         *)
(* addresses and of functions stay apart.                                  *)
(***************************************************************************)
EXTENDS SearchIter, OrderLemmas, TLAPS

-----------------------------------------------------------------------------
(* The inductive invariant.                                                *)

TypeOK ==
    /\ heads \in SUBSET Addresses
    /\ imms \in SUBSET Addresses
    /\ cmts \in SUBSET Addresses
    /\ fcmts \in SUBSET Functions
    /\ skips \in BOOLEAN
    /\ kind \in {"text", "imm"}
    /\ cur \in 0 .. BADADDR
    /\ found \in Seq(Addresses)
    /\ exhausted \in BOOLEAN
    /\ edited \in BOOLEAN

\* A text search goes on behind what it found, one for immediates at it.
FoundIsPassed ==
    \A i \in DOMAIN found : IF kind = "text" THEN found[i] < cur ELSE found[i] <= cur

\* What an undisturbed text search has passed was found ...
TextPassed ==
    kind = "text" /\ ~edited /\ ~skips =>
        /\ \A a \in Texts \cap heads : a < cur => a \in FoundSet
        /\ exhausted => \A a \in Texts : a < cur

\* ... and so it is with immediates.
ImmPassed ==
    kind = "imm" =>
        /\ cur \in Addresses
        /\ FoundSet = {a \in imms : 0 < a /\ a <= cur}
        /\ exhausted => \A a \in imms : a <= cur

Inv ==
    /\ TypeOK
    /\ FoundIsPassed
    /\ FindsAscend
    /\ TextPassed
    /\ ImmPassed

-----------------------------------------------------------------------------
(* Lemmas.                                                                 *)

LEMMA AddressType ==
    /\ \A a \in Addresses : a \in Nat /\ a \in 0 .. BADADDR /\ a # BADADDR
    /\ \A a \in 0 .. BADADDR : a \in Nat
    /\ BADADDR \in 0 .. BADADDR
    /\ 0 \in Addresses
BY SearchAssumption DEF Addresses, BADADDR

\* What a search returns: the lowest hit, or BADADDR for none.
LEMMA LowestIsLeast ==
    ASSUME NEW S \in SUBSET Addresses
    PROVE  /\ Lowest(S) \in 0 .. BADADDR
           /\ Lowest(S) = BADADDR <=> S = {}
           /\ Lowest(S) # BADADDR => Lowest(S) \in S
           /\ \A a \in S : Lowest(S) <= a
<1>1. CASE S = {}
  BY <1>1, SearchAssumption DEF Lowest, BADADDR
<1>2. CASE S # {}
  <2>1. PICK m \in S : \A b \in S : m <= b
    BY <1>2, Least DEF Addresses
  <2>2. Lowest(S) = CHOOSE a \in S : \A b \in S : a <= b
    BY <1>2 DEF Lowest
  <2>3. Lowest(S) \in S /\ \A b \in S : Lowest(S) <= b
    BY <2>1, <2>2
  <2>4. Lowest(S) \in Addresses
    BY <2>3
  <2> QED BY <1>2, <2>3, <2>4, AddressType
<1> QED BY <1>1, <1>2

LEMMA TextsType == ASSUME TypeOK PROVE Texts \in SUBSET Addresses
<1>1. cmts \in SUBSET Addresses /\ fcmts \in SUBSET Functions
  BY DEF TypeOK
<1>2. \A f \in Functions : f.start \in Addresses
  BY SearchAssumption, Zenon DEF Addresses
<1>3. ASSUME NEW a \in Texts PROVE a \in Addresses
  BY <1>1, <1>2, <1>3, Zenon DEF Texts
<1> QED BY <1>3, Zenon

\* The finds of an iterator that finds one more.
LEMMA OneMore ==
    ASSUME found \in Seq(Addresses), NEW addr \in Addresses,
           found' = Append(found, addr), FindsAscend,
           \A i \in DOMAIN found : found[i] < addr
    PROVE  /\ FindsAscend'
           /\ FoundSet' = FoundSet \cup {addr}
           /\ \A i \in DOMAIN found' :
                found'[i] = addr \/ \E j \in DOMAIN found : found'[i] = found[j]
<1>1. /\ DOMAIN found = 1 .. Len(found) /\ Len(found) \in Nat
      /\ DOMAIN found' = 1 .. Len(found) + 1
      /\ \A i \in 1 .. Len(found) : found'[i] = found[i]
      /\ found'[Len(found) + 1] = addr
  BY AppendElements
<1>2. FindsAscend' /\ FoundSet' = FoundSet \cup {addr}
  <2>1. Addresses \in SUBSET Nat
    BY AddressType
  <2> QED BY <2>1, AppendAscends DEF FindsAscend, FoundSet
<1> QED BY <1>1, <1>2

-----------------------------------------------------------------------------
(* The steps.                                                              *)

LEMMA InitInv == Init => Inv
<1> SUFFICES ASSUME Init PROVE Inv
  OBVIOUS
<1>1. DOMAIN found = {} /\ found \in Seq(Addresses) /\ cur = 0 /\ ~exhausted
  BY DEF Init
<1>2. TypeOK
  <2>1. /\ kind \in {"text", "imm"} /\ skips \in BOOLEAN /\ edited \in BOOLEAN
        /\ exhausted \in BOOLEAN /\ heads \in SUBSET Addresses
    BY DEF Init
  <2>2. imms \in SUBSET Addresses /\ cmts \in SUBSET Addresses /\ fcmts \in SUBSET Functions
    BY DEF Init
  <2>3. cur \in 0 .. BADADDR
    BY <1>1, AddressType
  <2> QED BY <1>1, <2>1, <2>2, <2>3, Zenon DEF TypeOK
<1>3. FoundIsPassed /\ FindsAscend /\ FoundSet = {}
  BY <1>1 DEF FoundIsPassed, FindsAscend, FoundSet
<1>4. TextPassed
  BY <1>1, <1>2, TextsType DEF TextPassed, TypeOK, Addresses
<1>5. ImmPassed
  <2>1. 0 \in Addresses /\ {a \in imms : 0 < a /\ a <= 0} = {}
    BY <1>2, SearchAssumption DEF Addresses, TypeOK
  <2> QED BY <1>1, <1>3, <2>1 DEF ImmPassed
<1> QED BY <1>2, <1>3, <1>4, <1>5 DEF Inv

LEMMA NextTextInv == ASSUME Inv, NextText PROVE Inv'
<1> DEFINE addr == FindText(cur)
           next == FindDefined(addr)
<1>1. /\ kind = "text"
      /\ \/ addr # BADADDR /\ found' = Append(found, addr) /\ cur' = next /\ UNCHANGED exhausted
         \/ addr = BADADDR /\ exhausted' = TRUE /\ UNCHANGED <<found, cur>>
      /\ UNCHANGED <<heads, imms, cmts, fcmts, skips, kind, edited>>
  BY DEF NextText, Return, comments
<1>2. Texts' = Texts /\ Texts \in SUBSET Addresses
  BY <1>1, TextsType DEF Inv, Texts
<1> DEFINE hits == {a \in Texts : a > cur \/ (a = cur /\ ~skips)}
<1>3. /\ addr # BADADDR => addr \in hits
      /\ addr = BADADDR => hits = {}
      /\ \A a \in hits : addr <= a
  BY <1>2, LowestIsLeast DEF FindText
<1>4. CASE addr # BADADDR
  <2>1. addr \in Addresses /\ addr \in hits /\ addr \in Nat /\ cur \in Nat
    <3>1. addr \in hits /\ addr \in Addresses
      BY <1>2, <1>3, <1>4
    <3> QED BY <3>1, AddressType DEF Inv, TypeOK
  <2>2. /\ found' = Append(found, addr) /\ cur' = next /\ UNCHANGED exhausted
    BY <1>1, <1>4
  <2> DEFINE later == {a \in heads : a > addr}
  <2>3. /\ next \in 0 .. BADADDR /\ next > addr
        /\ \A a \in later : next <= a
    <3>1. later \in SUBSET Addresses
      BY DEF Inv, TypeOK
    <3>2. /\ Lowest(later) \in 0 .. BADADDR
          /\ Lowest(later) # BADADDR => Lowest(later) \in later
          /\ \A a \in later : Lowest(later) <= a
      BY <3>1, LowestIsLeast
    <3>3. next = Lowest(later)
      BY DEF FindDefined
    <3> QED BY <2>1, <3>2, <3>3, SearchAssumption DEF Addresses, BADADDR
  <2>4. ASSUME NEW i \in DOMAIN found
        PROVE  found[i] \in Nat /\ found[i] < cur /\ found[i] < addr
    <3>1. found[i] \in Nat
      BY AddressType DEF Inv, TypeOK
    <3>2. found[i] < cur /\ addr >= cur
      BY <1>1, <2>1 DEF Inv, FoundIsPassed
    <3> QED BY <2>1, <3>1, <3>2
  <2>5. /\ FindsAscend'
        /\ FoundSet' = FoundSet \cup {addr}
        /\ \A i \in DOMAIN found' :
             found'[i] = addr \/ \E j \in DOMAIN found : found'[i] = found[j]
    BY <2>1, <2>2, <2>4, OneMore DEF Inv, TypeOK
  <2>6. TypeOK'
    BY <1>1, <2>1, <2>2, <2>3, AppendElements DEF Inv, TypeOK
  <2>7. FoundIsPassed'
    BY <1>1, <2>1, <2>2, <2>3, <2>4, <2>5 DEF FoundIsPassed, BADADDR
  <2>8. TextPassed'
    <3>1. ASSUME ~edited, ~skips, NEW a \in Texts \cap heads, a < cur'
          PROVE  a \in FoundSet'
      <4>1. a \in Nat
        BY <1>2 DEF Addresses
      <4>2. CASE a < cur
        BY <1>1, <2>5, <3>1, <4>2 DEF Inv, TextPassed
      <4>3. CASE a >= cur
        <5>1. a \in hits
          BY <2>1, <3>1, <4>1, <4>3
        <5>2. addr <= a
          BY <1>3, <5>1
        <5>3. ~(a > addr)
          BY <2>1, <2>2, <2>3, <3>1, <4>1 DEF BADADDR
        <5> QED BY <2>1, <2>5, <4>1, <5>2, <5>3
      <4> QED BY <2>1, <4>1, <4>2, <4>3
    <3>2. ~edited /\ ~skips => ~exhausted
      <4>1. ~skips /\ ~edited /\ exhausted => addr < cur
        BY <1>1, <2>1 DEF Inv, TextPassed
      <4>2. addr >= cur
        BY <2>1
      <4> QED BY <2>1, <4>1, <4>2 DEF Inv, TypeOK
    <3> QED BY <1>1, <1>2, <2>2, <3>1, <3>2 DEF TextPassed
  <2> QED BY <1>1, <2>5, <2>6, <2>7, <2>8 DEF Inv, ImmPassed
<1>5. CASE addr = BADADDR
  <2>1. exhausted' = TRUE /\ UNCHANGED <<found, cur>> /\ hits = {}
    BY <1>1, <1>3, <1>5
  <2>2. ~skips => \A a \in Texts : a < cur
    BY <1>2, <2>1, SearchAssumption DEF Addresses, Inv, TypeOK, BADADDR
  <2>3. TextPassed'
    BY <1>1, <1>2, <2>1, <2>2 DEF Inv, TextPassed, FoundSet
  <2>4. TypeOK' /\ FoundIsPassed' /\ FindsAscend'
    BY <1>1, <2>1 DEF Inv, TypeOK, FoundIsPassed, FindsAscend
  <2> QED BY <1>1, <2>3, <2>4 DEF Inv, ImmPassed
<1> QED BY <1>4, <1>5

LEMMA NextImmInv == ASSUME Inv, NextImm PROVE Inv'
<1> DEFINE addr == FindImm(cur)
           hits == {a \in imms : a > cur}
<1>1. /\ kind = "imm"
      /\ \/ addr # BADADDR /\ found' = Append(found, addr) /\ cur' = addr /\ UNCHANGED exhausted
         \/ addr = BADADDR /\ exhausted' = TRUE /\ UNCHANGED <<found, cur>>
      /\ UNCHANGED <<heads, imms, cmts, fcmts, skips, kind, edited>>
  BY DEF NextImm, Return, comments
<1>2. /\ addr # BADADDR => addr \in hits
      /\ addr = BADADDR => hits = {}
      /\ \A a \in hits : addr <= a
  <2>1. hits \in SUBSET Addresses
    BY DEF Inv, TypeOK
  <2> QED BY <2>1, LowestIsLeast DEF FindImm
<1>3. /\ cur \in Addresses /\ imms \in SUBSET Addresses
      /\ FoundSet = {a \in imms : 0 < a /\ a <= cur}
      /\ exhausted => \A a \in imms : a <= cur
  BY <1>1 DEF Inv, TypeOK, ImmPassed
<1>4. CASE addr # BADADDR
  <2>1. addr \in Addresses /\ addr \in imms /\ addr > cur /\ addr \in Nat /\ cur \in Nat
    <3>1. addr \in hits /\ addr \in Addresses
      BY <1>2, <1>3, <1>4
    <3> QED BY <1>3, <3>1, AddressType
  <2>2. found' = Append(found, addr) /\ cur' = addr /\ UNCHANGED exhausted
    BY <1>1, <1>4
  <2>3. ASSUME NEW i \in DOMAIN found
        PROVE  found[i] \in Nat /\ found[i] <= cur /\ found[i] < addr
    <3>1. found[i] \in Nat
      BY AddressType DEF Inv, TypeOK
    <3>2. found[i] <= cur
      BY <1>1 DEF Inv, FoundIsPassed
    <3> QED BY <2>1, <3>1, <3>2
  <2>4. /\ FindsAscend'
        /\ FoundSet' = FoundSet \cup {addr}
        /\ \A i \in DOMAIN found' :
             found'[i] = addr \/ \E j \in DOMAIN found : found'[i] = found[j]
    BY <2>1, <2>2, <2>3, OneMore DEF Inv, TypeOK
  <2>5. TypeOK'
    BY <1>1, <2>1, <2>2, AppendElements, SearchAssumption
       DEF Inv, TypeOK, Addresses, BADADDR
  <2>6. FoundIsPassed'
    BY <1>1, <2>1, <2>2, <2>3, <2>4 DEF FoundIsPassed
  <2>7. FoundSet' = {a \in imms' : 0 < a /\ a <= cur'}
    <3>1. ASSUME NEW a \in imms
          PROVE  0 < a /\ a <= addr <=> (0 < a /\ a <= cur) \/ a = addr
      <4>1. a \in Nat /\ (a > cur => addr <= a)
        BY <1>2, <1>3 DEF Addresses
      <4> QED BY <2>1, <4>1
    <3> QED BY <1>1, <1>3, <2>1, <2>2, <2>4, <3>1
  <2>8. ~exhausted
    <3>1. exhausted => addr <= cur
      BY <1>3, <2>1
    <3> QED BY <2>1, <3>1
  <2>9. ImmPassed'
    BY <2>1, <2>2, <2>7, <2>8 DEF ImmPassed, Addresses
  <2> QED BY <1>1, <2>4, <2>5, <2>6, <2>9 DEF Inv, TextPassed
<1>5. CASE addr = BADADDR
  <2>1. exhausted' = TRUE /\ UNCHANGED <<found, cur>> /\ hits = {}
    BY <1>1, <1>2, <1>5
  <2>2. \A a \in imms : a <= cur
    BY <1>3, <2>1 DEF Addresses
  <2>3. ImmPassed'
    BY <1>1, <1>3, <2>1, <2>2 DEF ImmPassed, FoundSet, Addresses
  <2>4. TypeOK' /\ FoundIsPassed' /\ FindsAscend'
    BY <1>1, <2>1 DEF Inv, TypeOK, FoundIsPassed, FindsAscend
  <2> QED BY <1>1, <2>3, <2>4 DEF Inv, TextPassed
<1> QED BY <1>4, <1>5

LEMMA EditCommentInv == ASSUME Inv, EditComment PROVE Inv'
<1>1. PICK ea \in Addresses :
        SetCmt(ea) \/ RemoveCmt(ea) \/ AppendCmt(ea) \/ SetFuncCmt(ea) \/ RemoveFuncCmt(ea)
  BY DEF EditComment
<1>2. /\ kind = "text" /\ edited' = TRUE
      /\ UNCHANGED <<heads, imms, skips, kind, cur, found, exhausted>>
  BY <1>1 DEF SetCmt, RemoveCmt, AppendCmt, SetFuncCmt, RemoveFuncCmt, Edit, iterator
<1>3. cmts' \in SUBSET Addresses /\ fcmts' \in SUBSET Functions
  BY <1>1 DEF Inv, TypeOK, SetCmt, RemoveCmt, AppendCmt, SetFuncCmt, RemoveFuncCmt, Edit,
              FunctionAt
<1>4. TypeOK'
  BY <1>2, <1>3 DEF Inv, TypeOK
<1> QED
  BY <1>2, <1>4 DEF Inv, FoundIsPassed, FindsAscend, TextPassed, ImmPassed

LEMMA NextInv == Inv /\ [Next]_vars => Inv'
<1> SUFFICES ASSUME Inv, [Next]_vars PROVE Inv'
  OBVIOUS
<1>1. CASE UNCHANGED vars
  BY <1>1 DEF vars, comments, iterator, Inv, TypeOK, FoundIsPassed, FindsAscend, TextPassed,
              ImmPassed, FoundSet, Texts
<1> QED BY <1>1, NextTextInv, NextImmInv, EditCommentInv DEF Next

THEOREM Invariance == Spec => []Inv
<1> QED BY InitInv, NextInv, PTL DEF Spec

-----------------------------------------------------------------------------
(* Theorems.                                                               *)

\* An iterator never returns an address twice or goes back, whatever is
\* commented while it runs.
THEOREM Ascending == Spec => []FindsAscend
<1>1. Inv => FindsAscend
  BY DEF Inv
<1> QED BY <1>1, Invariance, PTL

\* An undisturbed text search, with a find_text that does not skip its start,
\* finds the matches at all items.
THEOREM TextSearchIsComplete == Spec => []TextAtItemsIsFound
<1>1. Inv => TextAtItemsIsFound
  <2>1. ASSUME Inv, kind = "text", exhausted, ~edited, ~skips, NEW a \in Texts \cap heads
        PROVE  a \in FoundSet
    BY <2>1 DEF Inv, TextPassed
  <2> QED BY <2>1 DEF TextAtItemsIsFound
<1> QED BY <1>1, Invariance, PTL

\* A search for an immediate finds them all, except at address 0.
THEOREM ImmSearchIsComplete == Spec => []ImmediatesAreFound
<1>1. Inv => ImmediatesAreFound
  <2>1. ASSUME Inv, kind = "imm", exhausted PROVE FoundSet = imms \ {0}
    <3>1. /\ FoundSet = {a \in imms : 0 < a /\ a <= cur}
          /\ \A a \in imms : a <= cur
          /\ \A a \in imms : a \in Nat
      BY <2>1 DEF Inv, TypeOK, ImmPassed, Addresses
    <3> QED BY <3>1
  <2> QED BY <2>1 DEF ImmediatesAreFound
<1> QED BY <1>1, Invariance, PTL

\* Every address of a function leads to it, and to no other.
LEMMA FunctionsAreDisjoint ==
    ASSUME NEW a \in Addresses, NEW ea \in Addresses, FunctionAt(a) # FunctionAt(ea)
    PROVE  FunctionAt(a) \cap FunctionAt(ea) = {}
<1>1. ASSUME NEW f \in FunctionAt(a), f \in FunctionAt(ea),
             NEW g \in FunctionAt(a) \cup FunctionAt(ea)
      PROVE  g = f
  BY <1>1, SearchAssumption DEF FunctionAt
<1> QED BY <1>1

\* A step that adds or removes the function at an address changes nothing else.
LEMMA FuncEdit ==
    ASSUME NEW ea \in Addresses, UNCHANGED cmts,
           fcmts' = fcmts \ FunctionAt(ea) \/ fcmts' = fcmts \cup FunctionAt(ea)
    PROVE  OnlyFuncCmt(ea)
<1> SUFFICES ASSUME NEW a \in Addresses
             PROVE  /\ GetCmt(a)' = GetCmt(a)
                    /\ IF FunctionAt(a) = FunctionAt(ea)
                       THEN GetFuncCmt(a)' = GetFuncCmt(ea)' ELSE GetFuncCmt(a)' = GetFuncCmt(a)
  BY DEF OnlyFuncCmt
<1>1. CASE FunctionAt(a) = FunctionAt(ea)
  BY <1>1 DEF GetCmt, GetFuncCmt
<1>2. CASE FunctionAt(a) # FunctionAt(ea)
  BY <1>2, FunctionsAreDisjoint DEF GetCmt, GetFuncCmt
<1> QED BY <1>1, <1>2

\* No comment call reaches a comment of the other sort, of another function or
\* of another address; append_cmt reaches the function's at its start.
THEOREM CommentsStayApart == Spec => EditsStayApart
<1> DEFINE starts(ea) == \E f \in Functions : f.start = ea
           Apart(ea) ==
             /\ SetFuncCmt(ea) \/ (AppendCmt(ea) /\ starts(ea))
                  => OnlyFuncCmt(ea) /\ GetFuncCmt(ea)'
             /\ RemoveFuncCmt(ea) => OnlyFuncCmt(ea) /\ ~GetFuncCmt(ea)'
             /\ SetCmt(ea) \/ (AppendCmt(ea) /\ ~starts(ea)) => OnlyCmt(ea) /\ GetCmt(ea)'
             /\ RemoveCmt(ea) => OnlyCmt(ea) /\ ~GetCmt(ea)'
<1>1. ASSUME NEW ea \in Addresses PROVE Apart(ea)
  <2>1. ASSUME SetFuncCmt(ea) PROVE OnlyFuncCmt(ea) /\ GetFuncCmt(ea)'
    BY <2>1, FuncEdit DEF SetFuncCmt, Edit, GetFuncCmt
  <2>2. ASSUME AppendCmt(ea), starts(ea) PROVE OnlyFuncCmt(ea) /\ GetFuncCmt(ea)'
    <3>1. {f \in Functions : f.start = ea} = FunctionAt(ea)
      BY <2>2, SearchAssumption DEF FunctionAt
    <3>2. UNCHANGED cmts /\ fcmts' = fcmts \cup FunctionAt(ea) /\ FunctionAt(ea) # {}
      BY <2>2, <3>1 DEF AppendCmt, Edit
    <3> QED BY <3>2, FuncEdit DEF GetFuncCmt
  <2>3. ASSUME RemoveFuncCmt(ea) PROVE OnlyFuncCmt(ea) /\ ~GetFuncCmt(ea)'
    BY <2>3, FuncEdit DEF RemoveFuncCmt, Edit, GetFuncCmt
  <2>4. ASSUME SetCmt(ea) \/ (AppendCmt(ea) /\ ~starts(ea))
        PROVE  OnlyCmt(ea) /\ GetCmt(ea)'
    BY <2>4 DEF SetCmt, AppendCmt, Edit, OnlyCmt, GetCmt, GetFuncCmt
  <2>5. ASSUME RemoveCmt(ea) PROVE OnlyCmt(ea) /\ ~GetCmt(ea)'
    BY <2>5 DEF RemoveCmt, Edit, OnlyCmt, GetCmt, GetFuncCmt
  <2> QED BY <2>1, <2>2, <2>3, <2>4, <2>5
<1>2. [Next]_vars => [\A ea \in Addresses : Apart(ea)]_vars
  BY <1>1
<1> QED BY <1>2, PTL DEF Spec, EditsStayApart
=============================================================================

----------------------- MODULE FunctionHandlesProofs ------------------------
(***************************************************************************)
(* Proofs about FunctionHandles, for every finite set of addresses and     *)
(* slots: handles keep their functions, the locks count the handles, and   *)
(* FunctionHandles implements PinnedFunctions.  Then about its iterator:   *)
(* without new functions it returns none twice, and if the handles it      *)
(* returned are kept it passes over none and the ids it returned stay      *)
(* true.                                                                   *)
(***************************************************************************)
EXTENDS FunctionHandles, OrderLemmas, FiniteSetTheorems, TLAPS

\* What concerns the handles alone.
HandleInv ==
    /\ funcs \in Tables
    /\ locks \in [Addresses -> Nat]
    /\ held \in [Slots -> Addresses \cup {NoFunction}]
    /\ HandlesStayValid
    /\ LocksAreHandles

\* What concerns the iterator alone.
ListType ==
    /\ iter \in [start : Count, end : Count]
    /\ listed \subseteq Count \X Addresses
    /\ ended \in BOOLEAN
    /\ kept \in BOOLEAN
    /\ grown \in BOOLEAN

Inv == HandleInv /\ ListType

-----------------------------------------------------------------------------
(* Lemmas about the kernel's lookups.                                      *)

LEMMA TableType ==
    ASSUME NEW f \in Tables
    PROVE  DOMAIN f \subseteq Addresses
BY DEF Tables

\* The lookups return a function of the table or null.
LEMMA LookupType ==
    ASSUME funcs \in Tables
    PROVE  /\ \A ea : GetFunc(ea) \in starts \cup {NoFunction}
           /\ \A id : GetNFunc(id) \in starts \cup {NoFunction}
BY DEF GetFunc, GetNFunc

LEMMA CountType ==
    ASSUME funcs \in Tables
    PROVE  /\ Cardinality(starts) \in Count
           /\ Cardinality(Addresses) \in Nat
<1>1. /\ starts \in SUBSET Addresses
      /\ IsFiniteSet(Addresses)
  BY TableType, AddressesAssumption DEF starts
<1>2. /\ IsFiniteSet(starts)
      /\ Cardinality(starts) <= Cardinality(Addresses)
  BY <1>1, FS_Subset
<1> QED BY <1>1, <1>2, FS_CardinalityType DEF Count

LEMMA HoldersFinite ==
    \A a : IsFiniteSet(Holders(a)) /\ Cardinality(Holders(a)) \in Nat
<1> SUFFICES ASSUME NEW a
             PROVE  IsFiniteSet(Holders(a)) /\ Cardinality(Holders(a)) \in Nat
  OBVIOUS
<1>1. Holders(a) \in SUBSET Slots
  BY DEF Holders
<1> QED BY <1>1, SlotsAssumption, FS_Subset, FS_CardinalityType

-----------------------------------------------------------------------------
(* The inductive invariant.                                                *)

LEMMA InitInv == Init => Inv
<1> SUFFICES ASSUME Init PROVE Inv
  OBVIOUS
<1>1. \A a \in Addresses : Holders(a) = {}
  BY AddressesAssumption DEF Init, Holders
<1>2. LocksAreHandles
  BY <1>1, FS_EmptySet DEF Init, LocksAreHandles
<1>3. ListType
  <2>1. 0 \in Count
    BY CountType DEF Init, Count
  <2> QED BY <2>1 DEF Init, ListType
<1>4. HandleInv
  BY <1>2 DEF Init, HandleInv, HandlesStayValid
<1> QED BY <1>3, <1>4 DEF Inv

\* A handle that is built on an existing function, whatever led to it.
LEMMA FromPtrInv ==
    ASSUME HandleInv, NEW s \in Slots, NEW f \in starts, FromPtr(s, f), funcs' = funcs
    PROVE  HandleInv'
<1>1. f \in Addresses /\ f # NoFunction
  BY TableType, AddressesAssumption DEF HandleInv, starts
<1>2. /\ locks' \in [Addresses -> Nat]
      /\ held' \in [Slots -> Addresses \cup {NoFunction}]
  BY <1>1 DEF HandleInv, FromPtr
<1>3. HandlesStayValid'
  BY DEF HandleInv, FromPtr, HandlesStayValid, starts
<1>4. ASSUME NEW a \in Addresses PROVE locks'[a] = Cardinality(Holders(a)')
  <2>1. CASE a = f
    <3>1. Holders(a)' = Holders(a) \cup {s} /\ s \notin Holders(a)
      BY <1>1, <2>1 DEF HandleInv, FromPtr, Holders
    <3>2. Cardinality(Holders(a)') = Cardinality(Holders(a)) + 1
      BY <3>1, HoldersFinite, FS_AddElement
    <3> QED BY <2>1, <3>2 DEF HandleInv, FromPtr, LocksAreHandles
  <2>2. CASE a # f
    <3>1. Holders(a)' = Holders(a)
      BY <2>2, AddressesAssumption DEF HandleInv, FromPtr, Holders
    <3> QED BY <2>2, <3>1 DEF HandleInv, FromPtr, LocksAreHandles
  <2> QED BY <2>1, <2>2
<1> QED BY <1>2, <1>3, <1>4 DEF HandleInv, LocksAreHandles

LEMMA DropFunctionInv ==
    ASSUME Inv, NEW s \in Slots, DropFunction(s)
    PROVE  Inv'
<1> DEFINE f == held[s]
<1>1. f \in Addresses
  BY DEF Inv, HandleInv, DropFunction
<1>2. /\ Cardinality(Holders(f)) \in Nat \ {0}
      /\ s \in Holders(f)
  <2>1. s \in Holders(f) /\ Holders(f) # {}
    BY DEF Holders
  <2> QED BY <2>1, HoldersFinite, FS_EmptySet
<1>3. locks[f] \in Nat \ {0}
  BY <1>1, <1>2 DEF Inv, HandleInv, LocksAreHandles
<1>4. /\ locks' \in [Addresses -> Nat]
      /\ held' \in [Slots -> Addresses \cup {NoFunction}]
  BY <1>1, <1>3 DEF Inv, HandleInv, DropFunction
<1>5. HandlesStayValid'
  BY DEF Inv, HandleInv, DropFunction, HandlesStayValid, starts
<1>6. ASSUME NEW a \in Addresses PROVE locks'[a] = Cardinality(Holders(a)')
  <2>1. CASE a = f
    <3>1. Holders(a)' = Holders(a) \ {s}
      BY <2>1, AddressesAssumption DEF Inv, HandleInv, DropFunction, Holders
    <3>2. Cardinality(Holders(a)') = Cardinality(Holders(a)) - 1
      BY <1>2, <2>1, <3>1, HoldersFinite, FS_RemoveElement
    <3> QED BY <2>1, <3>2 DEF Inv, HandleInv, DropFunction, LocksAreHandles
  <2>2. CASE a # f
    <3>1. Holders(a)' = Holders(a)
      BY <2>2, AddressesAssumption DEF Inv, HandleInv, DropFunction, Holders
    <3> QED BY <2>2, <3>1 DEF Inv, HandleInv, DropFunction, LocksAreHandles
  <2> QED BY <2>1, <2>2
<1>7. ListType'
  BY DEF Inv, ListType, DropFunction
<1> QED
  BY <1>4, <1>5, <1>6, <1>7 DEF Inv, HandleInv, DropFunction, LocksAreHandles

LEMMA RunPluginInv ==
    ASSUME Inv, RunPlugin
    PROVE  Inv'
<1>1. ASSUME NEW s \in Slots, held[s] # NoFunction PROVE held[s] \in DOMAIN funcs'
  <2>1. held[s] \in Addresses /\ held[s] \in starts
    BY <1>1 DEF Inv, HandleInv, HandlesStayValid
  <2>2. Holders(held[s]) # {}
    BY DEF Holders
  <2>3. locks[held[s]] > 0
    BY <2>1, <2>2, HoldersFinite, FS_EmptySet DEF Inv, HandleInv, LocksAreHandles
  <2> QED BY <2>1, <2>3 DEF RunPlugin
<1>2. HandlesStayValid'
  BY <1>1 DEF RunPlugin, HandlesStayValid, starts
<1>3. LocksAreHandles'
  BY DEF Inv, HandleInv, RunPlugin, LocksAreHandles, Holders
<1> QED BY <1>2, <1>3 DEF Inv, HandleInv, ListType, RunPlugin

LEMMA ListFunctionsInv ==
    ASSUME Inv, ListFunctions
    PROVE  Inv'
<1>1. Cardinality(starts) \in Count /\ 0 \in Count
  BY CountType DEF Inv, HandleInv, Count
<1>2. ListType'
  BY <1>1 DEF ListFunctions, ListType, FunctionCount
<1>3. HandleInv'
  BY DEF Inv, HandleInv, ListFunctions, HandlesStayValid, LocksAreHandles, Holders, starts
<1> QED BY <1>2, <1>3 DEF Inv

LEMMA NextFunctionInv ==
    ASSUME Inv, NEW s \in Slots, NextFunction(s)
    PROVE  Inv'
<1>1. PICK id \in Found : /\ FromPtr(s, GetNFunc(id))
                          /\ listed' = listed \cup {<<id, GetNFunc(id)>>}
                          /\ iter' = [iter EXCEPT !.start = id + 1]
  BY DEF NextFunction
<1>2. id \in Count /\ id + 1 \in Count
  BY CountType DEF Found, Inv, HandleInv, ListType, Count
<1>3. GetNFunc(id) \in starts
  BY LookupType DEF Found, Inv, HandleInv
<1>4. HandleInv'
  BY <1>1, <1>3, FromPtrInv DEF Inv, NextFunction
<1>5. ListType'
  BY <1>1, <1>2, <1>3, TableType DEF Inv, HandleInv, ListType, NextFunction, starts
<1> QED BY <1>4, <1>5 DEF Inv

LEMMA NextInv == Inv /\ [Next]_vars => Inv'
<1> SUFFICES ASSUME Inv, [Next]_vars PROVE Inv'
  OBVIOUS
<1>1. CASE UNCHANGED vars
  BY <1>1 DEF vars, Inv, HandleInv, ListType, HandlesStayValid, LocksAreHandles, Holders, starts
<1>2. ASSUME NEW s \in Slots, NEW ea \in Addresses, FunctionAt(s, ea) PROVE Inv'
  <2>1. GetFunc(ea) \in starts
    BY <1>2, LookupType DEF FunctionAt, Inv, HandleInv
  <2>2. HandleInv'
    BY <1>2, <2>1, FromPtrInv DEF FunctionAt, Inv
  <2> QED BY <1>2, <2>2 DEF FunctionAt, Inv, ListType
<1>3. ASSUME NEW s \in Slots, NEW id \in Count, FunctionById(s, id) PROVE Inv'
  <2>1. GetNFunc(id) \in starts
    BY <1>3, LookupType DEF FunctionById, Inv, HandleInv
  <2>2. HandleInv'
    BY <1>3, <2>1, FromPtrInv DEF FunctionById, Inv
  <2> QED BY <1>3, <2>2 DEF FunctionById, Inv, ListType
<1>4. CASE EndOfList
  <2>1. HandleInv'
    BY <1>4 DEF EndOfList, Inv, HandleInv, HandlesStayValid, LocksAreHandles, Holders, starts
  <2> QED BY <1>4, <2>1 DEF EndOfList, Inv, ListType
<1> QED
  BY <1>1, <1>2, <1>3, <1>4, RunPluginInv, DropFunctionInv, ListFunctionsInv, NextFunctionInv
     DEF Next

THEOREM Invariance == Spec => []Inv
<1> QED BY InitInv, NextInv, PTL DEF Spec

-----------------------------------------------------------------------------
(* Theorems.                                                               *)

\* Every variable stays in its type; in particular no lock count falls below
\* zero.
THEOREM TypeCorrect == Spec => []TypeOK
<1>1. Inv => TypeOK
  BY DEF Inv, HandleInv, ListType, TypeOK
<1> QED BY <1>1, Invariance, PTL

\* No handle ever points to a function that was deleted, for any number of
\* addresses and handles.
THEOREM HandlesAreSound == Spec => []HandlesStayValid
<1>1. Inv => HandlesStayValid
  BY DEF Inv, HandleInv
<1> QED BY <1>1, Invariance, PTL

\* The lock counts are the numbers of handles: none is lost, none is left.
THEOREM LocksAreExact == Spec => []LocksAreHandles
<1>1. Inv => LocksAreHandles
  BY DEF Inv, HandleInv
<1> QED BY <1>1, Invariance, PTL

\* FunctionHandles implements PinnedFunctions: from_ptr holds, drop releases, a
\* plugin changes what no handle stands for, and the iterator's own steps
\* stutter.
THEOREM HandlesRefinePinned == Spec => ImplementsPinnedFunctions
<1>1. Init => Pinned!Init
  BY TableType DEF Init, Pinned!Init, starts
<1>2. ASSUME Inv, [Next]_vars
      PROVE  [Pinned!Next]_<<starts, held>>
  <2>1. CASE UNCHANGED vars
    BY <2>1 DEF vars, starts
  <2>2. CASE RunPlugin
    <3>1. Inv'
      BY <1>2, NextInv
    <3>2. starts' \in SUBSET Addresses
      BY <2>2, TableType DEF RunPlugin, starts
    <3>3. Pinned!Change(starts')
      BY <2>2, <3>1 DEF RunPlugin, Inv, HandleInv, HandlesStayValid, Pinned!Change
    <3> QED BY <3>2, <3>3 DEF Pinned!Next
  <2>3. ASSUME NEW s \in Slots, NEW f \in starts, FromPtr(s, f), funcs' = funcs
        PROVE  Pinned!Next
    <3>1. f \in Addresses
      BY <1>2, <2>3, TableType DEF Inv, HandleInv, starts
    <3>2. Pinned!Hold(s, f)
      BY <2>3 DEF FromPtr, Pinned!Hold, starts
    <3> QED BY <3>1, <3>2 DEF Pinned!Next
  <2>4. ASSUME NEW s \in Slots, NEW ea \in Addresses, FunctionAt(s, ea)
        PROVE  Pinned!Next
    <3>1. GetFunc(ea) \in starts
      BY <1>2, <2>4, LookupType DEF FunctionAt, Inv, HandleInv
    <3> QED BY <2>3, <2>4, <3>1 DEF FunctionAt
  <2>5. ASSUME NEW s \in Slots, NEW id \in Count, FunctionById(s, id)
        PROVE  Pinned!Next
    <3>1. GetNFunc(id) \in starts
      BY <1>2, <2>5, LookupType DEF FunctionById, Inv, HandleInv
    <3> QED BY <2>3, <2>5, <3>1 DEF FunctionById
  <2>6. ASSUME NEW s \in Slots, NextFunction(s)
        PROVE  Pinned!Next
    <3>1. PICK id \in Found : FromPtr(s, GetNFunc(id))
      BY <2>6 DEF NextFunction
    <3>2. GetNFunc(id) \in starts
      BY <1>2, LookupType DEF Found, Inv, HandleInv
    <3> QED BY <2>3, <2>6, <3>1, <3>2 DEF NextFunction
  <2>7. ASSUME NEW s \in Slots, DropFunction(s)
        PROVE  Pinned!Next
    <3>1. Pinned!Drop(s)
      BY <2>7 DEF DropFunction, Pinned!Drop, starts
    <3> QED BY <3>1 DEF Pinned!Next
  <2>8. CASE ListFunctions \/ EndOfList
    BY <2>8 DEF ListFunctions, EndOfList, starts
  <2> QED BY <1>2, <2>1, <2>2, <2>4, <2>5, <2>6, <2>7, <2>8 DEF Next
<1> QED
  BY <1>1, <1>2, Invariance, PTL DEF Spec, ImplementsPinnedFunctions, Pinned!Spec

-----------------------------------------------------------------------------
(* The iterator.                                                           *)

\* The functions the iterator has returned.
Listed == {p[2] : p \in listed}

\* What holds whether or not handles are kept: the iterator took the count of
\* at least the functions there are, and stands behind those it returned.
CursorInv ==
    /\ iter.start <= iter.end
    /\ ~grown =>
         /\ Cardinality(starts) <= iter.end
         /\ \A p \in listed : p[2] \in starts => Rank(starts, p[2]) < iter.start
         /\ NothingListedTwice

\* What holds while every function that was returned has a handle: their ids
\* are their ranks, nothing below one of them is missing, and what is missing
\* is still ahead of the iterator, which stands right behind the last.
KeptInv ==
    kept /\ ~grown =>
        /\ AllHeld(held)
        /\ \A p \in listed : Rank(starts, p[2]) = p[1]
        /\ \A p \in listed, b \in starts : b < p[2] => b \in Listed
        /\ ~ended => \A b \in starts \ Listed : iter.start <= Rank(starts, b)
        /\ ~ended => iter.start = 0 \/ \E p \in listed : p[1] = iter.start - 1
        /\ ended => starts \subseteq Listed

ListInv == Inv /\ CursorInv /\ KeptInv

-----------------------------------------------------------------------------
(* Lemmas about lookups by id.                                             *)

LEMMA TableFinite ==
    ASSUME funcs \in Tables
    PROVE  starts \in SUBSET Nat /\ IsFiniteSet(starts) /\ starts \subseteq Addresses
<1>1. starts \in SUBSET Addresses
  BY TableType DEF starts
<1> QED BY <1>1, AddressesAssumption, FS_Subset

\* getn_func finds the function of the rank it is given, and every rank a
\* function has.
LEMMA GetNFuncIsRank ==
    ASSUME funcs \in Tables
    PROVE  /\ \A id : GetNFunc(id) # NoFunction => /\ GetNFunc(id) \in starts
                                                   /\ Rank(starts, GetNFunc(id)) = id
           /\ \A a \in starts : GetNFunc(Rank(starts, a)) = a
<1>1. NoFunction \notin starts
  BY TableFinite, AddressesAssumption
<1>2. ASSUME NEW id, GetNFunc(id) # NoFunction
      PROVE  GetNFunc(id) \in starts /\ Rank(starts, GetNFunc(id)) = id
  BY <1>2 DEF GetNFunc
<1>3. ASSUME NEW a \in starts PROVE GetNFunc(Rank(starts, a)) = a
  <2> DEFINE f == GetNFunc(Rank(starts, a))
  <2>1. f \in starts /\ Rank(starts, f) = Rank(starts, a)
    BY <1>3 DEF GetNFunc
  <2> QED BY <2>1, TableFinite, RankInjective
<1> QED BY <1>2, <1>3

\* The bounds of the range are natural numbers.
LEMMA RangeType ==
    ASSUME Inv
    PROVE  iter.start \in Nat /\ iter.end \in Nat
<1>1. Count \subseteq Nat
  BY CountType DEF Inv, HandleInv, Count
<1>2. iter.start \in Count /\ iter.end \in Count
  BY DEF Inv, ListType
<1> QED BY <1>1, <1>2

-----------------------------------------------------------------------------
(* The inductive step, one lemma for each action that matters.             *)

LEMMA InitListInv == Init => ListInv
<1> SUFFICES ASSUME Init PROVE ListInv
  OBVIOUS
<1>1. iter.start <= iter.end
  BY DEF Init
<1>2. CursorInv /\ KeptInv
  BY <1>1 DEF Init, CursorInv, KeptInv
<1> QED BY <1>2, InitInv DEF ListInv

\* The iterator begins.
LEMMA ListFunctionsList ==
    ASSUME ListInv, ListFunctions
    PROVE  CursorInv' /\ KeptInv'
<1>1. Cardinality(starts) \in Nat /\ starts' = starts
  BY TableFinite, FS_CardinalityType DEF ListInv, Inv, HandleInv, ListFunctions, starts
<1>2. /\ iter'.start = 0 /\ iter'.end = Cardinality(starts)
      /\ listed' = {} /\ ended' = FALSE
  BY DEF ListFunctions, FunctionCount
<1>3. \A b \in starts : Rank(starts, b) \in Nat
  BY TableFinite, RankType DEF ListInv, Inv, HandleInv
<1>4. CursorInv'
  BY <1>1, <1>2 DEF CursorInv, NothingListedTwice
<1>5. AllHeld(held)'
  BY <1>2 DEF AllHeld
<1>6. KeptInv'
  BY <1>1, <1>2, <1>3, <1>5 DEF KeptInv
<1> QED BY <1>4, <1>6

\* The iterator returns a function.
LEMMA NextFunctionList ==
    ASSUME ListInv, NEW s \in Slots, NextFunction(s)
    PROVE  CursorInv' /\ KeptInv'
<1>0. PICK id \in Found : /\ \A other \in Found : id <= other
                          /\ FromPtr(s, GetNFunc(id))
                          /\ listed' = listed \cup {<<id, GetNFunc(id)>>}
                          /\ iter' = [iter EXCEPT !.start = id + 1]
  BY DEF NextFunction
<1> DEFINE f == GetNFunc(id)
<1>1. funcs \in Tables /\ starts' = starts
  BY DEF ListInv, Inv, HandleInv, NextFunction, starts
<1>2. f \in starts /\ f # NoFunction /\ Rank(starts, f) = id
  BY <1>1, GetNFuncIsRank DEF Found
<1>3. /\ iter.start \in Nat /\ iter.end \in Nat
      /\ id \in Nat /\ iter.start <= id /\ id + 1 <= iter.end
  <2>1. iter.start \in Nat /\ iter.end \in Nat
    BY RangeType DEF ListInv
  <2>2. id \in iter.start .. iter.end - 1
    BY DEF Found
  <2> QED BY <2>1, <2>2
<1>4. iter'.start = id + 1 /\ iter'.end = iter.end
  BY <1>0 DEF ListInv, Inv, ListType
<1>5. \A b \in starts : Rank(starts, b) \in Nat /\ b \in Nat
  BY <1>1, TableFinite, RankType
\* No function lies between the iterator and the one it returns.
<1>6. ASSUME NEW b \in starts, iter.start <= Rank(starts, b), b # f
      PROVE  f < b /\ id + 1 <= Rank(starts, b)
  <2>1. CASE b < f
    <3>1. Rank(starts, b) + 1 <= id
      BY <1>1, <1>2, <1>5, <2>1, TableFinite, RankAscends
    <3>2. Rank(starts, b) \in Found
      <4>1. GetNFunc(Rank(starts, b)) # NoFunction
        BY <1>1, GetNFuncIsRank, TableFinite, AddressesAssumption
      <4>2. Rank(starts, b) \in iter.start .. iter.end - 1
        BY <1>3, <1>5, <1>6, <3>1
      <4> QED BY <4>1, <4>2 DEF Found
    <3> QED BY <1>0, <1>3, <1>5, <3>1, <3>2
  <2>2. CASE f < b
    BY <1>1, <1>2, <1>5, <2>2, TableFinite, RankAscends
  <2> QED BY <1>2, <1>5, <1>6, <2>1, <2>2
<1>7. Listed' = Listed \cup {f}
  <2>1. Listed' = {p[2] : p \in listed'}
    BY DEF Listed
  <2>2. <<id, f>>[2] = f
    OBVIOUS
  <2>3. ASSUME NEW x PROVE x \in Listed' <=> x \in Listed \/ x = f
    BY <1>0, <2>1, <2>2 DEF Listed
  <2> QED BY <2>3
<1>8. CursorInv'
  <2>1. ASSUME ~grown
        PROVE  \A p \in listed' : p[2] \in starts => Rank(starts, p[2]) < id + 1
    BY <1>0, <1>2, <1>3, <1>5, <2>1 DEF ListInv, CursorInv
  <2>2. ASSUME ~grown
        PROVE  \A p \in listed : p[2] # f
    <3>1. ASSUME NEW p \in listed, p[2] = f PROVE id < iter.start
      BY <1>2, <2>2, <3>1 DEF ListInv, CursorInv
    <3> QED BY <1>3, <3>1
  <2>3. ASSUME ~grown
        PROVE  \A p, q \in listed' : p[2] = q[2] => p = q
    BY <1>0, <2>2, <2>3 DEF ListInv, CursorInv, NothingListedTwice
  <2> QED
    BY <1>1, <1>3, <1>4, <2>1, <2>3 DEF ListInv, CursorInv, NothingListedTwice, NextFunction
<1>9. ASSUME kept, ~grown PROVE KeptInv'
  <2> USE <1>9
  <2>0. ~ended /\ ~ended'
    BY DEF NextFunction
  <2>1. AllHeld(held)'
    <3>1. held' = [held EXCEPT ![s] = f] /\ held[s] = NoFunction
      BY <1>0 DEF FromPtr
    <3>2. held'[s] = f
      BY <3>1 DEF ListInv, Inv, HandleInv
    <3>3. ASSUME NEW p \in listed PROVE \E t \in Slots : held'[t] = p[2]
      <4>1. PICK t \in Slots : held[t] = p[2]
        BY DEF ListInv, KeptInv, AllHeld
      <4>2. p[2] # NoFunction
        BY AddressesAssumption DEF ListInv, Inv, ListType
      <4> QED BY <3>1, <4>1, <4>2 DEF ListInv, Inv, HandleInv
    <3> QED BY <1>0, <3>2, <3>3 DEF AllHeld
  <2>2. \A p \in listed' : Rank(starts, p[2]) = p[1]
    BY <1>0, <1>2 DEF ListInv, KeptInv
  <2>3. ASSUME NEW p \in listed', NEW b \in starts, b < p[2] PROVE b \in Listed'
    <3>1. CASE p \in listed
      BY <1>7, <2>3, <3>1 DEF ListInv, KeptInv
    <3>2. CASE p = <<id, f>>
      BY <1>2, <1>5, <1>6, <1>7, <2>0, <2>3, <3>2 DEF ListInv, KeptInv
    <3> QED BY <1>0, <3>1, <3>2
  <2>4. \A b \in starts \ Listed' : id + 1 <= Rank(starts, b)
    BY <1>6, <1>7, <2>0 DEF ListInv, KeptInv
  <2>5. \E p \in listed' : p[1] = (id + 1) - 1
    <3>1. (id + 1) - 1 = id
      BY <1>3
    <3>2. <<id, f>>[1] = id
      OBVIOUS
    <3>3. <<id, f>> \in listed'
      BY <1>0
    <3> QED BY <3>1, <3>2, <3>3
  <2> QED
    BY <1>1, <1>4, <2>0, <2>1, <2>2, <2>3, <2>4, <2>5 DEF KeptInv
<1>10. kept' = kept /\ grown' = grown
  BY DEF NextFunction
<1>11. ~(kept /\ ~grown) => KeptInv'
  BY <1>10 DEF KeptInv
<1> QED BY <1>8, <1>9, <1>11

\* The iterator ends.
LEMMA EndOfListList ==
    ASSUME ListInv, EndOfList
    PROVE  CursorInv' /\ KeptInv'
<1>1. funcs \in Tables /\ starts' = starts
  BY DEF ListInv, Inv, HandleInv, EndOfList, starts
<1>2. /\ iter.start \in Nat /\ iter.end \in Nat
      /\ iter.start <= iter.end
  BY RangeType DEF ListInv, CursorInv
<1>3. iter'.start = iter.end /\ iter'.end = iter.end
  BY DEF EndOfList, ListInv, Inv, ListType
<1>4. \A b \in starts : Rank(starts, b) \in Nat
  BY <1>1, TableFinite, RankType
<1>5. CursorInv'
  BY <1>1, <1>2, <1>3, <1>4 DEF ListInv, CursorInv, NothingListedTwice, EndOfList
<1>6. ASSUME kept, ~grown PROVE starts \subseteq Listed
  <2> SUFFICES ASSUME NEW b \in starts, b \notin Listed PROVE FALSE
    OBVIOUS
  <2>1. iter.start <= Rank(starts, b)
    BY <1>6 DEF ListInv, KeptInv, EndOfList
  <2>2. Rank(starts, b) < iter.end
    <3>1. Rank(starts, b) < Cardinality(starts) /\ Cardinality(starts) \in Nat
      BY <1>1, TableFinite, RankBelowCount, FS_CardinalityType
    <3>2. Cardinality(starts) <= iter.end
      BY <1>6 DEF ListInv, CursorInv
    <3> QED BY <1>2, <1>4, <3>1, <3>2
  <2>3. GetNFunc(Rank(starts, b)) # NoFunction
    BY <1>1, GetNFuncIsRank, TableFinite, AddressesAssumption
  <2>4. Rank(starts, b) \in Found
    <3>1. Rank(starts, b) \in iter.start .. iter.end - 1
      BY <1>2, <1>4, <2>1, <2>2
    <3> QED BY <2>3, <3>1 DEF Found
  <2> QED BY <2>4 DEF EndOfList
<1>7. KeptInv'
  BY <1>1, <1>6 DEF ListInv, KeptInv, EndOfList, AllHeld, Listed
<1> QED BY <1>5, <1>7

\* A plugin changes the table.
LEMMA RunPluginList ==
    ASSUME ListInv, RunPlugin
    PROVE  CursorInv' /\ KeptInv'
<1>0. CASE grown'
  BY <1>0 DEF ListInv, CursorInv, KeptInv, RunPlugin
<1>1. CASE ~grown'
  <2>1. /\ ~grown /\ starts' \in SUBSET starts
        /\ funcs \in Tables /\ funcs' \in Tables
    BY <1>1 DEF RunPlugin, starts, ListInv, Inv, HandleInv
  <2>2. /\ starts \in SUBSET Nat /\ IsFiniteSet(starts)
        /\ starts' \in SUBSET Nat /\ IsFiniteSet(starts')
    BY <2>1, TableFinite, FS_Subset
  <2>3. /\ Cardinality(starts') <= Cardinality(starts)
        /\ Cardinality(starts') \in Nat /\ Cardinality(starts) \in Nat
    BY <2>1, <2>2, FS_Subset, FS_CardinalityType
  <2>4. iter.start \in Nat /\ iter.end \in Nat
    BY RangeType DEF ListInv
  <2>5. \A b : /\ Rank(starts, b) \in Nat /\ Rank(starts', b) \in Nat
               /\ Rank(starts', b) <= Rank(starts, b)
    BY <2>1, <2>2, RankType, RankShrinks
  <2>6. CursorInv'
    <3>1. \A p \in listed : p[2] \in starts' => Rank(starts', p[2]) < iter.start
      <4> SUFFICES ASSUME NEW p \in listed, p[2] \in starts'
                   PROVE  Rank(starts', p[2]) < iter.start
        OBVIOUS
      <4>1. Rank(starts, p[2]) < iter.start
        BY <2>1 DEF ListInv, CursorInv
      <4> QED BY <2>4, <2>5, <4>1
    <3>2. Cardinality(starts') <= iter.end
      <4>1. Cardinality(starts) <= iter.end
        BY <2>1 DEF ListInv, CursorInv
      <4> QED BY <2>3, <2>4, <4>1
    <3> QED
      BY <2>1, <3>1, <3>2 DEF ListInv, CursorInv, NothingListedTwice, RunPlugin
  <2>7. ASSUME kept PROVE KeptInv'
    <3> USE <2>7
    <3>1. \A p \in listed : p[2] \in starts'
      <4> SUFFICES ASSUME NEW p \in listed PROVE p[2] \in starts'
        OBVIOUS
      <4>1. PICK t \in Slots : held[t] = p[2]
        BY <2>1 DEF ListInv, KeptInv, AllHeld
      <4>2. p[2] # NoFunction
        BY AddressesAssumption DEF ListInv, Inv, ListType
      <4>3. HandlesStayValid' /\ held' = held
        BY RunPluginInv DEF ListInv, Inv, HandleInv, RunPlugin
      <4> QED BY <4>1, <4>2, <4>3 DEF HandlesStayValid
    <3>2. ASSUME NEW p \in listed PROVE Rank(starts', p[2]) = p[1]
      <4>1. \A b \in starts : b < p[2] => b \in starts'
        BY <2>1, <3>1 DEF ListInv, KeptInv, Listed
      <4>2. {b \in starts' : b < p[2]} = {b \in starts : b < p[2]}
        BY <2>1, <4>1
      <4>3. Rank(starts, p[2]) = p[1]
        BY <2>1 DEF ListInv, KeptInv
      <4> QED BY <4>2, <4>3 DEF Rank
    <3>3. ASSUME ~ended, NEW b \in starts' \ Listed
          PROVE  iter.start <= Rank(starts', b)
      <4>1. CASE iter.start = 0
        BY <2>5, <4>1
      <4>2. CASE \E p \in listed : p[1] = iter.start - 1
        <5>1. PICK p \in listed : p[1] = iter.start - 1
          BY <4>2
        <5>2. p[2] \in starts' /\ Rank(starts', p[2]) = iter.start - 1
          BY <3>1, <3>2, <5>1
        <5>3. p[2] < b
          <6>1. b # p[2]
            BY <3>3 DEF Listed
          <6>2. ~(b < p[2])
            BY <2>1, <3>3 DEF ListInv, KeptInv
          <6>3. p[2] \in Nat /\ b \in Nat
            BY <2>2, <3>3, <5>2
          <6> QED BY <6>1, <6>2, <6>3
        <5>4. Rank(starts', p[2]) + 1 <= Rank(starts', b)
          BY <2>2, <3>3, <5>2, <5>3, RankAscends
        <5>5. Rank(starts', b) \in Nat
          BY <2>5
        <5> QED BY <2>4, <5>2, <5>4, <5>5
      <4> QED BY <2>1, <3>3, <4>1, <4>2 DEF ListInv, KeptInv
    <3> QED
      BY <2>1, <3>2, <3>3 DEF ListInv, KeptInv, AllHeld, Listed, RunPlugin
  <2>8. ~kept => KeptInv'
    BY DEF KeptInv, RunPlugin
  <2> QED BY <2>6, <2>7, <2>8
<1> QED
  BY <1>0, <1>1 DEF ListInv, Inv, ListType, RunPlugin

LEMMA NextListInv == ListInv /\ [Next]_vars => ListInv'
<1> SUFFICES ASSUME ListInv, [Next]_vars PROVE CursorInv' /\ KeptInv'
  BY NextInv DEF ListInv
<1>1. CASE UNCHANGED vars
  BY <1>1 DEF vars, ListInv, CursorInv, KeptInv, AllHeld, Listed, NothingListedTwice, starts
<1>2. ASSUME NEW s \in Slots, NEW f, FromPtr(s, f), f # NoFunction,
             UNCHANGED <<funcs, iter, listed, ended, kept, grown>>
      PROVE  CursorInv' /\ KeptInv'
  <2>1. AllHeld(held) => AllHeld(held)'
    <3> SUFFICES ASSUME AllHeld(held), NEW p \in listed
                 PROVE  \E t \in Slots : held'[t] = p[2]
      BY <1>2 DEF AllHeld
    <3>1. PICK t \in Slots : held[t] = p[2]
      BY DEF AllHeld
    <3>2. p[2] # NoFunction
      BY AddressesAssumption DEF ListInv, Inv, ListType
    <3> QED BY <1>2, <3>1, <3>2 DEF FromPtr, ListInv, Inv, HandleInv
  <2> QED
    BY <1>2, <2>1 DEF ListInv, CursorInv, KeptInv, Listed, NothingListedTwice, starts
<1>3. ASSUME NEW s \in Slots, NEW ea \in Addresses, FunctionAt(s, ea)
      PROVE  CursorInv' /\ KeptInv'
  BY <1>2, <1>3 DEF FunctionAt
<1>4. ASSUME NEW s \in Slots, NEW id \in Count, FunctionById(s, id)
      PROVE  CursorInv' /\ KeptInv'
  BY <1>2, <1>4 DEF FunctionById
<1>5. ASSUME NEW s \in Slots, DropFunction(s)
      PROVE  CursorInv' /\ KeptInv'
  <2>1. kept' => kept /\ AllHeld(held)'
    BY <1>5 DEF DropFunction, AllHeld
  <2> QED
    BY <1>5, <2>1
       DEF DropFunction, ListInv, CursorInv, KeptInv, Listed, NothingListedTwice, starts
<1> QED
  BY <1>1, <1>3, <1>4, <1>5, RunPluginList, ListFunctionsList, NextFunctionList, EndOfListList
     DEF Next

THEOREM ListInvariance == Spec => []ListInv
<1> QED BY InitListInv, NextListInv, PTL DEF Spec

-----------------------------------------------------------------------------
(* Theorems.                                                               *)

\* An id that the iterator returned with a function still finds that function,
\* as long as what was returned is held and nothing is created.
THEOREM KeptIdsAreTrue == Spec => []IdsStayTrue
<1>1. ListInv => IdsStayTrue
  <2> SUFFICES ASSUME ListInv, kept, ~grown, NEW p \in listed
               PROVE  GetNFunc(p[1]) = p[2]
    BY DEF IdsStayTrue
  <2>1. PICK t \in Slots : held[t] = p[2]
    BY DEF ListInv, KeptInv, AllHeld
  <2>2. p[2] # NoFunction
    BY AddressesAssumption DEF ListInv, Inv, ListType
  <2>3. p[2] \in starts
    BY <2>1, <2>2 DEF ListInv, Inv, HandleInv, HandlesStayValid
  <2>4. Rank(starts, p[2]) = p[1]
    BY DEF ListInv, KeptInv
  <2> QED BY <2>3, <2>4, GetNFuncIsRank DEF ListInv, Inv, HandleInv
<1> QED BY <1>1, ListInvariance, PTL

\* An iteration whose handles are kept ends with every function there is,
\* whatever was deleted on the way.
THEOREM KeptListingMissesNothing == Spec => []KeptListingIsComplete
<1>1. ListInv => KeptListingIsComplete
  BY DEF ListInv, KeptInv, KeptListingIsComplete, Listed
<1> QED BY <1>1, ListInvariance, PTL

\* Deletions never make the iterator return a function again, kept or not.
THEOREM DeletionsRepeatNothing == Spec => []NothingListedTwice
<1>1. ListInv => NothingListedTwice
  BY DEF ListInv, CursorInv, NothingListedTwice
<1> QED BY <1>1, ListInvariance, PTL
=============================================================================

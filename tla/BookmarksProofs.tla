--------------------------- MODULE BookmarksProofs --------------------------
(***************************************************************************)
(* Proofs about Bookmarks, for every set of addresses and descriptions and *)
(* every largest index: the SDK is never asked to erase what it does not   *)
(* have, a list without skipped indexes has no holes, and a kept index     *)
(* leads to its bookmark.                                                  *)
(***************************************************************************)
EXTENDS Bookmarks, TLAPS

\* Where the bookmark of the kept index is now.
HandleInv ==
    handle # NoHandle =>
        /\ handle.below <= handle.index
        /\ handle.index - handle.below < len
        /\ slots[handle.index - handle.below] = handle.mark

NoHoles == ~gapped => \A i \in Indexes : i < len => slots[i] # NoMark

Inv ==
    /\ TypeOK
    /\ NothingBeyondTheEnd
    /\ NoInternalError
    /\ HandleInv
    /\ NoHoles

LEMMA InitInv == Init => Inv
<1> SUFFICES ASSUME Init PROVE Inv
  OBVIOUS
<1>1. TypeOK
  <2>1. slots \in [Indexes -> Marks \cup {NoMark}]
    BY DEF Init
  <2>2. len \in 0 .. BadIndex
    BY BadIndexAssumption DEF Init
  <2>3. handle = NoHandle /\ internalError \in BOOLEAN /\ gapped \in BOOLEAN
    BY DEF Init
  <2> QED BY <2>1, <2>2, <2>3 DEF TypeOK
<1>2. NothingBeyondTheEnd /\ NoHoles
  BY DEF Init, NothingBeyondTheEnd, NoHoles, Indexes
<1>3. NoInternalError /\ HandleInv
  BY DEF Init, NoInternalError, HandleInv
<1> QED BY <1>1, <1>2, <1>3 DEF Inv

-----------------------------------------------------------------------------
(* What the SDK's two operations do to a list.                             *)

\* A mark changes at most an empty slot, and the list ends after it.
LEMMA SdkMarkKeeps ==
    ASSUME TypeOK, NothingBeyondTheEnd,
           NEW ea \in MarkAddresses, NEW desc \in MarkDescriptions, NEW idx \in 0 .. BadIndex,
           SdkMark(ea, idx, desc)
    PROVE  /\ slots' \in [Indexes -> Marks \cup {NoMark}]
           /\ len' \in 0 .. BadIndex
           /\ len <= len'
           /\ NothingBeyondTheEnd'
           /\ \A i \in Indexes : slots[i] # NoMark => slots'[i] = slots[i]
           /\ idx <= len =>
                \A i \in Indexes : i < len' => i < len \/ slots'[i] # NoMark
<1> DEFINE mark == [ea |-> ea, desc |-> desc]
<1>1. mark \in Marks /\ mark # NoMark
  BY NoMarkAssumption DEF Marks
<1>2. CASE idx = BadIndex \/ slots[idx] # NoMark
  BY <1>2, BadIndexAssumption DEF SdkMark, TypeOK, NothingBeyondTheEnd, Indexes
<1>3. CASE ~(idx = BadIndex \/ slots[idx] # NoMark)
  <2>1. idx \in Indexes /\ slots[idx] = NoMark
    BY <1>3, BadIndexAssumption DEF Indexes
  <2>2. /\ slots' = [slots EXCEPT ![idx] = mark]
        /\ len' = IF idx < len THEN len ELSE idx + 1
    BY <1>3 DEF SdkMark
  <2>3. slots' \in [Indexes -> Marks \cup {NoMark}]
    BY <1>1, <2>2 DEF TypeOK
  <2>4. len' \in 0 .. BadIndex /\ len <= len'
    BY <2>1, <2>2, BadIndexAssumption DEF TypeOK, Indexes
  <2>5. NothingBeyondTheEnd'
    BY <2>1, <2>2, <2>3, BadIndexAssumption DEF TypeOK, NothingBeyondTheEnd, Indexes
  <2>6. \A i \in Indexes : slots[i] # NoMark => slots'[i] = slots[i]
    BY <2>1, <2>2 DEF TypeOK
  <2>7. ASSUME idx <= len, NEW i \in Indexes, i < len', ~(i < len)
        PROVE  slots'[i] # NoMark
    <3>1. i = idx
      BY <2>1, <2>2, <2>7, BadIndexAssumption DEF TypeOK, Indexes
    <3> QED BY <1>1, <2>1, <2>2, <3>1 DEF TypeOK
  <2> QED BY <2>3, <2>4, <2>5, <2>6, <2>7
<1> QED BY <1>2, <1>3

\* Erasing shifts what follows and nothing else.
LEMMA SdkEraseShifts ==
    ASSUME TypeOK, NothingBeyondTheEnd, NEW idx \in Indexes, idx < len, SdkErase(idx)
    PROVE  /\ slots' \in [Indexes -> Marks \cup {NoMark}]
           /\ len' = len - 1 /\ len' \in 0 .. BadIndex
           /\ NothingBeyondTheEnd'
           /\ UNCHANGED internalError
           /\ \A i \in Indexes : i < idx => slots'[i] = slots[i]
           /\ \A i \in Indexes : i > idx /\ i < len => slots'[i - 1] = slots[i]
<1>1. /\ slots' = [i \in Indexes |->
                     CASE i < idx -> slots[i]
                       [] i >= idx /\ i + 1 < len -> slots[i + 1]
                       [] OTHER -> NoMark]
      /\ len' = len - 1
      /\ UNCHANGED internalError
  BY DEF SdkErase
<1>2. len' \in 0 .. BadIndex
  BY <1>1, BadIndexAssumption DEF TypeOK, Indexes
<1>3. ASSUME NEW i \in Indexes
      PROVE  /\ i < idx => slots'[i] = slots[i]
             /\ i >= idx /\ i + 1 < len => slots'[i] = slots[i + 1]
             /\ i >= idx /\ ~(i + 1 < len) => slots'[i] = NoMark
  BY <1>1, BadIndexAssumption DEF Indexes, TypeOK
<1>4. slots' \in [Indexes -> Marks \cup {NoMark}]
  <2>1. ASSUME NEW i \in Indexes PROVE slots'[i] \in Marks \cup {NoMark}
    <3>1. CASE i < idx
      BY <1>3, <3>1 DEF TypeOK
    <3>2. CASE i >= idx /\ i + 1 < len
      <4>1. i + 1 \in Indexes
        BY <3>2, BadIndexAssumption DEF TypeOK, Indexes
      <4> QED BY <1>3, <3>2, <4>1 DEF TypeOK
    <3>3. CASE i >= idx /\ ~(i + 1 < len)
      BY <1>3, <3>3
    <3> QED BY <3>1, <3>2, <3>3 DEF Indexes
  <2> QED BY <1>1, <2>1
<1>5. NothingBeyondTheEnd'
  <2>1. ASSUME NEW i \in Indexes, i >= len' PROVE slots'[i] = NoMark
    <3>1. i >= idx /\ ~(i + 1 < len)
      BY <1>1, <2>1, BadIndexAssumption DEF TypeOK, Indexes
    <3> QED BY <1>3, <3>1
  <2> QED BY <2>1 DEF NothingBeyondTheEnd
<1>6. ASSUME NEW i \in Indexes, i > idx, i < len PROVE slots'[i - 1] = slots[i]
  <2>1. i - 1 \in Indexes /\ i - 1 >= idx /\ (i - 1) + 1 = i
    BY <1>6, BadIndexAssumption DEF Indexes
  <2> QED BY <1>3, <1>6, <2>1
<1> QED BY <1>1, <1>2, <1>3, <1>4, <1>5, <1>6

-----------------------------------------------------------------------------
(* The inductive invariant.                                                *)

LEMMA MarkWithInv ==
    ASSUME Inv, NEW ea \in MarkAddresses, NEW desc \in MarkDescriptions, NEW idx \in 0 .. BadIndex,
           MarkWith(ea, idx, desc)
    PROVE  Inv'
<1>1. /\ slots' \in [Indexes -> Marks \cup {NoMark}]
      /\ len' \in 0 .. BadIndex
      /\ len <= len'
      /\ NothingBeyondTheEnd'
      /\ \A i \in Indexes : slots[i] # NoMark => slots'[i] = slots[i]
      /\ idx <= len => \A i \in Indexes : i < len' => i < len \/ slots'[i] # NoMark
  BY SdkMarkKeeps DEF Inv, MarkWith
<1>2. TypeOK' /\ NoInternalError'
  BY <1>1 DEF Inv, TypeOK, NoInternalError, MarkWith
<1>3. HandleInv'
  <2>1. CASE handle = NoHandle
    BY <2>1 DEF MarkWith, HandleInv
  <2>2. CASE handle # NoHandle
    <3>1. handle \in Handles /\ handle.index - handle.below \in Indexes
      BY <2>2, BadIndexAssumption DEF Inv, TypeOK, HandleInv, Handles, Indexes
    <3>2. handle.mark # NoMark
      BY <3>1, NoMarkAssumption DEF Handles
    <3> QED BY <1>1, <2>2, <3>1, <3>2 DEF Inv, TypeOK, HandleInv, MarkWith, Handles, Indexes
  <2> QED BY <2>1, <2>2
<1>4. NoHoles'
  <2>1. CASE idx <= len
    BY <1>1, <2>1 DEF Inv, NoHoles, MarkWith
  <2>2. CASE idx > len /\ idx < BadIndex
    BY <2>2 DEF Inv, NoHoles, MarkWith
  <2>3. CASE idx = BadIndex
    BY <2>3 DEF Inv, NoHoles, MarkWith, SdkMark, TypeOK
  <2> QED BY <2>1, <2>2, <2>3, BadIndexAssumption DEF Inv, TypeOK
<1> QED BY <1>1, <1>2, <1>3, <1>4 DEF Inv

LEMMA MarkInv ==
    ASSUME Inv, NEW ea \in MarkAddresses, NEW desc \in MarkDescriptions, Mark(ea, desc)
    PROVE  Inv'
<1> DEFINE mark == [ea |-> ea, desc |-> desc]
<1>1. len \in 0 .. BadIndex /\ SdkMark(ea, len, desc)
  BY DEF Inv, TypeOK, Mark
<1>2. /\ slots' \in [Indexes -> Marks \cup {NoMark}]
      /\ len' \in 0 .. BadIndex
      /\ len <= len'
      /\ NothingBeyondTheEnd'
      /\ \A i \in Indexes : slots[i] # NoMark => slots'[i] = slots[i]
      /\ \A i \in Indexes : i < len' => i < len \/ slots'[i] # NoMark
  BY <1>1, SdkMarkKeeps DEF Inv, TypeOK
<1>3. NoHoles' /\ NoInternalError'
  BY <1>2 DEF Inv, NoHoles, NoInternalError, Mark
<1>4. CASE len = BadIndex
  <2>1. handle' = handle /\ slots' = slots /\ len' = len
    BY <1>4 DEF Mark, SdkMark
  <2> QED BY <1>2, <1>3, <2>1 DEF Inv, TypeOK, HandleInv, Mark
<1>5. CASE len # BadIndex
  <2>1. handle' = [index |-> len, mark |-> mark, below |-> 0]
    BY <1>5 DEF Mark
  <2>2. len \in Indexes /\ slots[len] = NoMark
    BY <1>5, BadIndexAssumption DEF Inv, TypeOK, NothingBeyondTheEnd, Indexes
  <2>3. slots' = [slots EXCEPT ![len] = mark] /\ len' = len + 1
    BY <1>1, <1>5, <2>2, BadIndexAssumption DEF SdkMark, Indexes
  <2>4. handle' \in Handles
    BY <2>1, <2>2 DEF Handles, Marks
  <2>5. HandleInv'
    <3>1. handle'.index - handle'.below = len
      BY <2>1, <2>2 DEF Indexes
    <3>2. slots'[len] = mark
      BY <2>2, <2>3 DEF Inv, TypeOK
    <3> QED BY <2>1, <2>2, <2>3, <3>1, <3>2 DEF HandleInv, Indexes
  <2> QED BY <1>2, <1>3, <2>4, <2>5 DEF Inv, TypeOK, Mark
<1> QED BY <1>4, <1>5

LEMMA EraseByIndexInv ==
    ASSUME Inv, NEW idx \in 0 .. BadIndex, EraseByIndex(idx)
    PROVE  Inv'
<1>1. CASE idx >= len /\ UNCHANGED <<slots, len, internalError, handle>>
  BY <1>1 DEF Inv, EraseByIndex, TypeOK, NothingBeyondTheEnd, NoInternalError, HandleInv, NoHoles
<1>2. CASE idx < len /\ SdkErase(idx) /\ handle' = ShiftHandle(idx)
  <2>1. idx \in Indexes
    BY <1>2, BadIndexAssumption DEF Inv, TypeOK, Indexes
  <2>2. /\ slots' \in [Indexes -> Marks \cup {NoMark}]
        /\ len' = len - 1 /\ len' \in 0 .. BadIndex
        /\ NothingBeyondTheEnd'
        /\ UNCHANGED internalError
        /\ \A i \in Indexes : i < idx => slots'[i] = slots[i]
        /\ \A i \in Indexes : i > idx /\ i < len => slots'[i - 1] = slots[i]
    BY <1>2, <2>1, SdkEraseShifts DEF Inv
  <2>3. NoHoles'
    <3>1. ASSUME ~gapped, NEW i \in Indexes, i < len' PROVE slots'[i] # NoMark
      <4>1. CASE i < idx
        BY <2>1, <2>2, <3>1, <4>1, BadIndexAssumption DEF Inv, TypeOK, NoHoles, Indexes
      <4>2. CASE i >= idx
        <5>1. i + 1 \in Indexes /\ i + 1 > idx /\ i + 1 < len /\ (i + 1) - 1 = i
          BY <2>1, <2>2, <3>1, <4>2, BadIndexAssumption DEF Inv, TypeOK, Indexes
        <5>2. slots'[i] = slots[i + 1]
          BY <2>2, <5>1
        <5> QED BY <3>1, <5>1, <5>2 DEF Inv, NoHoles
      <4> QED BY <2>1, <3>1, <4>1, <4>2 DEF Indexes
    <3> QED BY <3>1 DEF NoHoles, EraseByIndex
  <2>4. (handle' = NoHandle \/ handle' \in Handles) /\ HandleInv'
    <3>1. CASE handle = NoHandle
      BY <1>2, <3>1 DEF ShiftHandle, HandleInv
    <3>2. CASE handle # NoHandle
      <4> DEFINE k == handle.index - handle.below
      <4>1. /\ handle \in Handles /\ k \in Indexes
            /\ handle.below \in Nat /\ handle.index \in Nat /\ handle.below <= handle.index
            /\ k < len /\ slots[k] = handle.mark
        BY <3>2, BadIndexAssumption DEF Inv, TypeOK, HandleInv, Handles, Indexes
      <4>2. CASE idx < k
        <5>1. handle' = [handle EXCEPT !.below = @ + 1]
          BY <1>2, <3>2, <4>2 DEF ShiftHandle
        <5>2. /\ handle'.below = handle.below + 1
              /\ handle'.index = handle.index /\ handle'.mark = handle.mark
              /\ handle' \in Handles
          BY <4>1, <5>1 DEF Handles
        <5>3. handle'.index - handle'.below = k - 1 /\ handle'.below <= handle'.index
          BY <2>1, <4>1, <4>2, <5>2 DEF Indexes
        <5>4. slots'[k - 1] = slots[k]
          BY <2>2, <4>1, <4>2
        <5>5. k - 1 < len'
          BY <2>2, <4>1 DEF Inv, TypeOK, Indexes
        <5> QED BY <4>1, <5>2, <5>3, <5>4, <5>5 DEF HandleInv
      <4>3. CASE idx = k
        BY <1>2, <3>2, <4>3 DEF ShiftHandle, HandleInv
      <4>4. CASE idx > k
        <5>1. handle' = handle
          BY <1>2, <2>1, <3>2, <4>1, <4>4 DEF ShiftHandle, Indexes
        <5>2. slots'[k] = slots[k] /\ k < len'
          BY <1>2, <2>1, <2>2, <4>1, <4>4 DEF Inv, TypeOK, Indexes
        <5> QED BY <4>1, <5>1, <5>2 DEF HandleInv
      <4> QED BY <2>1, <4>1, <4>2, <4>3, <4>4 DEF Indexes
    <3> QED BY <3>1, <3>2
  <2> QED
    BY <2>2, <2>3, <2>4 DEF Inv, TypeOK, NoInternalError, EraseByIndex
<1> QED BY <1>1, <1>2 DEF EraseByIndex

LEMMA NextInv == Inv /\ [Next]_vars => Inv'
<1> SUFFICES ASSUME Inv, [Next]_vars PROVE Inv'
  OBVIOUS
<1>1. CASE UNCHANGED vars
  BY <1>1 DEF vars, Inv, TypeOK, NothingBeyondTheEnd, NoInternalError, HandleInv, NoHoles
<1>2. ASSUME NEW ea \in MarkAddresses, Erase(ea) PROVE Inv'
  <2>1. PICK idx \in SdkFindIndex(ea) : EraseByIndex(idx)
    BY <1>2 DEF Erase
  <2>2. idx \in 0 .. BadIndex
    BY <2>1, BadIndexAssumption DEF SdkFindIndex, Indexes
  <2> QED BY <2>1, <2>2, EraseByIndexInv
<1> QED BY <1>1, <1>2, MarkInv, MarkWithInv, EraseByIndexInv DEF Next

THEOREM Invariance == Spec => []Inv
<1> QED BY InitInv, NextInv, PTL DEF Spec

-----------------------------------------------------------------------------
(* Theorems.                                                               *)

\* Every variable stays in its type: the list never grows past the largest
\* index.
THEOREM TypeCorrect == Spec => []TypeOK
<1>1. Inv => TypeOK
  BY DEF Inv
<1> QED BY <1>1, Invariance, PTL

\* erase_by_index never provokes the SDK's internal error.
THEOREM EraseIsGuarded == Spec => []NoInternalError
<1>1. Inv => NoInternalError
  BY DEF Inv
<1> QED BY <1>1, Invariance, PTL

\* A list in which mark_with skipped no index has an address at every index.
THEOREM ListIsDense == Spec => []DenseUnlessSkipped
<1>1. Inv => DenseUnlessSkipped
  <2>1. ASSUME Inv, ~gapped, NEW i \in 0 .. len - 1 PROVE GetAddress(i) # {}
    <3>1. i \in Indexes /\ i < len
      BY <2>1, BadIndexAssumption DEF Inv, TypeOK, Indexes
    <3> QED BY <2>1, <3>1 DEF Inv, NoHoles, GetAddress
  <2> QED BY <2>1 DEF DenseUnlessSkipped
<1> QED BY <1>1, Invariance, PTL

\* A kept index, less the erasures below it, denotes the bookmark it was
\* returned for, which get_description finds at its address.
THEOREM KeptIndexIsRight == Spec => []KeptIndexTracksItsBookmark
<1>1. ASSUME Inv, handle # NoHandle
      PROVE  /\ handle.below <= handle.index
             /\ GetAddress(handle.index - handle.below) = {handle.mark.ea}
             /\ GetDescriptionByIndex(handle.index - handle.below) = Text(handle.mark.desc)
             /\ Text(handle.mark.desc) \in GetDescription(handle.mark.ea)
  <2> DEFINE k == handle.index - handle.below
  <2>1. /\ handle.below <= handle.index /\ k \in Indexes /\ k # BadIndex
        /\ k < len /\ slots[k] = handle.mark /\ handle.mark # NoMark
    BY <1>1, BadIndexAssumption, NoMarkAssumption
       DEF Inv, TypeOK, HandleInv, Handles, Indexes
  <2>2. GetAddress(k) = {handle.mark.ea} /\ GetDescriptionByIndex(k) = Text(handle.mark.desc)
    BY <2>1 DEF GetAddress, GetDescriptionByIndex
  <2>3. k \in SdkFindIndex(handle.mark.ea)
    BY <2>1 DEF SdkFindIndex
  <2>4. Text(handle.mark.desc) \in GetDescription(handle.mark.ea)
    BY <2>2, <2>3 DEF GetDescription
  <2> QED BY <2>1, <2>2, <2>4
<1>2. Inv => KeptIndexTracksItsBookmark
  BY <1>1 DEF KeptIndexTracksItsBookmark
<1> QED BY <1>2, Invariance, PTL
=============================================================================

----------------------------- MODULE Bookmarks ------------------------------
(***************************************************************************)
(* The bookmark list of a database: idalib/src/bookmarks.rs over the shims *)
(* of idalib-sys/src/bookmarks_extras.h.  The list itself is the SDK's and *)
(* behaves as the notes in bookmarks.rs say: a slot can stay empty, a used *)
(* slot is never overwritten, and erasing shifts the slots that follow.    *)
(* Indexes are 32-bit; BadIndex stands for 0xffffffff.                     *)
(*                                                                         *)
(* A definition whose name starts with Faulty is the definition after it   *)
(* with a plausible mistake, kept to show that a property notices it.      *)
(***************************************************************************)
EXTENDS Naturals, FiniteSets

CONSTANTS
    MarkAddresses,    \* the addresses a program bookmarks
    MarkDescriptions, \* the descriptions it gives
    Empty,            \* the description without text
    BadIndex,         \* BOOKMARKS_BAD_INDEX, one more than the largest index
    NoMark,           \* an empty slot
    NoHandle          \* the program remembers no index

ASSUME BadIndexAssumption == BadIndex \in Nat \ {0}

Indexes == 0 .. BadIndex - 1
Marks == [ea : MarkAddresses, desc : MarkDescriptions]

ASSUME NoMarkAssumption == NoMark \notin Marks

\* An index the program kept from mark(), the bookmark it stood for, and how
\* many bookmarks were erased below it since.
Handles == [index : Indexes, mark : Marks, below : Nat]

VARIABLES
    slots,          \* the SDK's list: what each index holds
    len,            \* bookmarks_t_size
    internalError,  \* the SDK was asked to erase an index it does not have
    handle,         \* an index the program kept
    gapped          \* mark_with ever skipped an index

vars == <<slots, len, internalError, handle, gapped>>

TypeOK ==
    /\ slots \in [Indexes -> Marks \cup {NoMark}]
    /\ len \in 0 .. BadIndex
    /\ internalError \in BOOLEAN
    /\ handle = NoHandle \/ handle \in Handles
    /\ gapped \in BOOLEAN

Init ==
    /\ slots = [i \in Indexes |-> NoMark]
    /\ len = 0
    /\ internalError = FALSE
    /\ handle = NoHandle
    /\ gapped = FALSE

-----------------------------------------------------------------------------
(* The SDK.                                                                *)

\* bookmarks_t_mark: a used slot is left alone without an error, any other
\* index below BadIndex is filled and the list grows up to it.
SdkMark(ea, idx, desc) ==
    IF idx = BadIndex \/ slots[idx] # NoMark
    THEN UNCHANGED <<slots, len>>
    ELSE /\ slots' = [slots EXCEPT ![idx] = [ea |-> ea, desc |-> desc]]
         /\ len' = IF idx < len THEN len ELSE idx + 1

\* bookmarks_t_erase: the following indexes are decremented to fill the gap;
\* an index the list does not have is an internal error of the SDK.
SdkErase(idx) ==
    IF idx < len
    THEN /\ slots' = [i \in Indexes |->
                        CASE i < idx -> slots[i]
                          [] i >= idx /\ i + 1 < len -> slots[i + 1]
                          [] OTHER -> NoMark]
         /\ len' = len - 1
         /\ UNCHANGED internalError
    ELSE internalError' = TRUE /\ UNCHANGED <<slots, len>>

\* bookmarks_t_find_index: some index of a bookmark at ea, or BadIndex.  At an
\* address with overlaid bookmarks the SDK picks one.
SdkFindIndex(ea) ==
    LET at == {i \in Indexes : i < len /\ slots[i] # NoMark /\ slots[i].ea = ea}
    IN  IF at = {} THEN {BadIndex} ELSE at

-----------------------------------------------------------------------------
(* The operations of Bookmarks.                                            *)

\* mark_with: a description that contains NUL is refused before the SDK sees
\* it, which is no step; otherwise the SDK decides.
MarkWith(ea, idx, desc) ==
    /\ SdkMark(ea, idx, desc)
    /\ gapped' = (gapped \/ (idx > len /\ idx < BadIndex))
    /\ UNCHANGED <<internalError, handle>>

FaultyMark(ea, desc) ==    \* the number of bookmarks, not the next index
    LET idx == Cardinality({i \in Indexes : slots[i] # NoMark})
    IN  /\ SdkMark(ea, idx, desc)
        /\ handle' = IF idx = BadIndex THEN handle
                     ELSE [index |-> idx, mark |-> [ea |-> ea, desc |-> desc], below |-> 0]
        /\ UNCHANGED <<internalError, gapped>>

FaultySkippingMark(ea, desc) ==  \* the slot after the next one
    /\ IF len = BadIndex THEN UNCHANGED <<slots, len>> ELSE SdkMark(ea, len + 1, desc)
    /\ handle' = IF len = BadIndex THEN handle
                 ELSE [index |-> len + 1, mark |-> [ea |-> ea, desc |-> desc], below |-> 0]
    /\ UNCHANGED <<internalError, gapped>>

\* mark: mark_with at index len(); Ok(slot) unless the slot is BadIndex.  The
\* program keeps the index it is given.
Mark(ea, desc) ==
    /\ SdkMark(ea, len, desc)
    /\ handle' = IF len = BadIndex THEN handle
                 ELSE [index |-> len, mark |-> [ea |-> ea, desc |-> desc], below |-> 0]
    /\ UNCHANGED <<internalError, gapped>>

\* What the kept index means after the bookmark at idx was erased.
ShiftHandle(idx) ==
    IF handle = NoHandle THEN NoHandle
    ELSE IF idx < handle.index - handle.below
         THEN [handle EXCEPT !.below = @ + 1]
         ELSE IF idx = handle.index - handle.below THEN NoHandle ELSE handle

FaultyEraseByIndex(idx) == \* the guard lets idx = len() through
    /\ \/ idx > len /\ UNCHANGED <<slots, len, internalError, handle>>
       \/ idx <= len /\ SdkErase(idx) /\ handle' = ShiftHandle(idx)
    /\ UNCHANGED gapped

\* erase_by_index: the guard keeps an index the list does not have from the
\* SDK.
EraseByIndex(idx) ==
    /\ \/ idx >= len /\ UNCHANGED <<slots, len, internalError, handle>>
       \/ idx < len /\ SdkErase(idx) /\ handle' = ShiftHandle(idx)
    /\ UNCHANGED gapped

\* erase: find_index, an error if there is none, then erase_by_index.
Erase(ea) ==
    \E idx \in SdkFindIndex(ea) :
        /\ idx # BadIndex
        /\ EraseByIndex(idx)

\* get_address and get_description_by_index, as sets; {} is None, which is what a
\* description without text comes to.
GetAddress(idx) ==
    IF idx < len /\ slots[idx] # NoMark THEN {slots[idx].ea} ELSE {}
Text(desc) == {desc} \ {Empty}
GetDescriptionByIndex(idx) ==
    IF idx < len /\ slots[idx] # NoMark THEN Text(slots[idx].desc) ELSE {}

\* get_description: the description at the index that find_index picks, for each
\* one it may pick; an address without a bookmark has the index BadIndex only,
\* which is none of the list's.
GetDescription(ea) == {GetDescriptionByIndex(idx) : idx \in SdkFindIndex(ea)}

Next ==
    \/ \E ea \in MarkAddresses, desc \in MarkDescriptions : Mark(ea, desc)
    \/ \E ea \in MarkAddresses, desc \in MarkDescriptions, idx \in 0 .. BadIndex :
         MarkWith(ea, idx, desc)
    \/ \E idx \in 0 .. BadIndex : EraseByIndex(idx)
    \/ \E ea \in MarkAddresses : Erase(ea)

Spec == Init /\ [][Next]_vars

-----------------------------------------------------------------------------
(* Properties.                                                             *)

\* The guard of erase_by_index is exact: whatever sequence of marks and
\* erasures came before, the SDK's internal error 1312 is never provoked.
NoInternalError == ~internalError

\* mark never loses a bookmark to a used slot, and a kept index can be put
\* right: minus the number of bookmarks erased below it, it still denotes the
\* bookmark it was returned for, whose description, if it has any text, can be
\* read by index and by address.
KeptIndexTracksItsBookmark ==
    handle # NoHandle =>
        /\ handle.below <= handle.index
        /\ GetAddress(handle.index - handle.below) = {handle.mark.ea}
        /\ GetDescriptionByIndex(handle.index - handle.below) = Text(handle.mark.desc)
        /\ Text(handle.mark.desc) \in GetDescription(handle.mark.ea)

\* As long as mark_with skips no index the list has no holes: every index
\* below len() has an address, so when no address is marked len() is 0.
DenseUnlessSkipped ==
    ~gapped => \A i \in 0 .. len - 1 : GetAddress(i) # {}

\* Nothing hides beyond the end of the list, where len() and the erase guard
\* could not see it.
NothingBeyondTheEnd == \A i \in Indexes : i >= len => slots[i] = NoMark
=============================================================================

------------------------------ MODULE NameList ------------------------------
(***************************************************************************)
(* The name list of a database and an iterator over it: idalib/src/name.rs.*)
(* The SDK keeps the list sorted by address and updates it when anything   *)
(* names or unnames an address, which a plugin or a comment command may do *)
(* between two steps of an iterator; an entry whose name is null is        *)
(* skipped.  The text and the flags of a name are left out.                *)
(*                                                                         *)
(* A definition whose name starts with Faulty is the definition after it   *)
(* with a plausible mistake, kept to show that a property notices it.      *)
(***************************************************************************)
EXTENDS Naturals, Sequences, FiniteSets, Ranks

CONSTANTS
    Addresses,    \* the addresses that can have a name, natural numbers
    MaxYielded    \* bound on the names one iterator returns

VARIABLES
    listed,     \* the addresses in the SDK's list
    nameless,   \* the listed addresses whose get_nlist_name is null
    current,    \* current_index of the iterator
    yielded,    \* the addresses of the names the iterator has returned
    exhausted,  \* the iterator has returned None
    steady,     \* the addresses that had a name ever since the iterator was made
    grown,      \* an address was added since then
    shrunk      \* an address was removed since then

vars == <<listed, nameless, current, yielded, exhausted, steady, grown, shrunk>>

\* iter: a new iterator.
Init ==
    /\ listed \in SUBSET Addresses
    /\ nameless \in SUBSET listed
    /\ current = 0
    /\ yielded = <<>>
    /\ exhausted = FALSE
    /\ steady = listed \ nameless
    /\ grown = FALSE
    /\ shrunk = FALSE

-----------------------------------------------------------------------------
(* The operations of NameList; indexes start at 0 and {} is None.          *)

\* len: get_nlist_size.
NameCount == Cardinality(listed)

\* get_address_by_index: get_nlist_ea, BADADDR beyond the list.
GetAddressByIndex(index) == {ea \in listed : Rank(listed, ea) = index}

\* get_by_index: None without an address and for a null name.
GetByIndex(index) == GetAddressByIndex(index) \ nameless

\* The indexes from current_index on at which the loop of next would stop.
Candidates == {i \in current .. NameCount - 1 : GetByIndex(i) # {}}
First(S) == CHOOSE i \in S : \A j \in S : i <= j

FaultyNextName ==     \* after an entry without a name the next one is lost
    /\ Len(yielded) < MaxYielded
    /\ \/ /\ Candidates # {}
          /\ current' = First(Candidates) + 1
             + (IF First(Candidates) = current THEN 0 ELSE 1)
          /\ \E ea \in GetByIndex(First(Candidates)) : yielded' = Append(yielded, ea)
          /\ UNCHANGED exhausted
       \/ /\ Candidates = {}
          /\ current' = IF current < NameCount THEN NameCount ELSE current
          /\ exhausted' = TRUE
          /\ UNCHANGED yielded
    /\ UNCHANGED <<listed, nameless, steady, grown, shrunk>>

FaultyStuckNextName == \* current_index is left at the entry returned
    /\ Len(yielded) < MaxYielded
    /\ \/ /\ Candidates # {}
          /\ current' = First(Candidates)
          /\ \E ea \in GetByIndex(First(Candidates)) : yielded' = Append(yielded, ea)
          /\ UNCHANGED exhausted
       \/ /\ Candidates = {}
          /\ current' = IF current < NameCount THEN NameCount ELSE current
          /\ exhausted' = TRUE
          /\ UNCHANGED yielded
    /\ UNCHANGED <<listed, nameless, steady, grown, shrunk>>

\* NameListIter::next: entries without a name are passed over, the first one
\* with a name is returned, and current_index ends up behind the last entry
\* looked at.
NextName ==
    /\ Len(yielded) < MaxYielded
    /\ \/ /\ Candidates # {}
          /\ current' = First(Candidates) + 1
          /\ \E ea \in GetByIndex(First(Candidates)) : yielded' = Append(yielded, ea)
          /\ UNCHANGED exhausted
       \/ /\ Candidates = {}
          /\ current' = IF current < NameCount THEN NameCount ELSE current
          /\ exhausted' = TRUE
          /\ UNCHANGED yielded
    /\ UNCHANGED <<listed, nameless, steady, grown, shrunk>>

-----------------------------------------------------------------------------
(* What else happens to the names of the database meanwhile.               *)

\* An address joins the list, with a name or without.
AddName ==
    /\ \E ea \in Addresses \ listed :
         /\ listed' = listed \cup {ea}
         /\ nameless' \in {nameless, nameless \cup {ea}}
    /\ grown' = TRUE
    /\ UNCHANGED <<current, yielded, exhausted, steady, shrunk>>

\* An address leaves the list.
RemoveName ==
    /\ \E ea \in listed :
         /\ listed' = listed \ {ea}
         /\ nameless' = nameless \ {ea}
         /\ steady' = steady \ {ea}
    /\ shrunk' = TRUE
    /\ UNCHANGED <<current, yielded, exhausted, grown>>

Next == NextName \/ AddName \/ RemoveName

Spec == Init /\ [][Next]_vars

-----------------------------------------------------------------------------
(* Properties.                                                             *)

\* Names that are added while an iterator runs never make it lose one that was
\* there all the time: only a removal can.
NothingLostByGrowth ==
    exhausted /\ ~shrunk => steady \subseteq {yielded[i] : i \in DOMAIN yielded}

\* Names that are removed while an iterator runs never make it repeat one: only
\* an addition can.
NothingRepeatedByShrinking ==
    ~grown => \A i, j \in DOMAIN yielded : i < j => yielded[i] < yielded[j]
=============================================================================

---------------------------- MODULE EntryPoints -----------------------------
(***************************************************************************)
(* IDB::entries and EntryPointIter of idalib/src/idb.rs: an iterator over  *)
(* the entry points of the database, whose number it takes once, when it   *)
(* is made.  The SDK's table may change while the iterator is alive, since *)
(* running a plugin takes &self.                                           *)
(*                                                                         *)
(* A definition whose name starts with Faulty is the definition after it   *)
(* with a plausible mistake, kept to show that a property notices it.      *)
(***************************************************************************)
EXTENDS Integers, Sequences, SequencesExt

CONSTANTS
    Addresses,     \* the addresses of entry points
    BADADDR,       \* an ordinal without an address
    MaxEntries,    \* bound on the number of entry points
    MaxYielded     \* bound on the addresses one iterator returns

VARIABLES
    entries,    \* the SDK's table: get_entry of the ordinal at each index
    index,      \* of the iterator
    limit,      \* of the iterator
    hint,       \* what size_hint said when the iterator was made
    yielded,    \* the addresses the iterator has returned
    exhausted   \* the iterator has returned None

vars == <<entries, index, limit, hint, yielded, exhausted>>

Tables == UNION {[1 .. n -> Addresses \cup {BADADDR}] : n \in 0 .. MaxEntries}

\* size_hint: the upper bound of what is left.
SizeHint == limit - index

\* IDB::entries: get_entry_qty bounds the iteration.
Init ==
    /\ entries \in Tables
    /\ index = 0
    /\ limit = Len(entries)
    /\ hint = SizeHint
    /\ yielded = <<>>
    /\ exhausted = FALSE

\* get_entry of get_entry_ordinal; an index beyond the table has no ordinal
\* and no address.
GetEntry(i) == IF i < Len(entries) THEN entries[i + 1] ELSE BADADDR

\* The indexes the iterator can stop at.
Present == {i \in index .. limit - 1 : GetEntry(i) # BADADDR}
FirstPresent == CHOOSE i \in Present : \A j \in Present : i <= j

FaultyNextEntry == \* the end is the end of the table as it is now, as for strings
    LET there == {i \in index .. Len(entries) - 1 : GetEntry(i) # BADADDR} IN
    /\ Len(yielded) < MaxYielded
    /\ \/ \E first \in there :
             /\ \A i \in there : first <= i
             /\ index' = first
             /\ yielded' = Append(yielded, GetEntry(first))
          /\ UNCHANGED exhausted
       \/ /\ there = {}
          /\ index' = IF index < Len(entries) THEN Len(entries) ELSE index
          /\ exhausted' = TRUE
          /\ UNCHANGED yielded
    /\ UNCHANGED <<entries, limit, hint>>

\* EntryPointIter::next.  Entries without an address are passed over by the
\* recursive call; the one that is returned is not.
NextEntry ==
    /\ Len(yielded) < MaxYielded
    /\ \/ /\ Present # {}
          /\ index' = FirstPresent
          /\ yielded' = Append(yielded, GetEntry(FirstPresent))
          /\ UNCHANGED exhausted
       \/ /\ Present = {}
          /\ index' = limit
          /\ exhausted' = TRUE
          /\ UNCHANGED yielded
    /\ UNCHANGED <<entries, limit, hint>>

\* A plugin adds, removes or moves entry points.
ChangeTable ==
    /\ entries' \in Tables
    /\ UNCHANGED <<index, limit, hint, yielded, exhausted>>

Next == NextEntry \/ ChangeTable

Spec == Init /\ [][Next]_vars

-----------------------------------------------------------------------------
(* Properties.                                                             *)

\* However the table grows and shrinks under the iterator, its index never
\* passes the limit that was taken once, so that the unsigned subtraction of
\* size_hint never wraps; and once it has returned None, with nothing left
\* between the two, it returns nothing any more, not even entries that are added
\* later.
StaysWithinLimit ==
    /\ SizeHint' \in Nat
    /\ exhausted => SizeHint' = 0 /\ UNCHANGED yielded

\* What size_hint says: the iterator returns at most limit - index addresses.
ReturnsNoMoreThanSizeHint == Len(yielded) <= hint
=============================================================================

----------------------------- MODULE StringList -----------------------------
(***************************************************************************)
(* The string list of a database and an iterator over it: idalib/src/      *)
(* strings.rs over idalib-sys/src/strings_extras.h.  Every operation takes *)
(* &self, so the program may rebuild or clear the list, and a plugin it    *)
(* runs may define and undefine strings, between two steps of an iterator. *)
(* Addresses are numbers; the SDK lists strings by address, with the       *)
(* length each had when the list was built.                                *)
(*                                                                         *)
(* A definition whose name starts with Faulty is the definition after it   *)
(* with a plausible mistake, kept to show that a property notices it.      *)
(***************************************************************************)
EXTENDS Naturals, Sequences, FiniteSets, SequencesExt, Ranks

CONSTANTS
    Addresses,    \* where strings can be, natural numbers
    Broken,       \* the addresses whose bytes are not UTF-8
    Lengths,      \* how long strings can be, natural numbers above 0
    Gone          \* no bytes at an address

VARIABLES
    bytes,      \* the length of the string at each address, 0 for other bytes, or Gone
    list,       \* the SDK's string list: its string_info_t, one for an address
    current,    \* current_index of the iterator
    yielded,    \* what the iterator has returned, in order
    exhausted,  \* the iterator has returned None
    steady,     \* the addresses that were in the list ever since the iterator was made
    grown,      \* an address joined the list since then
    shrunk      \* an address left it since then

vars == <<bytes, list, current, yielded, exhausted, steady, grown, shrunk>>

Contents == {Gone, 0} \cup Lengths

\* The list that build_strlist makes.
Collected(contents) ==
    LET strings == {ea \in Addresses : contents[ea] \in Lengths} IN
    {[ea |-> ea, length |-> contents[ea]] : ea \in strings}

\* Where the strings of a list are.
Places(strlist) == {si.ea : si \in strlist}
Listed == Places(list)

\* iter: a new iterator, over a list that may be stale already.
Init ==
    /\ bytes \in [Addresses -> Contents]
    /\ list \in {Collected(old) : old \in [Addresses -> Contents]}
    /\ current = 0
    /\ yielded = <<>>
    /\ exhausted = FALSE
    /\ steady = Listed
    /\ grown = FALSE
    /\ shrunk = FALSE

Replace(newList) ==
    /\ list' = newList
    /\ steady' = steady \cap Places(newList)
    /\ grown' = (grown \/ ~(Places(newList) \subseteq Listed))
    /\ shrunk' = (shrunk \/ ~(Listed \subseteq Places(newList)))

-----------------------------------------------------------------------------
(* The operations of StringList.                                           *)

\* rebuild: build_strlist collects the strings the database has now.
Rebuild ==
    /\ Replace(Collected(bytes))
    /\ UNCHANGED <<bytes, current, yielded, exhausted>>

\* clear: clear_strlist.
Clear ==
    /\ Replace({})
    /\ UNCHANGED <<bytes, current, yielded, exhausted>>

\* len: get_strlist_qty.
StringCount == Cardinality(list)

\* get_address_by_index and get_length_by_index; {} is None.
StringInfo(index) == {si \in list : Rank(Listed, si.ea) = index}

FaultyWithCapacity(size) == IF size < 2 THEN 2 ELSE size    \* a vector's minimum

\* Vec::with_capacity: for bytes the allocation is exact.
WithCapacity(size) == size

\* idalib_get_bytes fills a vector to its capacity, whatever that is; bytes that
\* are gone are an error of the SDK's get_bytes, which it turns into length 0.
IdalibGetBytes(ea, capacity) == IF bytes[ea] = Gone THEN 0 ELSE capacity

\* IDB::get_bytes, which get_by_index repeats and Segment::bytes resembles: how
\* many bytes it returns.
GetBytes(ea, size) == IdalibGetBytes(ea, WithCapacity(size))

\* get_by_index; what is not UTF-8 is decoded with replacement characters, so
\* that every entry gives a string.
GetByIndex(index) ==
    {[at |-> si.ea, length |-> GetBytes(si.ea, si.length)] : si \in StringInfo(index)}

FaultySkippingNextItem == \* the index advances before the string is fetched
    /\ \/ /\ current + 1 < StringCount
          /\ \E si \in StringInfo(current + 1), text \in GetByIndex(current + 1) :
               yielded' = Append(yielded, [ea |-> si.ea, text |-> text])
          /\ current' = current + 1
          /\ UNCHANGED exhausted
       \/ current + 1 >= StringCount /\ exhausted' = TRUE /\ UNCHANGED <<current, yielded>>
    /\ UNCHANGED <<bytes, list, steady, grown, shrunk>>

FaultyUnequalNextItem == \* != for <: beyond a shrunk list the loop never returns
    /\ \/ /\ current < StringCount
          /\ \E si \in StringInfo(current), text \in GetByIndex(current) :
               yielded' = Append(yielded, [ea |-> si.ea, text |-> text])
          /\ current' = current + 1
          /\ UNCHANGED exhausted
       \/ current = StringCount /\ exhausted' = TRUE /\ UNCHANGED <<current, yielded>>
       \/ current > StringCount /\ UNCHANGED <<current, yielded, exhausted>>
    /\ UNCHANGED <<bytes, list, steady, grown, shrunk>>

\* StringListIter::next.  Under len() both lookups answer, so the first turn
\* of the loop returns the pair; at len() or beyond it returns None.
NextItem ==
    /\ \/ /\ current < StringCount
          /\ \E si \in StringInfo(current), text \in GetByIndex(current) :
               yielded' = Append(yielded, [ea |-> si.ea, text |-> text])
          /\ current' = current + 1
          /\ UNCHANGED exhausted
       \/ current >= StringCount /\ exhausted' = TRUE /\ UNCHANGED <<current, yielded>>
    /\ UNCHANGED <<bytes, list, steady, grown, shrunk>>

-----------------------------------------------------------------------------
\* A plugin or the analysis creates, changes or deletes a string literal, or
\* deletes the bytes under it.  The list is not told.
Redefine ==
    /\ \E ea \in Addresses, contents \in Contents : bytes' = [bytes EXCEPT ![ea] = contents]
    /\ UNCHANGED <<list, current, yielded, exhausted, steady, grown, shrunk>>

Next == Rebuild \/ Clear \/ NextItem \/ Redefine

Spec == Init /\ [][Next]_vars

-----------------------------------------------------------------------------
(* Properties.                                                             *)

\* What the iterator has returned, by address.
Returned == {yielded[i].ea : i \in DOMAIN yielded}

\* A list that is rebuilt with more strings while an iterator runs never makes
\* it lose one that was listed all the time: only one that leaves the list can.
\* A list that stays the same is returned in full.
NothingLostByGrowth == exhausted /\ ~shrunk => steady \subseteq Returned

\* A list that is rebuilt with fewer strings, or cleared, never makes it repeat
\* one or go back: only one that joins the list can.
NothingRepeatedByShrinking ==
    ~grown => \A i, j \in DOMAIN yielded : i < j => yielded[i].ea < yielded[j].ea

\* An item is one entry's, however stale the list is: its address and length are
\* those of an entry the list has at that moment, and its text is exactly that
\* many bytes at that address, although the buffer they are read into is filled
\* to its capacity, or nothing if they are gone.
ItemIsExact ==
    yielded' # yielded /\ yielded' # <<>> =>
        LET item == Last(yielded') IN
          /\ item.text.at = item.ea
          /\ \E si \in list :
               /\ si.ea = item.ea
               /\ item.text.length = (IF bytes[item.ea] = Gone THEN 0 ELSE si.length)

\* The comment in StringListIter::next: an item whose string failed to decode
\* because it is not UTF-8 is skipped, at the least while the list is up to date.
\* A text of no bytes is UTF-8, wherever it was.
UndecodableIsSkipped ==
    list = Collected(bytes) =>
        \A i \in DOMAIN yielded : yielded[i].text.length > 0 => yielded[i].ea \notin Broken
=============================================================================

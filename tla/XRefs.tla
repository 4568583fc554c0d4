-------------------------------- MODULE XRefs --------------------------------
(***************************************************************************)
(* Walking the cross-references of an address: IDB::first_xref_to and      *)
(* first_xref_from of idalib/src/idb.rs, XRef::next_to and next_from of    *)
(* xref.rs.  Both directions work alike.  An XRef is the SDK's own cursor, *)
(* and next_to moves a clone of it, so that every XRef of a walk can be    *)
(* kept and walked on from, while plugins add and delete references.       *)
(*                                                                         *)
(* A reference is its position in the SDK's order, a number above 0; its   *)
(* fine type and its flags are left out.  How the SDK orders references of *)
(* different kinds is left open.                                           *)
(*                                                                         *)
(* A definition whose name starts with Faulty is the definition after it   *)
(* with a plausible mistake, kept to show that a property notices it.      *)
(***************************************************************************)
EXTENDS Naturals, Sequences, SequencesExt

CONSTANTS
    Refs,    \* the references the address can have
    Flow,    \* those that are ordinary flow from the instruction before
    Data     \* those with iscode false

VARIABLES
    refs,       \* the references the address has
    query,      \* the XRefQuery of the walk
    yielded,    \* the XRefs of the walk, in order
    exhausted,  \* the walk ended
    lasting     \* the references that were there ever since it began

vars == <<refs, query, yielded, exhausted, lasting>>

XRefQuery == {"ALL", "FAR", "DATA"}

\* What the SDK shows a cursor with these flags.
Shown(flags) ==
    CASE flags = "ALL" -> Refs
      [] flags = "FAR" -> Refs \ Flow
      [] flags = "DATA" -> Data

\* The SDK's cursor, as far as next_to uses it.
XRef == [at : Refs, _flags : XRefQuery]

Init ==
    /\ refs \in SUBSET Refs
    /\ query \in XRefQuery
    /\ yielded = <<>>
    /\ exhausted = FALSE
    /\ lasting = refs

\* xrefblk_t_first_to and next_to: the first reference the flags show behind a
\* position, as a set of at most one cursor.  The flags stay in the cursor.
Behind(position, flags) ==
    {[at |-> r, _flags |-> flags] :
        r \in {q \in refs \cap Shown(flags) :
                 /\ q > position
                 /\ \A p \in refs \cap Shown(flags) : p > position => q <= p}}

\* Some(xref) or None; what the SDK left in the XRef that was not found is lost.
Answer(found) ==
    /\ \/ \E xref \in found : yielded' = Append(yielded, xref) /\ UNCHANGED exhausted
       \/ found = {} /\ exhausted' = TRUE /\ UNCHANGED yielded
    /\ UNCHANGED <<refs, query, lasting>>

\* first_xref_to and first_xref_from.
FirstXRef == yielded = <<>> /\ ~exhausted /\ Answer(Behind(0, query))

FaultyClone(xref) == [xref EXCEPT !._flags = "ALL"]    \* _flags: Default::default()

\* Clone for XRef, written out field by field.
Clone(xref) == [at |-> xref.at, _flags |-> xref._flags]

\* XRef::next_to and next_from.
NextXRef ==
    /\ yielded # <<>> /\ ~exhausted
    /\ LET curr == Clone(Last(yielded)) IN Answer(Behind(curr.at, curr._flags))

\* The program returns to an XRef it kept and walks on from there again.
Return ==
    /\ \E n \in 1 .. Len(yielded) : yielded' = SubSeq(yielded, 1, n)
    /\ exhausted' = FALSE
    /\ UNCHANGED <<refs, query, lasting>>

\* A plugin adds or deletes a reference.
ChangeRefs ==
    /\ \E r \in Refs :
         \/ refs' = refs \cup {r} /\ UNCHANGED lasting
         \/ refs' = refs \ {r} /\ lasting' = lasting \ {r}
    /\ UNCHANGED <<query, yielded, exhausted>>

Next == FirstXRef \/ NextXRef \/ Return \/ ChangeRefs

Spec == Init /\ [][Next]_vars

-----------------------------------------------------------------------------
\* The references of an ended walk ascend and are all of the kind that was
\* asked for when it began, and none is missing that was there all along:
\* through clones, returns to XRefs that were kept and references that come and
\* go, even one the walk stands on.
WalkIsExact ==
    LET at == [i \in DOMAIN yielded |-> yielded[i].at] IN
    /\ \A i, j \in DOMAIN at : i < j => at[i] < at[j]
    /\ \A i \in DOMAIN at : at[i] \in Shown(query)
    /\ exhausted => lasting \cap Shown(query) \subseteq {at[i] : i \in DOMAIN at}
=============================================================================

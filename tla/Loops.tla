-------------------------------- MODULE Loops --------------------------------
(***************************************************************************)
(* A program runs one loop over what a database has: over its strings, its *)
(* names, its entry points, the cross-references of an address or the      *)
(* operands of an instruction.  Every operation takes &self, so the body   *)
(* of the loop may change what the loop runs over, by the list's own       *)
(* operations or by running a plugin.  Each iterator has its own module;   *)
(* what all of them have, what was returned and whether the end was        *)
(* reached, they share here.                                               *)
(***************************************************************************)
EXTENDS Naturals, Sequences, FiniteSets

CONSTANTS
    StringAddresses, Broken, Lengths, Gone,        \* of StringList
    NameAddresses,                                 \* of NameList
    EntryAddresses, BADADDR, MaxEntries,           \* of EntryPoints
    Refs, Flow, Data,                              \* of XRefs
    MaxOps,                                        \* of Operands
    MaxYielded    \* bound on the items of the loops over names and entry points

ASSUME LoopsAssumption ==
    /\ StringAddresses \cup NameAddresses \cup EntryAddresses \subseteq Nat
    /\ IsFiniteSet(StringAddresses) /\ IsFiniteSet(NameAddresses)
    /\ Broken \subseteq StringAddresses
    /\ Lengths \cup Refs \subseteq Nat \ {0} /\ Gone \notin Nat
    /\ BADADDR \notin EntryAddresses
    /\ Flow \cup Data \subseteq Refs /\ Flow \cap Data = {}
    /\ {MaxEntries, MaxOps, MaxYielded} \subseteq Nat

VARIABLES
    loop,                                     \* which loop the program runs
    current, yielded, exhausted,              \* of its iterator
    steady, grown, shrunk,                    \* of a list that is walked by index
    bytes, list,                              \* of StringList
    listed, nameless,                         \* of NameList
    entries, limit, hint,                     \* of EntryPoints
    refs, query, lasting,                     \* of XRefs
    ops                                       \* of Operands

history == <<steady, grown, shrunk>>
strings == <<bytes, list>>
names == <<listed, nameless>>
table == <<entries, limit, hint>>
xrefs == <<refs, query, lasting>>
vars == <<loop, current, yielded, exhausted, history, strings,
          names, table, xrefs, ops>>

Strings == INSTANCE StringList WITH Addresses <- StringAddresses
Names == INSTANCE NameList WITH Addresses <- NameAddresses
Entries == INSTANCE EntryPoints WITH Addresses <- EntryAddresses, index <- current
XRefs == INSTANCE XRefs
Operands == INSTANCE Operands

\* What the loop does not run over keeps one value.
NoStrings == bytes = [ea \in StringAddresses |-> Gone] /\ list = {}
NoNames == listed = {} /\ nameless = {}
NoHistory == steady = {} /\ grown = FALSE /\ shrunk = FALSE
NoTable == entries = <<>> /\ limit = 0 /\ hint = 0
NoXRefs == refs = {} /\ query = "ALL" /\ lasting = {}
NoOps == ops = <<>>

Init ==
    /\ current = 0
    /\ \/ loop = "strings" /\ Strings!Init /\ NoNames /\ NoTable /\ NoXRefs /\ NoOps
       \/ loop = "names" /\ Names!Init /\ NoStrings /\ NoTable /\ NoXRefs /\ NoOps
       \/ /\ NoStrings /\ NoNames /\ NoHistory
          /\ \/ loop = "entries" /\ Entries!Init /\ NoXRefs /\ NoOps
             \/ loop = "xrefs" /\ XRefs!Init /\ NoTable /\ NoOps
             \/ loop = "operands" /\ Operands!Init /\ NoTable /\ NoXRefs

\* The head of the loop: the next item.
NextItem ==
    \/ /\ loop = "strings" /\ Strings!NextItem
       /\ UNCHANGED <<loop, names, table, xrefs, ops>>
    \/ /\ loop = "names" /\ Names!NextName
       /\ UNCHANGED <<loop, strings, table, xrefs, ops>>
    \/ /\ loop = "entries" /\ Entries!NextEntry
       /\ UNCHANGED <<loop, history, strings, names, xrefs, ops>>
    \/ /\ loop = "xrefs" /\ (XRefs!FirstXRef \/ XRefs!NextXRef)
       /\ UNCHANGED <<loop, current, history, strings, names, table, ops>>
    \/ /\ loop = "operands" /\ Operands!NextOperand
       /\ UNCHANGED <<loop, current, history, strings, names, table, xrefs>>

\* The walk goes on from a cross-reference that was kept.
GoBack ==
    /\ loop = "xrefs" /\ XRefs!Return
    /\ UNCHANGED <<loop, current, history, strings, names, table, ops>>

\* The body of the loop: the database changes.
Body ==
    \/ /\ loop = "strings" /\ (Strings!Rebuild \/ Strings!Clear \/ Strings!Redefine)
       /\ UNCHANGED <<loop, names, table, xrefs, ops>>
    \/ /\ loop = "names" /\ (Names!AddName \/ Names!RemoveName)
       /\ UNCHANGED <<loop, strings, table, xrefs, ops>>
    \/ /\ loop = "entries" /\ Entries!ChangeTable
       /\ UNCHANGED <<loop, history, strings, names, xrefs, ops>>
    \/ /\ loop = "xrefs" /\ XRefs!ChangeRefs
       /\ UNCHANGED <<loop, current, history, strings, names, table, ops>>

Next == NextItem \/ GoBack \/ Body

\* The program runs the loop: it asks for the next item again and again.
Spec == Init /\ [][Next]_vars /\ WF_vars(NextItem)

-----------------------------------------------------------------------------
(* Properties.  Those of one iterator are explained in its module.         *)

\* An item of the string list has address, length and text of one entry.
ItemsAreExact == [][loop = "strings" => Strings!ItemIsExact]_vars

\* Strings and names that join their list make a loop over it lose none.
NothingLostByGrowth ==
    /\ loop = "strings" => Strings!NothingLostByGrowth
    /\ loop = "names" => Names!NothingLostByGrowth

\* Strings and names that leave their list make a loop over it repeat none.
NothingRepeatedByShrinking ==
    /\ loop = "strings" => Strings!NothingRepeatedByShrinking
    /\ loop = "names" => Names!NothingRepeatedByShrinking

\* The loop over entry points stays within the limit it took when it began.
EntriesStayWithinLimit == [][loop = "entries" => Entries!StaysWithinLimit]_vars

\* A walk along cross-references is ascending, complete and what was asked for.
WalkIsExact == loop = "xrefs" => XRefs!WalkIsExact

\* A loop over operands agrees with operand_count, and each can be read.
OperandsAreCovered == loop = "operands" => Operands!OperandsAreCovered

\* A loop ends, although its body keeps rebuilding the list, adding names or
\* adding references: its position only moves forward and the database is
\* finite.  The exceptions are a walk whose program goes back for ever, and
\* the loop over entry points, which does not move forward.
LoopsEnd == <>(exhausted \/ loop = "entries") \/ []<><<GoBack>>_vars
=============================================================================

\* Two strings of two lengths, four names, three entry points at two addresses,
\* four references of every kind and instructions of up to three operands.  No
\* loop over names returns more of them than there are indexes.
CONSTANTS
    StringAddresses = {1, 2}
    Broken = {2}
    Lengths = {1, 2}
    Gone = Gone
    NameAddresses = {1, 2, 3, 4}
    EntryAddresses = {1, 2}
    BADADDR = BADADDR
    MaxEntries = 3
    Refs = {1, 2, 3, 4}
    Flow = {2}
    Data = {1, 4}
    MaxOps = 3
    MaxYielded = 5
SPECIFICATION Spec
INVARIANTS
    NothingLostByGrowth
    NothingRepeatedByShrinking
    WalkIsExact
    OperandsAreCovered
PROPERTIES
    ItemsAreExact
    EntriesStayWithinLimit
    LoopsEnd

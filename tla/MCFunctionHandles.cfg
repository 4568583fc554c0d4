CONSTANTS
    Addresses = {0, 1, 2, 3}
    Slots = {s1, s2, s3}
    NoFunction = NoFunction
SPECIFICATION Spec
SYMMETRY Symmetry
INVARIANTS
    LocksAreHandles
    IdsStayTrue
    KeptListingIsComplete
    NothingListedTwice
PROPERTIES
    ImplementsPinnedFunctions

\* Two addresses, a description without text, and five usable indexes: one more
\* than the functions of the bookmarks example.  MaxFound is more than there are
\* functions with comments.  Sizes are even and odd; two letters whose keys are
\* 0, 32, 65 and 97, on both sides of what shrink_byte moves and at its boundary.
\* An example ends, so that its last state has no successor.
CONSTANTS
    MarkAddresses = {a1, a2}
    MarkDescriptions = {d1, Empty}
    Empty = Empty
    BadIndex = 5
    NoMark = NoMark
    NoHandle = NoHandle
    Starts <- MCStarts
    Old = Old
    Top = 5
    Functions <- ThreeFunctions
    MaxFound = 5
    Insns <- MCInsns
    Sizes = {3, 4, 5}
    Chars = {65, 97}
    MaxSeen = 3
SPECIFICATION ProgramSpec
CHECK_DEADLOCK FALSE
INVARIANTS
    NoInternalError
    KeptIndexTracksItsBookmark
    DenseUnlessSkipped
    AssertionsHold
    ArgumentIsDecrypted

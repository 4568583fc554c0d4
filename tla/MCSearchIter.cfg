\* MaxFound is one more than an ascending search can return.
CONSTANTS
    Top = 3
    Functions <- TwoFunctions
    MaxFound = 5
SPECIFICATION Spec
INVARIANTS
    FindsAscend
    TextAtItemsIsFound
    ImmediatesAreFound
PROPERTIES
    EditsStayApart
    LoopEnds

\* A decompiled function down to an instruction and its iterator, or two flow
\* charts and a block of each, fill the slots.  A program stops where a destructor
\* runs too late.
CONSTANTS
    Funcs = {f1}
    Segs = {g1}
    Heap = {h1, h2}
    Slots = {s1, s2, s3, s4, s5}
    MaxBlocks = 2
    Null = Null
CHECK_DEADLOCK FALSE
SPECIFICATION Spec
SYMMETRY Symmetry
INVARIANTS
    NothingDangles
PROPERTIES
    NothingLeftAtClose
    ImplementsPinnedFunctions

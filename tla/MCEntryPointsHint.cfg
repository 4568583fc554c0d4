\* An iterator that is asked more often than there are entries.
CONSTANTS
    Addresses = {e1, e2}
    BADADDR = BADADDR
    MaxEntries = 3
    MaxYielded = 4
SPECIFICATION Spec
INVARIANT
    ReturnsNoMoreThanSizeHint

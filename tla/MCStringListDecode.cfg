\* A broken string in the list.
CONSTANTS
    Addresses = {1, 2, 3}
    Broken = {2}
    Lengths = {1, 2}
    Gone = Gone
SPECIFICATION Spec
INVARIANT
    UndecodableIsSkipped

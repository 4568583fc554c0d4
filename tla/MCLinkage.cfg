\* The default directory and another one.
CONSTANTS
    Dirs = {default, other}
    DefaultDir = default
    Stubs = Stubs
    NoPath = NoPath
SPECIFICATION Spec
INVARIANT
    FallbackWorks

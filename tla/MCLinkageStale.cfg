\* IDADIR is set after a first build.
CONSTANTS
    Dirs = {default, other}
    DefaultDir = default
    Stubs = Stubs
    NoPath = NoPath
SPECIFICATION Spec
INVARIANT
    IDADIRCountsAtBuildTime

SPECIFICATION Spec
CONSTANTS
    Client = {c1, c2}
    MaxBatch = 2
    MaxLookup = 1
    MaxVersion = 1
SYMMETRY Symmetry
CHECK_DEADLOCK FALSE
INVARIANT
    VersionNamesOneBuild

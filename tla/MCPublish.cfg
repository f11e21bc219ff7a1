SPECIFICATION Spec
CONSTANTS
    Builder = {b1, b2}
    None = None
    MaxRun = 2
    MaxCount = 2
    MaxCrash = 1
    DropNum = 1
    DropDen = 2
    SkipNum = 1
    SkipDen = 4
    WithCSV = FALSE
SYMMETRY Symmetry
INVARIANTS
    FailedRunPublishesNothing
PROPERTIES
    ImplementsAtomicFile

SPECIFICATION Spec
CONSTANTS
    Builder = {b1}
    None = None
    MaxRun = 1
    MaxCount = 2
    MaxCrash = 0
    DropNum = 1
    DropDen = 2
    SkipNum = 1
    SkipDen = 4
    WithCSV = TRUE
INVARIANTS
    FailedRunPublishesNothing

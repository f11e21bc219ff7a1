SPECIFICATION Spec
CONSTANTS
    Builder = {b1}
    None = None
    MaxRun = 2
    MaxCount = 3
    MaxCrash = 1
    DropNum = 1
    DropDen = 3
    SkipNum = 1
    SkipDen = 4
    WithCSV = TRUE
INVARIANTS
    NoStrayTemp
    CsvMatchesDatabase
    PublishSurvivesCrash
PROPERTIES
    DropGuardHolds
    ImplementsAtomicCSV

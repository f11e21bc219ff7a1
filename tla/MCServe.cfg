SPECIFICATION PoliteSpec
CONSTANTS
    Request = {r1}
    Call = {c1}
    MaxVersion = 1
    MaxHup = 3
CHECK_DEADLOCK FALSE
INVARIANTS
    QuiescentAtClose
    ReportNeverBlocks
PROPERTIES
    HupHeard
    Stops

SPECIFICATION FairSpec
CONSTANTS
    Request = {}
    Call = {c1}
    MaxVersion = 0
    MaxHup = 0
CHECK_DEADLOCK FALSE
PROPERTIES
    Stops

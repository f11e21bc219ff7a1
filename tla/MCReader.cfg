SPECIFICATION ReaderSpec
CONSTANTS
    Addr <- MCAddr
    Prefix <- MCPrefix
    V4Bits = 2
    V6Bits = 5
    Alias <- MCAlias
    V4Mapped <- MCMapped
    Raw <- MCRaw
    aws = aws
    gcp = gcp
    tor = tor
    Provider = {aws, gcp, tor}
    east = east
    west = west
    Region = {east, west}
    s1 = s1
    s2 = s2
    Service = {s1, s2}
    exit = exit
    Category = {exit}
    key = key
    ExtKey = {key}
    v1 = v1
    v2 = v2
    ExtValue = {v1, v2}
    Empty = Empty
    NoValue = NoValue
    NoRecord = NoRecord
    Time <- MCTime
    NStream = 2
    Feed <- MCFeed
    MaxEntry = 3
CHECK_DEADLOCK FALSE
INVARIANTS
    FirstWriterOwns
    CategoriesFromAll
    FieldsFromOwner
    EarlierStreamOwns
    ClaimsHonoured
    NetworkHonest
    IndexAgrees
    ExportMatches
    VerifyHonest

SPECIFICATION MCFairSpec
CONSTANTS
    Handle = {h1, h2, h3}
    Client = {l1}
    Reloader = {r1, r2}
    Closer = {c1}
    None = None
    Failed = Failed
    Crashed = Crashed
    Indexed = TRUE
    Grace = 2
    MaxLookup = 1
    MaxVersion = 1
INVARIANTS
    TypeOK
    InFlightStaysMapped
    ServesLoadedDatabase
    NoDoubleClose
    NoLeak
PROPERTIES
    NoInstallAfterClose
    ImplementsFairHotSwap
    NoMappingLingers
    ReloadReturns

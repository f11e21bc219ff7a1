SPECIFICATION Spec
CONSTANTS
    NV4 = 4
    NAddr = 6
    AS = {as1, as2}
    None = None
    Network <- MCNetwork
    MaxRow = 3
CHECK_DEADLOCK FALSE
INVARIANTS
    TableNormal
    FirstRowWins
    PiecesPartitionEntry
    PiecesMatchTable

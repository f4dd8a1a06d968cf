CONSTANTS
    Requests <- TwoWindows
    Chunks = 2

SPECIFICATION BridgeFairSpec

INVARIANTS
    ChunksInOrder
    MaskIsOfTransfer

PROPERTIES
    TransfersEnd
    RequestsAnswered

CHECK_DEADLOCK FALSE

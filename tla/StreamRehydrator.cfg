SPECIFICATION StreamSpec
CONSTANTS
    Mapping <- TwoNames
    Chunks <- Pieces
    MaxText = 6
INVARIANT NothingLost
PROPERTY ContractSpec
CHECK_DEADLOCK FALSE

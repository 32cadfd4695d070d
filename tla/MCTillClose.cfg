SPECIFICATION FairSpec
CONSTANTS
    None = None
    Blank = {" "}
    Keys = {k1, k2}
    Opening = 1
    Rank <- MCRank
    SaleKinds <- MCSaleKinds
    MoveKinds <- MCMoveKinds
    RefundKinds <- MCRefundKinds
    InputKinds <- MCInputKinds
    Miscounts = {0, 1}
    MaxRows = 3
    Methods <- MCMethods
INVARIANTS
    DrawerIsRight
    ListsAddUp
PROPERTIES
    ClosedWhole
    EventuallySettled
CHECK_DEADLOCK FALSE

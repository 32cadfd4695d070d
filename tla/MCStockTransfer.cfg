SPECIFICATION Spec
CONSTANTS
    w = w
    b = b
    wm = wm
    bm = bm
    owner = owner
    Transfers = {t1, t2}
    Items = {beans, milk}
    MaxQty = 1
    Grain = 2
    Nobody = nobody
    Locations <- MCLocations
    Persons <- MCPersons
    WorksAt <- MCWorksAt
    CapsOf <- MCCapsOf
    Opening <- MCOpening
INVARIANTS
    TypeOK
    StockAccounted
    MovesOnce
    MovedByTheRightHand
PROPERTIES
    SentIsFrozen
    ImplementsGoods
CHECK_DEADLOCK FALSE

SPECIFICATION ReplenishSpec
CONSTANTS
    w1 = w1
    w2 = w2
    b1 = b1
    b2 = b2
    owner = owner
    Transfers = {t1, t2, t3}
    Items = {beans}
    Persons = {owner}
    MaxQty = 3
    Grain = 2
    Nobody = nobody
    NoMax = noMax
    Oversold = 1
    Locations <- MCLocations
    Warehouses <- MCWarehouses
    WorksAt <- MCWorksAt
    CapsOf <- MCCapsOf
    Opening <- MCOpening
    ParMin <- MCParMin
    ParMax <- MCParMax
INVARIANTS
    NeverOverfilled
PROPERTY NeverOverpromised
SYMMETRY Symmetry
CHECK_DEADLOCK FALSE

SPECIFICATION Spec
CONSTANTS
    sell = sell
    display = display
    bump = bump
    ticket = ticket
    points = points
    redeem = redeem
    kitchenGroup = kitchenGroup
    floorGroup = floorGroup
    salesGroup = salesGroup
    kitchen = kitchen
    floor = floor
    loyalty = loyalty
    loyaltyPrefix = loyaltyPrefix
    b1 = b1
    b2 = b2
    Cap = {sell, display, bump, ticket, points, redeem}
    LegacyCap = {}
    Approvable = {bump, points, redeem, ticket}
    Protected = {}
    LimitKey = {"amount"}
    NoLimit = NoLimit
    NoLimits = NoLimits
    Everywhere = Everywhere
    Feature = {kitchen, floor, loyalty}
    Group = {kitchenGroup, floorGroup, salesGroup}
    Unlimited = Unlimited
    Branch = {b1, b2}
    Home = b1
    Words = {"free", "pro"}
    Device = {1, 2, 3}
    Person = {p1, p2}
    Never = Never
    MaxTime = 1
    MaxPicks = 2
    CoreOf <- MCCoreOf
    KeysOf <- MCKeysOf
    GroupOf <- MCGroupOf
    PrefixesOf <- MCPrefixesOf
    GateOf <- MCGateOf
    Tables <- MCTables
    PersonEff <- MCPersonEff
    RequestAsked <- MCRequestAsked
    KindOf <- MCKindOfDevice
    BranchOf <- MCBranchOf
PROPERTIES
    SellingTillStands
    LimitsHold
SYMMETRY Symmetry
CHECK_DEADLOCK FALSE

SPECIFICATION Spec
CONSTANTS
    staff = staff
    count = count
    void = void
    own1 = own1
    own2 = own2
    man = man
    tel = tel
    manager = manager
    teller = teller
    Cap = {staff, void, count}
    LegacyCap = {}
    Approvable = {void}
    Protected = {staff}
    LimitKey = {"age"}
    NoLimit = NoLimit
    NoLimits = NoLimits
    Everywhere = Everywhere
    Person = {own1, own2, man, tel}
    Owner = {own1, own2}
    Role = {manager, teller}
    PermissionsEdit = staff
    UsersEdit = staff
    RolesManage = staff
    NoOverride = NoOverride
    MaxOverrides = 2
    MaxWrites = 3
    CoreOf <- MCCoreOf
    KeysOf <- MCKeysOf
    KindOf <- MCKindOf
    LimitsIn <- MCLimitsIn
    AskedLimits <- MCAskedLimits
    FirstGrants <- MCFirstGrants
    FirstAssigned <- MCFirstAssigned
INVARIANTS
    FullOwnerRemains
    RolesOnlyAdd
PROPERTIES
    NoNewCapability
    NothingAboveTheGiver
SYMMETRY Symmetry
CHECK_DEADLOCK FALSE

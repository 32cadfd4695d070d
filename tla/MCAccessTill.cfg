SPECIFICATION TillSpec
CONSTANTS
    void = void
    age = age
    main = main
    other = other
    ann = ann
    bob = bob
    mia = mia
    sale = sale
    Cap = {void}
    LegacyCap = {}
    Approvable = {void}
    Protected = {}
    LimitKey = {age}
    NoLimit = NoLimit
    NoLimits = NoLimits
    Everywhere = Everywhere
    Staff = {ann, bob, mia}
    Branch = {main, other}
    AskManager = {void}
    Sale = {sale}
    Void = void
    AgeKey = age
    TicksPerMinute = 2
    Life = 2
    MaxTime = 4
    MaxChanges = 1
    Nobody = Nobody
    CoreOf <- MCCoreOf
    KeysOf <- MCKeysOf
    AccessOf <- MCAccessOf
    TellerOf <- MCTellerOf
    RungAt <- MCRungAt
    SoldIn <- MCSoldIn
INVARIANTS
    RecordedAsDecided
PROPERTIES
    StaleForLessThanLife
CHECK_DEADLOCK FALSE

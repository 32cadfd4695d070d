SPECIFICATION Spec
CONSTANTS
    None = None
    Tills = {till1, till2}
    Sales = {s1, s2, s3}
    Opening = 5
    Costs = {2, 3}
    Earns = 1
    MaxUnits = 2
    MaxChanges = 1
    MaxLines = 2
    MaxAsks = 2
    LineKinds <- MCLineKinds
    AskKinds <- MCAskKinds
    Offers <- MCOffers
    Gifts <- MCGifts
INVARIANTS
    PlannersAgree
    GivenOnceAndAsShown
    PointsMoveOnce
    GivenAsPromised
SYMMETRY Symmetry
CHECK_DEADLOCK FALSE

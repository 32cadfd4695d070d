SPECIFICATION CheckoutSpec
CONSTANTS
    None = None
    Branch = "main"
    Items <- MCItems
    Rules <- MCRules
    DayLength = 3
    FirstDay = 3
    LastDay = 4
    MaxQuantity = 2
    MaxApplied = 2
    MaxRuleEdits = 1
INVARIANTS
    DealsFitTheOrder
    ServerAgreesInAnyOrder
    NothingThatSavesIsMissed
CHECK_DEADLOCK FALSE

SPECIFICATION Spec
CONSTANTS
    Tills = {till1, till2}
    Drinks = {d1, d2, d3}
    Items = {"latte", "cake"}
    None = None
    MaxDay = 3
    MaxChanges = 1
    Policies <- MCPolicies
INVARIANTS
    EveryOverspendMarked
SYMMETRY Symmetry
CHECK_DEADLOCK FALSE

SPECIFICATION SaleSpec
CONSTANTS
    Tills = {till1, till2}
    RefundIds = {r1, r2, r3}
    Amounts = {1, 2, 3}
    None = None
    Orders <- MCOrders
    NameOrder <- MCNameOrder
    Catalogues <- MCCatalogues
    Options <- MCOptions
    Combo <- MCCombo
    Shop <- MCShop
    AddOnPrices <- MCAddOnPrices
    Sellable <- MCSellable
    Terms <- MCTerms
    Discounts <- MCDiscounts
    MaxLines = 2
    MaxEdits = 1
    MaxRefunded = 6
    Followed <- MCFollowed
INVARIANTS
    TillAndServerAgree
    PicksAddUp
    BillAddsUp
    JudgedIsTaken
    TakesBackExactly
PROPERTIES
    ForecastHolds
CHECK_DEADLOCK FALSE

SPECIFICATION Spec
CONSTANTS
    None = None
    Word = Word
    NameKey <- MCNameKey
    TooLong = {}
    Control = {"Bell"}
    Limits <- MCLimits
    MaxFileRows = 4
    SizeNames = {"size", "cup size"}
    SizeLike = {"small", "large"}
    MilkLike = {"milk"}
    BeanLike = {}
    Exports <- MCExports
    RowsOf <- MCRowsOf
    MaxEdits = 2
    Ingredients <- MCIngredients
    Ordered = "whole"
    Unit <- MCUnit
    Density <- MCDensity
    Category <- MCCategory
    Cost <- MCCost
    Amounts = {1, 333, 1000, 2000}
    Units = {"g", "ml", "l", "pcs", "cup"}
    Yields = {None, 0, 70, 300}
    Factors <- MCFactors
    SwapPicks <- MCSwapPicks
    Price = 20
    CostGrain = 1000
    MaxQuantity = 2000
    Threshold = 10000
    OrderAmounts = {4, 5, 10000, 10995, 20000}
    Invoices <- MCInvoices
    MaxLines = 2
    MaxSteps = 3
    MalformedKeys = {"Orders.Void"}
    MalformedCells = {"roles"}
    KnownGroups = {"selling"}
    Blank = " "
    Drafts <- MCDrafts
    CapEdits <- MCCapEdits
    TemplateEdits <- MCTemplateEdits
    MaxChanges = 2
INVARIANTS
    MenuReadWhole
    CupIsItsRecipe
    StoreIsAccounted
    RegistryHolds
CHECK_DEADLOCK FALSE

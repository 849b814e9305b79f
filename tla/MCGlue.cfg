SPECIFICATION FairSpec
CONSTANTS
    Null = Null
    Bad = Bad
    Day = 2
    Week = 14
    EndOfTime = 17
    RawRows <- MCRawRows
    Accounts <- MCAccounts
    Instants = {3, 17}
    MaxRows = 3
    MaxFaults = 1
    FrameRows <- MCFrameRows
    MaxFrame = 4
    AccountRows <- MCAccountRows
    CustomerRows <- MCCustomerRows
    ValidCurrencies = {"USD"}
    ValidStatus = {"POSTED", "REVERSED"}
INVARIANTS
    EnginesAgree
    FramesReconcile
    RulesAgree
    BronzeAccountedFor
    GoldReconciles
PROPERTIES
    GoldCatchesUp
CHECK_DEADLOCK FALSE

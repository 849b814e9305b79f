SPECIFICATION FairSpec
CONSTANTS
    Rows = {1, 2}
    TxnOf <- MCTxnOf
    AccountOf <- MCAccountOf
    Accounts = {"a1"}
    Flaws = {"none", "status", "undated"}
    MaxTs = 2
    MaxFaults = 1
    MaxCopies = 1
    Runs = {1}
INVARIANTS
    RowsAccountedFor
    NothingDroppedAfterSilver
    FactsResolve
PROPERTIES
    GoldCatchesUp

SPECIFICATION Spec
CONSTANTS
    Rows = {1, 2}
    TxnOf <- MCTxnOf
    AccountOf <- MCAccountOf
    Accounts = {"a1"}
    Flaws = {"none", "status", "undated"}
    MaxTs = 2
    MaxFaults = 0
    MaxCopies = 2
    Runs = {1}
INVARIANT SilverDeduplicated

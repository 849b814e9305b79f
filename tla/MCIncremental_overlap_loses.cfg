SPECIFICATION Spec
CONSTANTS
    r1 = r1
    r2 = r2
    r3 = r3
    r4 = r4
    t1 = t1
    t2 = t2
    Rows <- MCRows
    Txns <- MCTxns
    TxnOf <- MCTxnOf
    NullAccount <- MCNullAccount
    MaxTs = 1
    Lag = 0
    MaxFaults = 1
    Runs = {1, 2}
INVARIANTS
    NoRowForgotten

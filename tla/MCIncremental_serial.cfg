SPECIFICATION FairSpec
CONSTANTS
    r1 = r1
    r2 = r2
    r3 = r3
    r4 = r4
    t1 = t1
    t2 = t2
    Rows <- MCRows
    Txns <- MCTxns
    TxnOf <- MCTxnOf
    NullAccount <- MCNullAccount
    MaxTs = 2
    Lag = 1
    MaxFaults = 2
    Runs = {1}
INVARIANTS
    TypeOK
    NoLostRow
    FactBacked
PROPERTIES
    FailedRunRepeatsWindow
    FactNeverRegresses
    ReplicaSpec
    CatchesUp

SPECIFICATION FairSpec
CONSTANTS
    Keys = {"k1", "k2"}
    Cities = {"a", "b"}
    MaxWrites = 4
    MaxTime = 8
    MaxDeliveries = 3
    Jobs = {1}
INVARIANTS
    OneCurrentVersion
    VersionsChain
    AsOfAgrees
    ReconstructsSource
PROPERTIES
    DimensionCatchesUp
CHECK_DEADLOCK FALSE

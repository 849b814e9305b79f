SPECIFICATION FilesFairSpec
CONSTANTS
    Names <- MCNames
    Contents = {"g1", "g2", "bad", "poison"}
    Kind <- MCKind
    Workers = {1, 2}
    MaxChanges = 3
    MaxFaults = 1
INVARIANTS
    MarkedWasWritten
    ArchivedWasProcessed
    PulledIsArchived
PROPERTIES
    ProcessedAgainOnlyInOverlap
    ProcessedIsFinal
    

SPECIFICATION Spec
CONSTANTS
    Names <- MCNames
    Contents = {"g1"}
    Kind <- MCKind
    Workers = {1}
    MaxChanges = 2
    MaxFaults = 0
INVARIANTS
    ProcessedRowsKept

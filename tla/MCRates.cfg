SPECIFICATION Spec
CONSTANTS
    MaxRates = 4
    MaxPageSize = 2
    MaxAttempts = 2
INVARIANTS
    NothingMissed
    ExactWhenQuiet
    PostedIsLogged

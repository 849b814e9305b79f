SPECIFICATION FairSpec
CONSTANT MaxSource = 3
INVARIANTS
    CommitAfterLoad
PROPERTIES
    OnlyCheckedIsLoaded
    Terminates

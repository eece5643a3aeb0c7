SPECIFICATION Spec
CONSTANTS
    Files = {1, 2, 3, 4, 5}
    Tracked = {1, 4, 5}
    Ignored = {5}
    Secret = {3}
    Required = {1, 4}
    Trees <- MCTrees
    MaxSize = 2
    MaxEdits = 2
    MaxBytes = 3
    MaxFiles = 2
    MaxArchive = 1
    Nodes = {n1, n2}
CHECK_DEADLOCK FALSE
INVARIANTS
    TypeOK
    StagedIsFit
    QuietTreeIsShippedWhole
    RunnersShareTheSource
    RefusedOnlyIfGrown

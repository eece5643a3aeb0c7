SPECIFICATION FairSpec
CONSTANTS
    NodeCount = 2
    MaxInterrupts = 2
    HandlersInterruptible = TRUE
INVARIANTS
    TypeOK
    AtMostOneUnrecorded
    ZeroMeansReleased
    ReleasedMeansTerminal
PROPERTIES
    NewJobOnlyWhenRecorded
    ManifestOnlyGrows
    MainEnds
    KeepsPromises
\* The process ends, and nobody has to recover it.
CHECK_DEADLOCK FALSE

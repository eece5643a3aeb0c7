SPECIFICATION RecoverySpec
CONSTANTS
    NodeCount = 2
    MaxInterrupts = 2
    HandlersInterruptible = FALSE
INVARIANTS
    CleanupNeverHidden
    LiveJobsAreTraceable
PROPERTIES
    RecoveryReleases
\* The process ends, and nobody has to recover it.
CHECK_DEADLOCK FALSE

SPECIFICATION Spec
CONSTANTS
    NodeCount = 2
    MaxInterrupts = 1
    HandlersInterruptible = TRUE
INVARIANTS
    CleanupNeverHidden
\* The process ends, and nobody has to recover it.
CHECK_DEADLOCK FALSE

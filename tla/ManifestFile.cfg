SPECIFICATION Spec
CONSTANTS
    NodeCount = 4
INVARIANTS
    TypeOK
    NeverTorn
    LossOnlyTakesBack
PROPERTIES
    ActsAtomically
\* The process ends.
CHECK_DEADLOCK FALSE

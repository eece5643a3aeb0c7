SPECIFICATION Spec
CONSTANTS
    JobNodes = 1
    Inventories <- OneCore
    MaxFaults = 0
INVARIANTS
    WorkloadHasWorkers
\* Every process of the cluster ends.
CHECK_DEADLOCK FALSE

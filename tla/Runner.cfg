SPECIFICATION FairSpec
CONSTANTS
    JobNodes = 3
    Inventories <- Mixed
    MaxFaults = 2
INVARIANTS
    TypeOK
PROPERTIES
    TopologyIsComplete
    StoppedWorkersStayAway
    BatchEnds
    NodesEnd
\* Every process of the cluster ends.
CHECK_DEADLOCK FALSE

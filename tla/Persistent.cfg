SPECIFICATION FairSpec
CONSTANTS
    c1 = c1
    c2 = c2
    small = small
    large = large
    Clients = {c1, c2}
    Clusters = {small, large}
    JobNodes <- MCJobNodes
    Calls <- MCCalls
    MaxInterrupts = 1
INVARIANTS
    TypeOK
    NothingOutlivesConnect
    YieldsOwnTopology
PROPERTIES
    ConnectDecides
\* Every client is left.
CHECK_DEADLOCK FALSE

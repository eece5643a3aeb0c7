SPECIFICATION Spec
CONSTANTS
    c1 = c1
    c2 = c2
    small = small
    large = large
    Clients = {c1, c2}
    Clusters = {small, large}
    JobNodes <- MCJobNodes
    Calls <- MCCalls
    MaxInterrupts = 0
PROPERTIES
    ClosingStopsOnlyItsOwn
\* Every client is left.
CHECK_DEADLOCK FALSE

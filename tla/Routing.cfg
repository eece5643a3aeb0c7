SPECIFICATION Spec
CONSTANTS
    Nannies <- MCNannies
    WORKER_PORT_BASE = 10000
    Gone = Gone
    Tasks = {1, 2, 3, 4}
    TagsOf <- MCTags
    Supply <- MCSupply
    Wanted <- MCWanted
    Demand <- MCDemand
    Overriding = {4}
    MaxDepartures = 3
    MaxDeaths = 1
\* Tasks are done, and workers have left for good.
CHECK_DEADLOCK FALSE
INVARIANTS
    TypeOK
    TasksRunWhereTheyBelong

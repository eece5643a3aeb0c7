SPECIFICATION Spec
CONSTANTS
    Groups = {g1, g2, dev}
    Dev = dev
    Projects <- MCProjects
    MaxJobs = 3
    None = None
    AutoLimit = AutoLimit
    Unset = Unset
    Inputs <- MCInputs
    Machines <- MCMachines
INVARIANTS
    AdmissionTypeOK
    VerdictIsRight
    PaidNodesStart
    RosterIsAligned
    SharesFitMachine
PROPERTIES
    WorklistEnds
    YamlIsNeverRefused
\* A launch is refused or all its nodes have started or stopped.
CHECK_DEADLOCK FALSE

SPECIFICATION FairSpec
CONSTANTS
    None = None
    Node = {"n1"}
    Image = {"i1"}
    Workload <- Workload1
    Jobs <- JobsOne
    Bound = TRUE
    MaxLoss = 0
    MaxGen = 2
    MaxCrash = 0
    MaxFault = 0
    Users = {"delete any"}
PROPERTIES WorkloadGoes WorkloadEnds
CHECK_DEADLOCK FALSE

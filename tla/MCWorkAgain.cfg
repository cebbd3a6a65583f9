SPECIFICATION Spec
CONSTANTS
    None = None
    Node = {"n1"}
    Image = {"i1"}
    Workload <- Workload1
    Jobs <- JobsOne
    Bound = FALSE
    MaxLoss = 1
    MaxGen = 2
    MaxCrash = 1
    MaxFault = 1
    Users = {"delete any", "delete node"}
INVARIANTS SucceededIsReal UpHasContainer HostClean
CHECK_DEADLOCK FALSE

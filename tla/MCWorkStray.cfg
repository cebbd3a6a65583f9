SPECIFICATION Spec
CONSTANTS
    None = None
    Node = {"n1"}
    Image = {"i1"}
    Workload <- Workload1
    Jobs <- JobsOne
    Bound = FALSE
    MaxLoss = 0
    MaxGen = 2
    MaxCrash = 1
    MaxFault = 1
    Users = {"delete any", "delete node"}
INVARIANTS HostEmpty
CHECK_DEADLOCK FALSE

SPECIFICATION Spec
CONSTANTS
    None = None
    Node = {"n1"}
    Image = {"i1", "i2"}
    Workload <- Workload2
    Jobs <- JobsSame
    Bound = TRUE
    MaxLoss = 0
    MaxGen = 1
    MaxCrash = 0
    MaxFault = 0
    Users = {"delete any"}
PROPERTIES ClaimRespected
CHECK_DEADLOCK FALSE

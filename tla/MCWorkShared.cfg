SPECIFICATION Spec
CONSTANTS
    None = None
    Node = {"n1", "n2"}
    Image = {"i1", "i2"}
    Workload <- Workload2
    Jobs <- JobsShared
    Bound = TRUE
    MaxLoss = 0
    MaxGen = 1
    MaxCrash = 0
    MaxFault = 0
    Users = {"delete finished"}
INVARIANTS NoDeadClaim
PROPERTIES ClaimRespected
CHECK_DEADLOCK FALSE

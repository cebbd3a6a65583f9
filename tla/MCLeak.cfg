SPECIFICATION Spec
CONSTANTS
    None = None
    Machine <- Machine1
    Resource <- Resource1
    Request <- Request1
    Items <- Items1
    Ns <- Ns1
    MachineRequest <- ExclusiveNamed1
    Hardware <- Hardware1
    ItemSpec <- Spec1
    Lagging = {}
    Booted = TRUE
    MaxGen = 1
    MaxInc = 2
    MaxCrash = 0
    Users = {"delete request", "delete resource"}
INVARIANTS NoLeak
CHECK_DEADLOCK FALSE

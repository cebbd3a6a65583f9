SPECIFICATION FairSpec
CONSTANTS
    None = None
    Machine <- Machine1
    Resource <- Resource1
    Request <- Request1
    Items <- Items1
    Ns <- Ns1
    MachineRequest <- ExclusiveNamed1
    Hardware <- Hardware1
    ItemSpec <- Spec1
    Lagging = {"rel", "resources"}
    Booted = FALSE
    MaxGen = 2
    MaxInc = 2
    MaxCrash = 0
    Users = {"delete request", "delete machine", "delete resource"}
INVARIANTS MapsAgree NoOrphanLock BoundMachineExists HostReleased ReadyImpliesBound
PROPERTIES RequiredGoesReleased DeletionCompletes MachineLeaves AloneIsServed
CHECK_DEADLOCK FALSE

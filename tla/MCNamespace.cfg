SPECIFICATION FairSpec
CONSTANTS
    None = None
    Machine <- Machine1
    Resource <- Resource2
    Request <- Request2
    Items <- Items2
    Ns <- NsOne
    MachineRequest <- NoMachineRequest2
    Hardware <- HardwareShared
    ItemSpec <- SpecShared
    Lagging = {"resources"}
    Booted = TRUE
    MaxGen = 1
    MaxInc = 1
    MaxCrash = 0
    Users = {}
PROPERTIES SomebodyServed
CHECK_DEADLOCK FALSE

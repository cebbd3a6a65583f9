SPECIFICATION Spec
CONSTANTS
    None = None
    Machine <- Machine2
    Resource <- Resource3
    Request <- Request2
    Items <- ItemsPair
    Ns <- NsPair
    MachineRequest <- ExclusivePair
    Hardware <- HardwarePair
    ItemSpec <- SpecPair
    Lagging = {}
    Booted = TRUE
    MaxGen = 1
    MaxInc = 1
    MaxCrash = 1
    Users = {"delete request"}
INVARIANTS CPUsExclusive DevicesExclusive MemoryWithinMachine WorkingCopyOK LockExclusive
PROPERTIES LockNotStolen ImplementsLedger
CHECK_DEADLOCK FALSE

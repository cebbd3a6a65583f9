SPECIFICATION Spec
CONSTANTS
    Node = {"n1", "n2"}
    Topology = {"dm", "db"}
    Plan <- PlanShared
    MachineOf <- MachinesShared
    Client = "n1"
    Needs = {"db"}
    None = "none"
    MaxGen = 1
    MaxFault = 2
CHECK_DEADLOCK FALSE
INVARIANTS ReadyIsInstalled GoneLeavesNothing ProxyConfigured

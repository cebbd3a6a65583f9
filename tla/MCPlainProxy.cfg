SPECIFICATION Spec
CONSTANTS
    Node = {"n1", "n2", "n3"}
    Topology = {"db"}
    Plan <- PlanProxy
    MachineOf <- MachinesProxy
    Client = "n3"
    Needs = {"db"}
    None = "none"
    MaxGen = 1
    MaxFault = 0
CHECK_DEADLOCK FALSE
INVARIANTS DependenciesUp

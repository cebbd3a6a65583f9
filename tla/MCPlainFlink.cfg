SPECIFICATION Spec
CONSTANTS
    Node = {"n1", "n2"}
    Topology = {"fl"}
    Plan <- PlanFlink
    MachineOf <- MachinesFlink
    Client = "n2"
    Needs = {}
    None = "none"
    MaxGen = 1
    MaxFault = 0
CHECK_DEADLOCK FALSE
INVARIANTS ReadyIsInstalled

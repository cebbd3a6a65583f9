SPECIFICATION Spec
CONSTANTS
    Node = {"n1", "n2"}
    Tasks <- TasksShort
    Second = 2
    MaxBackoff = 1
    MaxWrite = 2
    MaxFault = 1
INVARIANTS InPeriod

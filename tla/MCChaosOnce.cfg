SPECIFICATION Spec
CONSTANTS
    Node = {"n1", "n2"}
    Tasks <- TasksOnce
    Second = 2
    MaxBackoff = 1
    MaxWrite = 2
    MaxFault = 2
INVARIANTS OnlyOnce

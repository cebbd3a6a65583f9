SPECIFICATION FairSpec
CONSTANTS
    Node = {"n1", "n2"}
    Tasks <- TasksMixed
    Second = 2
    MaxBackoff = 2
    MaxWrite = 2
    MaxFault = 3
INVARIANTS InPeriod
PROPERTIES RecordsApart TasksGoOn

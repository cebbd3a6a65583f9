SPECIFICATION Spec
CONSTANTS
    Item = {"i1", "i2"}
    Text = {"x", "y"}
    NoText = "none"
    MaxReport = 2
    MaxWrite = 1
    MaxLost = 2
CHECK_DEADLOCK FALSE
INVARIANTS ReportedIsKept

SPECIFICATION Spec
CONSTANTS
    Item = {"i1", "i2"}
    Text = {"x", "y"}
    NoText = "none"
    MaxReport = 1
    MaxWrite = 1
    MaxLost = 0
CHECK_DEADLOCK FALSE
INVARIANTS ResultsSaved

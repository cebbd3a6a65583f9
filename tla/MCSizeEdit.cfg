SPECIFICATION Spec
CONSTANTS
    Total = 204800
    Reserve = {0, 2048}
    Raise = TRUE
    Asked <- SizesMixed
    MaxResource = 3
INVARIANTS RestReadable

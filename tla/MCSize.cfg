SPECIFICATION Spec
CONSTANTS
    Total = 204800
    Reserve = {0, 2048}
    Raise = FALSE
    Asked <- SizesMixed
    MaxResource = 6
INVARIANTS RestReadable OvercommitBounded

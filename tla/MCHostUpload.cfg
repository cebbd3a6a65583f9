SPECIFICATION Spec
CONSTANTS
    a = a
    b = b
    System <- Systems
    MaxGen = 1
    MaxFault = 0
CHECK_DEADLOCK FALSE
INVARIANTS PortIsServed

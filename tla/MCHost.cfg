SPECIFICATION FairSpec
CONSTANTS
    a = a
    b = b
    System <- Systems
    MaxGen = 2
    MaxFault = 2
CHECK_DEADLOCK FALSE
INVARIANTS ReadyHoldsLock
PROPERTIES HostHandedOver

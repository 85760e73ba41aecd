SPECIFICATION FairSpec
CONSTANTS
    p1 = p1
    p2 = p2
    Peers = {p1, p2}
    a = a
    b = b
    Chains = {a, b}
    Trunk = a
    ForkAt = 2
    MaxNumber = 6
    requestHeaders = 2
    Tasks = 2
    BatchLimit = 2
    MaxHeads = 2
    MaxFaults = 1
    MaxRestarts = 1

INVARIANTS
    
    TasksTracked
    FillsLinked

PROPERTIES
    EventuallyLinked

CHECK_DEADLOCK FALSE

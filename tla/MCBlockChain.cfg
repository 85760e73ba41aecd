CONSTANTS
    g = g
    a1 = a1
    a2 = a2
    a3 = a3
    a4 = a4
    c1 = c1
    c2 = c2
    Genesis = g
    NoBlock = NoBlock
    FreezerBatchLimit = 2
    TriesInMemory = 2
    Blocks <- LongFork
    Parent <- LongParent
    Setups <- ThreeNodes

SPECIFICATION Spec

CHECK_DEADLOCK FALSE

INVARIANTS
    HeadSound
    
    

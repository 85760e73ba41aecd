SPECIFICATION Spec
CONSTANTS
    Txs <- MCTxs
    LocalAddrs = {2}
    StartBalance = 5
    PriceBump = 10
    AccountSlots = 2
    GlobalSlots = 4
    AccountQueue = 1
    GlobalQueue = 1
    MaxReorg = 1
    Tips = {2}
    Starts <- MCStarts
    Mined <- MCMined
    MaxAdds = 2
    MaxAsked = 1
    MaxHeads = 3
    MaxBlocks = 2
    MaxTicks = 1
CHECK_DEADLOCK FALSE

INVARIANTS
    PoolSound
    
    PendingAnnounced

PROPERTIES
    LimitsEnforced

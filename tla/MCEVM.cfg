SPECIFICATION Spec
CONSTANTS
    Nibbles <- MCNibbles
    Addrs <- MCAddrs
    Keys <- MCKeys
    Sender <- s
    ripemd <- r
    Coinbase <- r
    NewContract <- c
    Setups <- MCSetups
INVARIANTS NeverFails NodesExact
PROPERTIES ImplementsWorld UpdateExact
CHECK_DEADLOCK FALSE

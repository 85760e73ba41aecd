CONSTANTS
    Nodes = {a, b, me}
    self = me
    maxDialPeers = 1
    maxActiveDials = 1
    MaxPeers = 2
    Slots = {}
    Callers = {r1}
    Removable = {a}
    Static = {a}
    Trusted = {}
    MaxDrops = 1
    None = None
SPECIFICATION FairSpec
PROPERTIES StopCompletes RemoveCompletes StaticDialed
CHECK_DEADLOCK FALSE

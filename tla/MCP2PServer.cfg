CONSTANTS
    Nodes = {a, b, c, me}
    self = me
    maxDialPeers = 1
    maxActiveDials = 2
    MaxPeers = 2
    Slots = {s1}
    Callers = {}
    Removable = {}
    Static = {a}
    Trusted = {c}
    MaxDrops = 1
    None = None
SPECIFICATION Spec

INVARIANTS
    TypeOK
    DialerSound
    LimitsSound

CHECK_DEADLOCK FALSE

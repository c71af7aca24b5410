SPECIFICATION Spec
CONSTANTS
    p = p
    q = q
    whole = whole
    Thread = {t1, t2}
    Packet = {p, q, whole}
    Parts <- MCParts
    Familiar = {q}
    Slots = 2
    MaxComing = 4
CHECK_DEADLOCK FALSE
INVARIANTS WholePackets AnyOrderAssembles
PROPERTY WaitingIsDecoded

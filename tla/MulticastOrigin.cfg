SPECIFICATION Spec
CONSTANTS
    a = a
    b = b
    Self = Self
    Node = {Self, a, b}
    None = None
    Config <- MCConfig
    QueueSize = 1
    TransmitTimeout = 1
    GatherDelay = 1
    LikeExpire = 2
    MaxCasts = 2
    MaxTime = 3
INVARIANT OriginSpared

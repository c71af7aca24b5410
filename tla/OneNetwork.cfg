SPECIFICATION OneNetworkSpec
CONSTANTS
    a = a
    b = b
    Self = Self
    Node = {Self, a, b}
    None = None
    Config <- MCConfig
    QueueSize = 1
    TransmitTimeout = 1
    GatherDelay = 1
    LikeExpire = 2
    MaxCasts = 2
    MaxTime = 3
    Main = Main
    Api = {Main, t1}
    Handler = {h1, h2}
    Revision = {r1, r2}
    NoConfig = NoConfig
    Absent = Absent
    Blank = Blank
    MaxJoins = 2
    MaxRestarts = 1
INVARIANTS
    NeverTwice
    WaitingReachedAll
    WithinLimit
    SomeoneIsAsked
    InStep
    ServiceFollows

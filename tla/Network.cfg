SPECIFICATION NetSpec
CONSTANTS
    a = a
    b = b
    far = far
    tag = tag
    Node = {a, b, far}
    Target = b
    Controller = Controller
    Key = {tag}
    Com = Com
    Revocations <- MCRevocations
    Online <- MCOnline
    Watching = {a}
    Stamps = {2, 3}
    ConfStamps = {2, 4}
    Delta = 1
    Peers <- MCPeers
    MaxForgets = 1
    u1 = u1
    u2 = u2
    u3 = u3
    Update = {u1, u2, u3}
    Length <- MCLength
    Fast = {u1, u3}
    Legacy = {old}
    Member = {m}
    NetController = NetController
    Slots = 2
    MaxChunks = 2
    NoUpdate = NoUpdate
    Arriving = {u1, u2}
    MaxTs = 3
CHECK_DEADLOCK FALSE
INVARIANTS
    RevokedStaysOut
    SameRevocations
    ComRevocationsHold
    NoMixture
    UsedOnce
PROPERTIES
    RumourReachesAll
    UpdatesAssembled

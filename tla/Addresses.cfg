SPECIFICATION AddressesSpec
CONSTANTS
    lan1 = lan1
    lan2 = lan2
    pub1 = pub1
    pub2 = pub2
    v6 = v6
    Ip <- MCIp
    V4 <- MCV4
    Private <- MCPrivate
    Port = {0, 1, 2}
    DefaultPort = 2
    MaxEndpoints = 4
    Answers <- MCAnswers
    Listed <- MCListed
    a1 = a1
    a2 = a2
    b = b
    t1 = t1
    t2 = t2
    None = None
    Path = {a1, a2, b}
    AddressOf <- MCAddressOf
    ScopeOf <- MCScopeOf
    Thread = {t1, t2}
    MaxPaths = 3
    MaxPriority = 3
SYMMETRY Threads
INVARIANTS
    Stabilises
    LanKept
    AnswerInForce
    Compact
    PassProgresses
    OneThreadOneEntry

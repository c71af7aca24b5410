SPECIFICATION MCSpec
CONSTANTS
    self = self
    r1 = r1
    r2 = r2
    k1 = k1
    k2 = k2
    p = p
    m = m
    lan = lan
    pub1 = pub1
    pub2 = pub2
    None = None
    Torn = Torn
    Addr = {self, r1, r2}
    Self = self
    Key = {k1, k2}
    PlanetId = {p}
    Ip = {lan, pub1, pub2}
    V4 = {lan, pub1, pub2}
    Private = {lan}
    Port = {0, 1}
    DefaultPort = 1
    MaxEndpoints = 3
    EpLists <- MCEpLists
    MoonId = {m}
    Published <- MCPublished
    Offered <- MCOffered
    Answers <- MCAnswers
    Sources <- MCSources
    Caller = {api}
INVARIANTS
    TypeOK
    MemoConsistent
    UpstreamsHavePeers
    PlanetPersisted
PROPERTIES
    MoonsWereWanted
    PathsStayPermitted
    KeepsTrust

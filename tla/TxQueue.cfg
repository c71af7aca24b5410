SPECIFICATION Spec
CONSTANTS
    pkt1 = pkt1
    pkt2 = pkt2
    peer1 = peer1
    peer2 = peer2
    Sender = {s1}
    Packet = {pkt1, pkt2}
    To <- MCTo
    Upstream = Upstream
    QueueSize = 2
    RetryDelay = 1
    Timeout = 1
    Nothing = Nothing
    MaxForgets = 1
CHECK_DEADLOCK FALSE
INVARIANT OneFate
PROPERTIES ReachableIsSent

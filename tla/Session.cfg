CONSTANTS
    Requests = {r1, r2}
    Keepalive = keepalive
    Tokens = {t1, t2}
    None = None
    Expires = 4
    Margin = 1
    HandshakeAfter = 2
    CheckPeriod = 2
    RequestTimeout = 1
SPECIFICATION LiveSpec
INVARIANTS
    AtMostOneAuthExchange
    UsableMeansHonoured
    HandshakeIsOfTheSession
PROPERTIES
    SharedSpec
    QueuedRequestsProceed
    DeadSessionIsDropped

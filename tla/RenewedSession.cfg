CONSTANTS
    Requests = {r1}
    Keepalive = keepalive
    Tokens = {t1, t2}
    None = None
    Expires = 4
    Margin = 1
    HandshakeAfter = 2
    CheckPeriod = 2
    RequestTimeout = 1
SPECIFICATION Spec
PROPERTIES
    RenewedSessionIsUsable

SPECIFICATION FairSpec
CONSTANTS
    Servers = {s1, s2}
    Fallback = 1
    Pool <- MCPool
    Leases <- MCLeases
    DHC_INFINITY = DHC_INFINITY
    DHC_RETRY_TMO = 1
    DHC_MAX_TRIES = 2
    SETUP_TMO = 3
    RENEW_MIN = 1
    MaxInFlight = 1
    None = None
CHECK_DEADLOCK FALSE
INVARIANTS AcknowledgedAddress LeaseRespected
PROPERTIES ExpiresWhenDue ReadyWithAddress ServersStart

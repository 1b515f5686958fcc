SPECIFICATION Spec
CONSTANTS
    Servers = {s1}
    Fallback = 1
    Pool <- MCPool
    Leases <- MCShortLeases
    DHC_INFINITY = DHC_INFINITY
    DHC_RETRY_TMO = 1
    DHC_MAX_TRIES = 2
    SETUP_TMO = 20
    RENEW_MIN = 1
    MaxInFlight = 2
    None = None
CHECK_DEADLOCK FALSE
INVARIANTS ExpiredAddressCleared

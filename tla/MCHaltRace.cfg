SPECIFICATION Spec
CONSTANTS
    Servers = {s1}
    Fallback = 1
    Pool <- MCPool
    Leases <- MCLeases
    DHC_INFINITY = DHC_INFINITY
    DHC_RETRY_TMO = 1
    DHC_MAX_TRIES = 2
    SETUP_TMO = 8
    RENEW_MIN = 1
    MaxInFlight = 1
    None = None
CHECK_DEADLOCK FALSE
PROPERTIES HaltStops

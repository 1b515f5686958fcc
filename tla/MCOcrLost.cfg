SPECIFICATION FairSpec
CONSTANTS
    Kinds <- MCKinds
    LastSector = 3
    Requests <- MCRequests
    SECTOR_SIZE = 2
    ADDR_MOD = 16
    INIT_RETRY = 3
    Losable <- MCLosableOcr
    NoSector = NoSector
    Failed = Failed
INVARIANT Addressing

SPECIFICATION FairSpec
CONSTANTS
    Kinds <- MCKinds
    LastSector = 3
    Requests <- MCRequests
    SECTOR_SIZE = 2
    ADDR_MOD = 16
    INIT_RETRY = 3
    \* MCLosableReady: the answer of the last ACMD41 is lost
    Losable <- MCLosableReset
    NoSector = NoSector
    Failed = Failed
INVARIANT NothingReadUninitialised

SPECIFICATION FairSpec
CONSTANTS
    Volumes <- MCVolumes
    Tables <- MCTables
    DIR_ENTRIES = 3
    FAT_ENTRIES = 2
    SECTOR_CELLS = 2
    EOC = 100
    HEADER_CELLS = 1
    ROW_CELLS = 2
    BUFFER_CELLS = 6
    CLUSTER_MOD = 16
    MaxFaults = 2
    MaxLoads = 2
    None = None
INVARIANTS TypeOK RightTable OwnRows
PROPERTY EveryLoadEnds
CHECK_DEADLOCK FALSE

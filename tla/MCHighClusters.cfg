SPECIFICATION Spec
CONSTANTS
    Volumes <- LargeVolumes
    Tables <- MCTables
    DIR_ENTRIES = 3
    FAT_ENTRIES = 2
    SECTOR_CELLS = 2
    EOC = 100
    HEADER_CELLS = 1
    ROW_CELLS = 2
    BUFFER_CELLS = 6
    CLUSTER_MOD = 8
    MaxFaults = 0
    MaxLoads = 1
    None = None
INVARIANT RightTable
CHECK_DEADLOCK FALSE

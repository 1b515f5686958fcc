CONSTANTS
  FIFO_DEPTH = 2
  NUM_COLS = 2
  NUM_WHERE = 2
  ACC_MOD = 65536
  Bytes = {0, 48, 49, 50}
  \* LimitedAggregateQueries: COUNT and SUM under a limit
  Queries <- WideLimitQueries
  WHERE_MAX = 2
  QUERY_MAX_ROWS = 256
  STALL_MAX = 3
  READ_WAIT = 1
  MaxQueries = 1
SPECIFICATION Spec
INVARIANT MatchesGabarito

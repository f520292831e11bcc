SPECIFICATION TreeSpec
CONSTANTS
  B = 3
  MAX_MEM_REGIONS = 2
  MAX_RSV_REGIONS = 2
  MAX_ENTROPY = 2
  MAX_DEPTH = 3
  NodeNames = {"", "memory", "chosen", "reserved-memory"}
  Props <- MCProps
  Entries <- MCEntries
  MaxRegs = 2
INVARIANTS FlagsFollowPath ResultIsDocument RegionsUsable
CHECK_DEADLOCK FALSE

SPECIFICATION CapSpec
CONSTANTS
  G = 2
  Limit = 12
  CNODE_SLOTS = 8
  Memories <- MCMemories
  Reservations <- MCReservations
INVARIANTS UntypedIsFreeMemory UntypedsDisjoint ObjectsDisjoint NoGranuleLost
PROPERTIES CapsPersist

SPECIFICATION BootSpec
CONSTANTS
  G = 2
  Limit = 32
  CNODE_SLOTS = 12
  Memories <- MCMemories
  Reservations = {}
  KernelImage <- MCKernelImage
  Dtbs <- MCDtbs
  Firmwares <- MCFirmwares
  Devices <- MCDevices
  WINDOW_SIZE = 4
  ROUNDS = 8
INVARIANTS LowestWindow NothingSkipped TurnsSuffice NothingOwnedIsUntyped SlotsSuffice
PROPERTIES BootEnds

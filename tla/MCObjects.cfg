SPECIFICATION ObjSpec
CONSTANTS
  G = 2
  Fan = 2
  Fan0 = 2
  POOL_LEN = 21
  Limit = 34
  CNODE_SLOTS = 9
  Memories <- MCMemories
  Reservations <- MCReservations
  KernelImage <- MCKernelImage
  Device <- MCDevice
  Window <- MCWindow
  ImageVA = 2
  StackVA = 6
  BootinfoVA = 4
  MapArgs <- MCMapArgs
INVARIANTS UserReachesFramesOnly TableLinkedOnce NeverCorrupt KernelMapsObjects
PROPERTIES FailureChangesNothing TranslationsStay

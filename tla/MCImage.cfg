SPECIFICATION ImgSpec
CONSTANTS
  G = 2
  Fan = 2
  Fan0 = 2
  POOL_LEN = 0
  Headers <- MCHeaders
  Entries = {5, 29, 60}
  ELF_LEN = 8
  MAX_HEADERS = 4
  MAX_SEGS = 3
  SEG_ALIGN = 4
  MAX_FLAT_SIZE = 20
  AddrSize = 64
  WindowBase = 40
  WindowFrames = 28
  USER_STACK_TOP = 28
  USER_STACK_SIZE = 4
  BOOTINFO_VA = 18
  KernelText = 31
INVARIANTS MemoryIsTheProgram BuiltImageBoots

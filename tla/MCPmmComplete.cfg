SPECIFICATION Spec
CONSTANTS
  GRP = 4
  BMP_SIZE = 3
  MaxPg = 10
  FreeChunks <- MC_FreeChunks
  BusyChunks <- MC_BusyChunks
  MmioPages <- MC_MmioPages
INVARIANT AllocComplete
CHECK_DEADLOCK TRUE

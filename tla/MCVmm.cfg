SPECIFICATION Spec
CONSTANTS
  ENTRIES = 3
  f1 = f1
  f2 = f2
  f3 = f3
  vga = vga
  mmio = mmio
  Pool <- MC_Pool
  Vga = {vga}
  Mmio = {mmio}
  DIR = DIR
  LOWT = LOWT
  LowMap <- MC_LowMap
  AllocVAs = {2, 3}
  DevVAs = {4}
  ReservedVAs = {5, 7}
  MaxPages = 3
  ReadAhead = {2}
  PTE_NULL = PTE_NULL
  JUNK = JUNK
INVARIANTS InUseNotFree NoSharedFrames TlbCoherent AllOrNothing
PROPERTIES OnePageAtATime  CallsReturn
CHECK_DEADLOCK FALSE

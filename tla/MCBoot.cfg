SPECIFICATION Spec
CONSTANTS
  Machines <- MCMachines
  SCAN = 16
  MEM_1MB = 24
  NONE = NONE
  PAGE = 4
  ENT = 9
  LOW = 6
  HHK = 2
  KERNEL = 2
  HIGHER = 27
  VGA = 4
  VGA_V = 26
  STACK = 2
  MAX_PG = 24
  APIC_P = 60
INVARIANTS
  NoFault
  FreeIsUsable
  DevicesReached
  RtcRouted
CHECK_DEADLOCK FALSE

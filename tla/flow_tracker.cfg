SPECIFICATION Spec
CONSTANTS
  None = None
  Key <- MCKey
  RoCE <- MCRoCE
  CPU <- MCCPU
  Slot <- MCSlot
  MaxPackets = 3
INVARIANTS
  ShortByCPUs
  NothingCountedTwice
PROPERTIES
  ImplementsKernelFlows
CHECK_DEADLOCK FALSE

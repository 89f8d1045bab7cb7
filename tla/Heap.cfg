SPECIFICATION Spec
CONSTANTS
  AvailableBytes = 11
  StartAddress = 2
  BlockSize = 2
  SizeMod = 16
  Requests = {0, 1, 4, 5, 8, 15}
INVARIANTS
  Isolation
  IInv
PROPERTIES
  HolderUndisturbed
  FreeKeepsTheTail
  LeakIsPermanent
  ResidueOnlyInside
  ImplementsAllocator
CHECK_DEADLOCK FALSE

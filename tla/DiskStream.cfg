SPECIFICATION Spec
CONSTANTS
  SectorSize = 2
  CountMod = 4
  HeapBlock = 4
  DiskSectors = 3
  Streams = {s1, s2}
  a = a
  b = b
  Buffers <- MCBuffers
  Fresh = Fresh
  Junk = Junk
  None = None
SYMMETRY MCStreamSymmetry
VIEW MCView
PROPERTIES
  NeighboursUndisturbed
  FittingTransfersAreComplete
  OverrunNeedsAnOffset
CHECK_DEADLOCK FALSE

SPECIFICATION Spec
CONSTANTS
  Entries = 3
  DirectoryFrame = 3
  TableFrames <- MCTableFrames
  KernelPages = {0}
  NewEntries <- MCNewEntries
  Junk = Junk
  TlbSize = 1
  MaxSets = 3
INVARIANTS
  WalkGivesWhatWasSet
  ProcessorUsesRecentEntries
CHECK_DEADLOCK FALSE

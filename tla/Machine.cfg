SPECIFICATION Spec
CONSTANTS
  VGA_WIDTH = 2
  VGA_HEIGHT = 2
  Letters = {T, K, Z}
  Key = K
  Error = Z
  EOL = EOL
  Blank = Blank
  CountMod = 3
  Base = 2
  DiskSectors = 3
  Lbas = {1}
  MaxCalls = 3
  MaxStatements = 3
INVARIANTS
  ScreenShowsWhatWasPrinted
  OkMeansTransferred
  OnlyWritesOverlap
PROPERTIES
  DiskInterruptsOnce
  CallsComeToAnEnd
  KeyEndsInterrupts
CHECK_DEADLOCK FALSE

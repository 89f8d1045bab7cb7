SPECIFICATION Spec
CONSTANTS
  RootEntries = 3
  SectorsPerCluster = 2
  LastCluster = 4
  CountMod = 4
  SizeMod = 4
  MaxSize = 5
  Descriptors = {d1, d2}
  MAIN = MAIN
  SUB = SUB
  Created = KOKO
  Deleted = DELETED
  Empty = EMPTY
  Names = {MAIN, SUB, KOKO, EMPTY}
  bytes = bytes
  Data = {bytes}
  Zero = Zero
  None = None
  Images <- MCImages
  ReservedWords <- MCReservedWords
  BlockItems = 6
  Strays <- MCStrays
SYMMETRY MCDescriptorSymmetry
VIEW MCView
INVARIANTS
  LoopsThroughDirectoryItems
CHECK_DEADLOCK FALSE

SPECIFICATION FsSpec
CONSTANTS
  RootEntries = 2
  SectorsPerCluster = 2
  LastCluster = 4
  CountMod = 4
  SizeMod = 2
  MaxSize = 4
  Descriptors = {d1, d2, d3, d4}
  MAIN = MAIN
  SUB = SUB
  KOKO = KOKO
  Created = KOKO
  Deleted = DELETED
  Empty = ""
  Names = {MAIN, KOKO}
  bytes = bytes
  Data = {bytes}
  Zero = Zero
  None = None
  FAT16 = FAT16
  Images <- MCFsImages
  ReservedWords <- MCFsWords
  BlockItems = 3
  Strays <- MCFsStrays
  MaxDescriptors = 3
  Paths <- MCPaths
  RootPath <- MCRootPath
  MainTxt <- MCMainTxt
  KokoTxt <- MCKokoTxt
  Unparsable = Unparsable
  SectorsPerBlock = 1
  Capacity = 40
  MaxUnreturned = 14
  Transient = 21
INVARIANTS
  IndexServesItsFile
  KernelUsesOpenIndexes
PROPERTIES
  ImplementsFileTable
  EveryOpenCosts
  OkFromWriteIsReadBack
VIEW MCFsView
SYMMETRY MCDescriptorSymmetry
CHECK_DEADLOCK FALSE

SPECIFICATION Spec
CONSTANTS
  MaxDescriptors = 3
  MaxFileSystems = 2
  FileSystems = {fat16, other}
  Handles = {h1, h2, h3, h4, h5}
  Paths <- MCPaths
  Unparsable = Unparsable
  NULL = NULL
SYMMETRY MCHandleSymmetry
INVARIANTS
  TypeOK
  NoDanglingDescriptor
  DescriptorKeepsItsFile
PROPERTIES
  HandlesAreLostOnlyWhenFull
  LastIndexIsStuck
CHECK_DEADLOCK FALSE

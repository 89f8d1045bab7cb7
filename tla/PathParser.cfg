SPECIFICATION Spec
CONSTANTS
  MaxPathSize = 8
  Digits = {"0"}
  Letters = {"a", "A", "!", "{"}
  Code <- MCCode
  Prefixes <- MCPrefixes
  MaxRest = 6
  NULL = NULL
INVARIANTS
  WellFormedPathIsSplit
  ListIsEndlessExactlyFor
  NoNameIsFreed
  NamesCompareWithoutCase
PROPERTIES
  IterationsShrinkThePath
CHECK_DEADLOCK FALSE

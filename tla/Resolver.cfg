SPECIFICATION MCSpec
CHECK_DEADLOCK FALSE
CONSTANTS
  N = 3
  NumNames = 3
  Values = {v1, v2}
  Literals = {v1}
  MaxLiterals = 1
  Absent = Absent
  Ref = Ref
  MaxChainDepth = 2
  Size = 5
  Keys = {1, 2}
  ContainerPaths <- MCPaths
INVARIANTS ChainVerdict SeriesAlwaysThere DependantsAgree FoundAllReplaced

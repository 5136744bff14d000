CONSTANTS
  NULL = NULL
  MaxNodes = 7
  MaxVnodes = 8
  MaxMounts = 3
  a = a
  b = b
  Files = {f, g}
  Dirs = {d}
  ReadSizes = {1, 2}
  WriteSizes = {1}
  Offsets = {0, 2}
  MaxSize = 2
  MaxTree = 4
  Paths <- MCPaths
  MountPoints <- MCMountPoints
  Targets <- MCTargets
  Archives <- MCArchives
  Initrds <- MCInitrds
SPECIFICATION MCSpec
VIEW StateView
SYMMETRY Symmetry
INVARIANTS
  NodesFormTrees
  VnodeRefsExact
  PathsResolve
  FileInBounds
  ExtractFaithful
CHECK_DEADLOCK FALSE

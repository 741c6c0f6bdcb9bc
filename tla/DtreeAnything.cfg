SPECIFICATION AnythingSpec
CONSTANTS
  i0 = i0 i1 = i1 i2 = i2 i3 = i3 i4 = i4 i5 = i5 k1 = k1 k2 = k2
  Names = {"a", "b"}
  Inodes = {i0, i1, i2, i3, i4, i5}
  MaxDepth = 3
  BufMax = 2
  EarlyAlarm = FALSE
  CmdPaths <- NoPaths
  Procs = {k1, k2}
  QMax = 3
  RootSeq <- TwoRoots
  MaxOps = 3
  When <- Anything
  Commands = {}
  InitTree <- TwoRootTree
INVARIANTS TypeOK WdUnique NoForgottenWatch StaleExplained
CHECK_DEADLOCK FALSE
SYMMETRY ProcSymmetry

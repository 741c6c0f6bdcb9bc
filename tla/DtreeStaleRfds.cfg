SPECIFICATION CommandSpec
CONSTANTS
  i0 = i0 i1 = i1 i2 = i2 i3 = i3 i4 = i4 i5 = i5 k1 = k1 k2 = k2
  Names = {"a", "b"}
  Inodes = {i0, i1, i2, i3, i4, i5}
  MaxDepth = 3
  BufMax = 2
  EarlyAlarm = FALSE
  CmdPaths <- NoPaths
  Procs = {k1}
  QMax = 10
  RootSeq <- OneRoot
  MaxOps = 2
  When <- MkdirOnly
  Commands = {"0"}
  InitTree <- RootWithSub
PROPERTY CommandsServed
CHECK_DEADLOCK FALSE

SPECIFICATION FairSpec
CONSTANTS
  Clients = {c1, c2}
  Nobody = Nobody
  Lens = {1, 2}
  IntRange = 4
  MaxRuns = 1
  None = None
  FileSystem <- MCFileSystem
  NoFile = NoFile
  QMax = 1
  NoQueue = NoQueue
  Pids <- MCPids
  Digits <- MCDigits
  MaxFiles = 3
  mq_maxmsg = 2
INVARIANTS TypeOK Delivered HeldAlone
PROPERTY Answered
CHECK_DEADLOCK FALSE

SPECIFICATION FairSpec
CONSTANTS
  Procs = {p1, p2, p3}
  Me = Me
  UidMaps <- SomeUidMaps
  GidMaps <- SomeGidMaps
  NewUids <- SomeNewUids
  User = 2
  Unset = Unset
  MaxSent = 2
  PipeSize = 1
  MaxDue = 2
  maxExp = 2
  maxSigs = 2
  NANO = 2
  MaxSec = 1
  MaxInt = 2
  MaxTicks = 8
  period = 2
  N = 3
  Bytes = 3
  BUF_SIZE = 2
  Capacity = 2
  Rounds = 2
  ArgvSize = 3
  MaxConf = 2
  MaxBytes = 2
INVARIANTS TypeOK PromptInForeground ReportsTrue Restored
PROPERTIES CommandEquipped ProgramsEnd
CHECK_DEADLOCK FALSE

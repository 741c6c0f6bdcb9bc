SPECIFICATION FairSpec
CONSTANTS
  Nobody = Nobody
  Producers = {p1, p2}
  MaxCount = 2
  N = 4
  T = {t1, t2, t3}
  numBarriers = 3
  Calls = 2
  Loops = 3
  Inner = 2
  NumThreads = 3
INVARIANTS TypeOK UnitsCounted ThreadsMeet
PROPERTY ProgramsEnd
CHECK_DEADLOCK FALSE

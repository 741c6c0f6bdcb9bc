SPECIFICATION FairSpec
CONSTANTS
  c1 = c1  c2 = c2
  r1 = r1
  Nobody = Nobody
INVARIANTS TypeOK Exchanged InputHandled SharedKept
PROPERTY Served
CHECK_DEADLOCK FALSE

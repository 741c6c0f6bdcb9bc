\* Two producers and four consumers: more waiters than signals.
SPECIFICATION FairSpec
CONSTANTS
  Producers = {p1, p2}
  Consumers = {c1, c2, c3, c4}
  TotalUnits = 3
  Nobody = Nobody
INVARIANTS TypeOK NoSleeperLeftBehind UnitsConserved ExitByLast
PROPERTY Terminates

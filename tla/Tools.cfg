SPECIFICATION Spec
CONSTANTS
  Absent = Absent
  Unknown = Unknown
  Alice = Alice
  Commands <- MCCommands
  InitialAcls <- MCInitialAcls
  EPERM = EPERM
  Invis = Invis
  NoPid = NoPid
  Memberships <- MCMemberships
  NoValue = NoValue
  Tids = {5, 6}
  NoCgroup = NoCgroup
INVARIANTS TypeOK AclsRight Listed
PROPERTY Verdicts

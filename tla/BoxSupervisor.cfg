SPECIFICATION Spec
CONSTANTS
  NoPid = NoPid
  p1 = p1
  p2 = p2
  Pid = {p1, p2}
  FalseLimit = 2
INVARIANTS
  TypeOK
  KillsTheHolder
PROPERTIES
  HungIsKilled
  RestartedAgain

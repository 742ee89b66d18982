SPECIFICATION Spec
CONSTANTS
  AppCount = 2
  Conns = {c1, c2}
  c1 = c1
  c2 = c2
INVARIANTS
  TypeOK
PROPERTIES
  CallsGoToIdle
  NoNeedlessRefusal
  SkipsOnlyPolled
  DeadAppNoticed
  OnlyCallsWait

SPECIFICATION Spec
CONSTANTS
  d1 = d1
  d2 = d2
  o1 = o1
  o2 = o2
  o3 = o3
  NULL = NULL
  Inner <- MCInner
  Outer <- MCOuter
  CallerMsgs <- MCCallerMsgs
  CalleeMsgs <- MCCalleeMsgs
  MaxBatch = 2
  ServiceThread = TRUE
SYMMETRY Symmetry
INVARIANTS
  TypeOK
  OneLine
  CallingIsConnected
  OutgoingHasScreen
  NullOnlyAfterHangup
  NoStaleRing
PROPERTIES
  PeerIsTold
  ScreenIsTold
  LineIsExclusive
  OnlyLateAnswers

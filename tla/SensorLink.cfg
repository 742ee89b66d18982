SPECIFICATION Spec
CONSTANTS
  Beats = {beat}
  Values = {open}
  beat = beat
  open = open
  Size = 3
  CrcSize = 2
  Separator = Separator
  Bad = Bad
  ReadSize = 5
  HbInterval = 1
  MaxOffline = 1
  MaxSent = 2
  MaxNoise = 2
INVARIANTS
  TypeOK
  NoByteLost
  Delivery
PROPERTIES
  OfflineIsTrue
  NothingStaysBehind
  LinkIsLossyLine

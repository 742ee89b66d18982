SPECIFICATION Spec
CONSTANTS
  Beats = {beat}
  Values = {open}
  beat = beat
  open = open
  Size = 3
  CrcSize = 2
  Separator = Separator
  Bad = Bad
  ReadSize = 5
  HbInterval = 1
  MaxOffline = 1
  MaxSent = 1
  MaxNoise = 0
PROPERTY SilenceIsNoticed

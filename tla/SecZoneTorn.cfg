SPECIFICATION Spec
CONSTANTS
  plain = plain
  blank = blank
  k1 = k1
  ZoneNumber = 2
  ModeNumber = 2
  Masks <- MCMasks
  Passwords = {plain}
  Stripped <- MCStripped
  Reports <- MCReports
  NoPassword = NoPassword
  FactoryPassword = plain
  NewKeys = {k1}
  NoKey = NoKey
INVARIANT AlarmFromOneConfiguration

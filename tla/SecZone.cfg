SPECIFICATION Spec
CONSTANTS
  plain = plain
  blank = blank
  k1 = k1
  ZoneNumber = 2
  ModeNumber = 2
  Masks <- MCMasks
  Passwords = {plain, blank}
  Stripped <- MCStripped
  Reports <- MCReportsHigh
  NoPassword = NoPassword
  FactoryPassword = plain
  NewKeys = {k1}
  NoKey = NoKey
INVARIANTS
  TypeOK
  RestartKeepsSettings
  RestartArmsNothing
  DecisionMatches

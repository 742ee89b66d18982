SPECIFICATION Spec
CONSTANTS
  Home = Home
  NoUrl = NoUrl
  other = other
  Urls = {other}
  Interval = 2
  Timer = 1
INVARIANTS
  TypeOK
  AddressKept
  StatusIsTrue
PROPERTIES
  KeepsAsking

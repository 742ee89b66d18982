SPECIFICATION Spec
CONSTANTS
  Home = Home
  NoUrl = NoUrl
  other = other
  Urls = {other}
  Interval = 2
  Timer = 1
INVARIANT ServerKnown

SPECIFICATION SetupSpec
CONSTANTS
  Server = {a, b}
  Home = a
  None = None
  MaxToken = 12
  MaxEvents = 1
INVARIANT ReenrollTakesEffect
CHECK_DEADLOCK FALSE

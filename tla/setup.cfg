SPECIFICATION SetupFairSpec
CONSTANTS
  Server = {a, b}
  Home = a
  None = None
  MaxToken = 12
  MaxEvents = 2
INVARIANTS
  SetupTypeOK
  CredentialsWhole
  NoLeftoverDaemon
  InstallTakesEffect
PROPERTY ServiceSettles
CHECK_DEADLOCK FALSE

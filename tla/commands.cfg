SPECIFICATION Spec
CONSTANTS
  Agent = {a1, a2}
  NoAgent = NoAgent
  Worker = {w1, w2}
  NoWorker = NoWorker
  Limit = 1
  MaxCommands = 2
  MaxEnroll = 1
SYMMETRY Symmetry
CHECK_DEADLOCK FALSE
INVARIANTS
  TypeOK
  AtMostOnceDelivery
  OnlyOwnCommands
  DeliveredIsSettled
  AckedWasDelivered
PROPERTIES
  NoOvertake
  SessionsAreAuthorized
  ImplementsMailbox

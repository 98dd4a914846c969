SPECIFICATION Spec
CONSTANTS
  Machine = {m1, m2}
  NoMachine = NoMachine
  Worker = {w1, w2}
  MaxAgents = 3
  MaxJti = 7
  AuditFails = TRUE
SYMMETRY Symmetry
CHECK_DEADLOCK FALSE
INVARIANTS
  TypeOK
  OneAgentPerMachine
  NoOrphanAsset
  ActiveHasSession
  RowsAwaitSignedTokens
PROPERTIES
  NoResurrection
  ImplementsSessionAuthority

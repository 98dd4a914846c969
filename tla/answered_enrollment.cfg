SPECIFICATION Spec
CONSTANTS
  Machine = {m1}
  NoMachine = NoMachine
  Worker = {w1, w2}
  MaxAgents = 2
  MaxJti = 6
  AuditFails = TRUE
CHECK_DEADLOCK FALSE
INVARIANT
  AnsweredEnrollmentPersists

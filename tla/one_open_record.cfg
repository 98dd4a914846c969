CONSTANTS
  Worker = {w1, w2}
  Owner = {o1}
  NoOwner = nobody
  MaxScans = 2
  MaxRecords = 2
SPECIFICATION Spec
INVARIANT OneOpenRecord
CHECK_DEADLOCK FALSE

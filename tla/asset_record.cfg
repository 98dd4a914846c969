CONSTANTS
  Worker = {w1, w2}
  Owner = {o1}
  NoOwner = nobody
  MaxScans = 2
  MaxRecords = 2
SPECIFICATION FairSpec
INVARIANTS TypeOK StoredOnce ColumnsNotAhead OwnerHasRecord SequentialHistory
PROPERTIES ImplementsInventory SilentGoesOffline
CHECK_DEADLOCK FALSE

CONSTANTS
  Limit = 1
  MaxScans = 2
  MaxBatch = 1
  MaxUpsets = 2
  Patience = 2
  Hopeless = {1}
SPECIFICATION FairSpec
INVARIANTS TypeOK EveryScanAccountedFor VouchedIsSafe
PROPERTIES ImplementsCourier RowsDrain SessionRecovers

CONSTANTS
  Limit = 1
  MaxScans = 2
  MaxBatch = 1
  MaxUpsets = 2
  Patience = 2
  Hopeless = {}
SPECIFICATION Spec
INVARIANT UnreachableIsBuffered

CONSTANTS
  A = A
  B = B
  Worker = {w1, w2}
  Machine = {m1, m2}
  Serial = {s1}
  NoSerial = NoSerial
  Mac = {A, B}
  NoMac = NoMac
  Interfaces <- Lists
SYMMETRY Symmetry
SPECIFICATION Spec
INVARIANTS TypeOK HealthyScansAccepted PrimaryIsReachable
PROPERTY SerialSticks

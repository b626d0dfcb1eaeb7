SPECIFICATION Spec
CONSTANTS
  o1 = o1
  o2 = o2
  w1 = w1
  w2 = w2
  Op = {o1, o2}
  Worker = {w1, w2}
  NoWorker = NoWorker
  MaxWrites = 3
  CanDelete = TRUE
  Faults = {"db", "nokey", "crash"}
SYMMETRY Symmetry
INVARIANTS TypeOK VersionNamesKey

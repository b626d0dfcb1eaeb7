SPECIFICATION Spec
CONSTANTS
  o1 = o1
  w1 = w1
  Op = {o1}
  Worker = {w1}
  NoWorker = NoWorker
  MaxWrites = 2
  CanDelete = FALSE
  Faults = {"nokey"}
SYMMETRY Symmetry
INVARIANTS RefusedOnlyConfigured

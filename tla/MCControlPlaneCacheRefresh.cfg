SPECIFICATION Spec
CONSTANTS
  o1 = o1
  o2 = o2
  w1 = w1
  w2 = w2
  Op = {o1, o2}
  Worker = {w1, w2}
  NoWorker = NoWorker
  Facts = {"status"}
  TTL = 2
  Delay = 1
  Faults = {}
SYMMETRY Symmetry
PROPERTIES RefreshSticks

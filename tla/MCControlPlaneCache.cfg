SPECIFICATION Spec
CONSTANTS
  o1 = o1
  o2 = o2
  w1 = w1
  w2 = w2
  Op = {o1, o2}
  Worker = {w1, w2}
  NoWorker = NoWorker
  Facts = {"status", "grant"}
  TTL = 1
  Delay = 1
  Faults = {"db", "redis", "crash"}
SYMMETRY Symmetry
CONSTRAINT OneFact
INVARIANTS TypeOK RevocationBinds

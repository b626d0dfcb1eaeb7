SPECIFICATION FairSpec
CONSTANTS
  r1 = r1
  r2 = r2
  t0 = t0
  t1 = t1
  t2 = t2
  Request = {r1, r2}
  NoRequest = NoRequest
  Text = {t0, t1, t2}
  NoText = NoText
  Parts <- PartsOf
  MaxWrites = 3
  Faults = {"db", "embed", "crash"}
CHECK_DEADLOCK FALSE
INVARIANTS TypeOK VersionIsNext ChunksFromHistory
PROPERTIES HistoryKept EveryRequestEnds

SPECIFICATION Spec
CONSTANTS
  r1 = r1
  r2 = r2
  w1 = w1
  w2 = w2
  c1 = c1
  Request = {r1, r2}
  Worker = {w1, w2}
  Chat = {c1}
  Tenant = {"t1", "t2"}
  Role = {"viewer", "user"}
  Sql = {"count", "COUNT", "scan"}
  NewChat = NewChat
  NoSql = NoSql
  NoRows = NoRows
  Asks <- MCAsks
  Folded <- MCFolded
  Allowed <- MCAllowed
  Large = {"scan"}
  Empty = {"COUNT"}
  Window = 2
  MaxFaults = 1
  Faults = {"db", "crash", "leave"}
SYMMETRY MCRequests
INVARIANTS
  TypeOK
  RowsOfQuery
  LargeAsked
  TurnsKept
  HistoryIsPast
CHECK_DEADLOCK FALSE

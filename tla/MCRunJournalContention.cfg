SPECIFICATION Spec
CONSTANTS
  Nobody = Nobody
  NoId = NoId
  None = None
  Runs = {r1, r2}
  Tasks = {t1, t2}
  Requests = {q1, q2}
  Hashes = {h1}
  Keys = {k1, k2}
  Steps = {}
  Ids = {}
  Callers = {c1}
  QueueLimit = 1
  IntentKeys = {}
SYMMETRY Symmetry
INVARIANTS
  OneActivePerTask
  RequestOnce
PROPERTIES
  ImplementsLease
  ReleasedByClosing
CHECK_DEADLOCK FALSE

SPECIFICATION ServiceSpec
CONSTANTS
  Nobody = Nobody
  NoId = NoId
  None = None
  Runs = {r1}
  Tasks = {"t1"}
  Requests = {"q1"}
  Hashes = {"h1"}
  Keys = {}
  Steps = {0}
  Ids = {}
  Results = {"succeeded"}
  Verdicts = {"succeeded", "failed", "cancelled", "unknown"}
  Findings = {"succeeded", "unknown"}
  Attempts = 2
  Callers = {"worker", "observer", "loop"}
  QueueLimit = 1
  Permits = 1
  Budget = 1
  Restarts = 0
  Queries = 1
  IntentKeys <- MCIntentKeys
  Asks <- MCAsks
INVARIANTS
  ServiceTypeOK
  AtMostOnce
  VerifiedEnd
CHECK_DEADLOCK FALSE

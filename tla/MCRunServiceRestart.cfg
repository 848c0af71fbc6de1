SPECIFICATION ServiceSpec
CONSTANTS
  Nobody = Nobody
  NoId = NoId
  None = None
  Runs = {r1}
  Tasks = {"t1"}
  Requests = {"q1"}
  Hashes = {"h1"}
  Keys = {}
  Steps = {0}
  Ids = {}
  Results = {"succeeded"}
  Verdicts = {"succeeded", "failed", "cancelled", "unknown"}
  Findings = {"succeeded", "unknown"}
  Attempts = 2
  Callers = {"worker", "observer", "loop"}
  QueueLimit = 1
  Permits = 1
  Budget = 0
  Restarts = 1
  Queries = 0
  IntentKeys <- MCIntentKeys
  Asks <- MCAsks
INVARIANTS
  RunsAccountedFor
PROPERTIES
  ImplementsJournal
CHECK_DEADLOCK FALSE

SPECIFICATION ServiceSpec
CONSTANTS
  Nobody = Nobody
  NoId = NoId
  None = None
  Runs = {r1}
  Tasks = {"t1"}
  Requests = {"q1"}
  Hashes = {"h"}
  Keys = {}
  Steps = {}
  IntentKeys = {}
  Ids = {}
  Results = {}
  Verdicts = {"failed"}
  Findings = {"unknown"}
  Attempts = 1
  Callers = {"worker", "observer", "loop"}
  QueueLimit = 1
  Permits = 1
  Budget = 1
  Restarts = 1
  Queries = 0
  Asks <- MCAsks
INVARIANTS
  LiveWorkerUndisturbed
CHECK_DEADLOCK FALSE

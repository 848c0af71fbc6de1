SPECIFICATION FairSpec
CONSTANTS
  Nobody = Nobody
  NoId = NoId
  None = None
  Runs = {r1}
  Tasks = {"t1"}
  Requests = {"q1"}
  Hashes = {"h"}
  Keys = {}
  Steps = {0}
  IntentKeys = {}
  Ids = {i1}
  Results = {}
  Verdicts = {"cancelled"}
  Findings = {"failed"}
  Attempts = 1
  Callers = {"worker", "observer", "loop"}
  QueueLimit = 1
  Permits = 1
  Budget = 1
  Restarts = 1
  Queries = 0
  Asks <- MCAsks
PROPERTIES
  Concludes
  Resolves
CHECK_DEADLOCK FALSE

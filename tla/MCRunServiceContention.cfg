SPECIFICATION FairSpec
CONSTANTS
  Nobody = Nobody
  NoId = NoId
  None = None
  Runs = {r1, r2}
  Tasks = {"t1", "t2"}
  Requests = {"q1", "q2"}
  Hashes = {"h"}
  Keys = {}
  Steps = {}
  IntentKeys = {}
  Ids = {}
  Results = {}
  Verdicts = {"succeeded", "cancelled"}
  Findings = {}
  Attempts = 1
  Callers = {"worker", "observer", "loop"}
  QueueLimit = 2
  Permits = 1
  Budget = 0
  Restarts = 0
  Queries = 0
  Asks <- MCAsks
INVARIANTS
  PermitsConserved
PROPERTIES
  Starts
CHECK_DEADLOCK FALSE

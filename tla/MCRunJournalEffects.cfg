SPECIFICATION Spec
CONSTANTS
  Nobody = Nobody
  NoId = NoId
  None = None
  Runs = {r1}
  Tasks = {t1}
  Requests = {q1}
  Hashes = {h1}
  Keys = {}
  Steps = {0}
  Ids = {i1}
  Callers = {c1}
  QueueLimit = 1
  IntentKeys <- MCIntentKeys
INVARIANTS
  TypeOK
  TerminalSettled
  SucceededComplete
  RecoveryAccepted
PROPERTIES
  TerminalFinal
  EffectForward
  NoEffectAfterStop
CHECK_DEADLOCK FALSE

SPECIFICATION Spec
CONSTANTS
  Procs = {"desk", "cli"}
  Callers = {"remove", "other"}
  Home <- HomeOf
  Kind <- KindOf
  Journal = "desk"
  Schema = "current"
  Cancels = 1
  Faults = 1
  Deaths = 0
  Nobody = "nobody"
  Records = {"code"}
  Tunnels = {}
  MaxTunnels = 1
  FailureLimit = 2
  MaxStarts = 2
  SlowClose = FALSE
INVARIANT ServicesSafe
PROPERTIES ImplementsRegister MessagesArrive WorkEnds
CHECK_DEADLOCK FALSE

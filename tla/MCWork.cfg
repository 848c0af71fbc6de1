SPECIFICATION Spec
CONSTANTS
  Operations <- AllOperations
  N = 1
  Stages <- TwoStages
  Unselected = {"x"}
  Outsiders = FALSE
  MaxBuilds = 2
  MaxAttempts = 2
  Faults = 2
INVARIANTS ExecutorSafe PlansSafe AiSafe StreamSafe
PROPERTY WorkSteps

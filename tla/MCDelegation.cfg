CONSTANTS
  r1 = r1
  r2 = r2
  r3 = r3
  t1 = t1
  t2 = t2
  c1 = c1
  c2 = c2
  c3 = c3
  Runs = {r1, r2, r3}
  ThreadOf <- TwoThreads
  MaxParallel = 1
  MaxChildRuns = 2
  MaxUsage = 1
  Asks = {r3}
  Faults = TRUE
  MaxRestarts = 1
  CallIds = {c1, c2}
  Says <- WideSays
  Ways = {"result", "partial", "asked", "storm", "refused", "hook"}
  MaxTurns = 2
  MaxSteps = 2
  MaxCalls = 2
  MaxFolds = 1
  MaxFaults = 1
  Keeps = {1}
SPECIFICATION DelegationSpec
SYMMETRY Symmetry
CONSTRAINT Bound
CHECK_DEADLOCK FALSE
INVARIANTS
  ActiveCounts
  ParallelBudgetIfSerial
  OutcomeAgrees
PROPERTIES
  CallsArePaired
  AnswersReachModel

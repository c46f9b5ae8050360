CONSTANTS
  c1 = c1
  c2 = c2
  c3 = c3
  i1 = i1
  i2 = i2
  Calls = {c1, c2, c3}
  IdOf <- SharedId
  Posts = {a1, a2, q1}
  None = None
  As = {a1, a2}
  Bs = {b1, b2}
  Clients = {c1, c2, c3}
  OpsOf <- LoopOps
  Ticks = {a1, a2}
  ThreadOf <- OneThread
  MaxConcurrent = 1
  Limited = {c1}
  Skips = {c1}
  MaxFaults = 1
  Nil = Nil
  Torn = Torn
  StoreCalls = {c1, c2, c3}
  Missing = Missing
  MaxFailures = 1
  Items = {b1, b2}
  Models = {a1, a2}
  MayAsk <- AnyOp
  MaxLines = 1
  Retention = 1
  LastTime = 3
  Turns = {a1, a2}
  Setters = {g1, g2}
  Objectives = {b1, b2}
  MaxIterations = 2
  MaxGoals = 2
  NoGoal = NoGoal
SPECIFICATION ServicesSpec
SYMMETRY Symmetry
CONSTRAINT Bound
CHECK_DEADLOCK FALSE
INVARIANTS
  AllowedByPost
  PendingIsWaitedFor
  RunsCounted
  EndedStaysEnded
  EvaluationsCapped
  NothingOwedIsLost
  DaysKeepTheirUsage

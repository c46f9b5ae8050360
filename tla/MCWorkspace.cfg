CONSTANTS
  c1 = c1
  c2 = c2
  c3 = c3
  c4 = c4
  c5 = c5
  p1 = p1
  p2 = p2
  p3 = p3
  Calls = {c1, c2, c3, c4, c5}
  Procs = {p1, p2, p3}
  ProcOf <- ThreeProcs
  Linked = {c2}
  Crashes = {p2}
  None = None
  Paths = {f1, f2}
  Contents = {v1, v2}
  Absent = None
  Checkpoints = {"checkpoint"}
  Jobs = {"job"}
  MaxEdits = 2
  Threads = {f1, f2}
  Messages = {v1, v2}
  MaxOps = 2
  MaxStreams = 2
  MaxAttempts = 1
  MaxCalls = 1
  MaxFaults = 1
  MaxLog = 3
  Nil = Nil
SPECIFICATION WorkspaceSpec
SYMMETRY Symmetry
CONSTRAINT Bound
CHECK_DEADLOCK FALSE
INVARIANTS
  OneRuns
  InOrder
  NoLockLeft
  SentWhereTyped
  
  
PROPERTY
  ReconstructsInTree

CONSTANTS
  Callers = {c1, c2}
  Settings = {s1, s2}
  First = s1
  MaxChanges = 2
  MaxDeaths = 1
  MaxProcs = 4
  None = None
SPECIFICATION ProcessSpec
CHECK_DEADLOCK FALSE
INVARIANT EnsuredMeansReady

CONSTANTS
  Threads = {A, B}
  Messages = {m1}
  MaxOps = 2
  MaxStreams = 3
  MaxAttempts = 1
  MaxCalls = 1
  MaxFaults = 1
  MaxLog = 5
  Nil = Nil
SPECIFICATION ChatFairSpec
CHECK_DEADLOCK FALSE
PROPERTY FreeAgain

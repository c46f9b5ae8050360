CONSTANTS
  t1 = t1
  t2 = t2
  h1 = h1
  h2 = h2
  Turns = {t1}
  Threads = {h1}
  ThreadOf <- OneThread
  Texts = {}
  NoTurn = NoTurn
  MaxSteps = 1
SPECIFICATION FairSpec
CHECK_DEADLOCK FALSE
PROPERTY CancelledTurnEnds

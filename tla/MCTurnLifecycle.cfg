CONSTANTS
  t1 = t1
  t2 = t2
  h1 = h1
  h2 = h2
  Turns = {t1, t2}
  Threads = {h1}
  ThreadOf <- OneThread
  Texts = {x1}
  NoTurn = NoTurn
  MaxSteps = 1
SPECIFICATION Spec
CHECK_DEADLOCK FALSE
SYMMETRY Symmetry
INVARIANTS
  SettledWhenOver
  OneOutcome
  ThreadStatusRight
  SteeringRight
PROPERTIES
  NoToolAfterSignal

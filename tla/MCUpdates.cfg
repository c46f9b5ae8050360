CONSTANTS
  Updates = {u1, u2, u3, d1}
  Direct = {d1}
  NoUpdate = NoUpdate
  Tasks = {task}
  Ticks = {tick}
  Calls = {call}
  Deleted = Deleted
  MaxFaults = 1
SPECIFICATION UpdatesSpec
CHECK_DEADLOCK FALSE
INVARIANTS
  InOrder
  OneTimeOnce
PROPERTIES
  AtomicUntilDirect
  QueueDrains
  RunsAgain

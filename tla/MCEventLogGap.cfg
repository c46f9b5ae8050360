CONSTANTS
  Events = {e1, e2}
  Streams = {k1, k2}
  NoStream = NoStream
  Heartbeat = Heartbeat
  MaxHeartbeats = 1
  MaxRestarts = 1
SPECIFICATION Spec
SYMMETRY Symmetry
CHECK_DEADLOCK FALSE
INVARIANT NothingBetweenBacklogAndLive

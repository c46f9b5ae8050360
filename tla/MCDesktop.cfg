CONSTANTS
  Events = {e1, e2, e3}
  Streams = {k1, k2}
  NoStream = NoStream
  Heartbeat = Heartbeat
  MaxHeartbeats = 1
  MaxRestarts = 1
  Callers = {k1, k2}
  Settings = {old, new}
  First = old
  MaxChanges = 2
  MaxDeaths = 1
  MaxProcs = 4
  None = None
SPECIFICATION DesktopSpec
SYMMETRY Symmetry
CHECK_DEADLOCK FALSE
INVARIANTS
  SeqFollowsRealTime
  SeenOnceInOrder
  BacklogComplete
  OneChild
  SettingsTaken

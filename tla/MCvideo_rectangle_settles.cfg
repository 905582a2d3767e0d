SPECIFICATION Spec
CONSTANTS
  Sinks = {k1}
  None = None
  Rects = {"shown","other"}
  MaxInFlight = 2
  ReleaseLimit = 3
  RoomForFrames = 3
  RoomForReleases = 3
  MaxSequence = 2
  MaxConnections = 1
  Crashes = FALSE
INVARIANTS
  RectangleSettles
CHECK_DEADLOCK FALSE

SPECIFICATION MCSpec
CONSTANTS
  Sinks = {k1}
  None = None
  Rects = {"shown", "clipped"}
  MaxInFlight = 2
  ReleaseLimit = 3
  RoomForFrames = 1
  RoomForReleases = 1
  MaxSequence = 3
  MaxConnections = 2
  Crashes = FALSE
INVARIANTS
  ScanoutRetained
  SamplesAccounted
  CloseInOrder
  CleanHandover
PROPERTIES
  LendsSamples
  ChannelSettles
CHECK_DEADLOCK FALSE

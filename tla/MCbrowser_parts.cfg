SPECIFICATION PartsSpec
CONSTANTS
  None = None
  Memories <- SomeMemories
INVARIANTS
  ProfilesApart
  EvidenceKept
  StreamsWhole
  SessionSaved
  NoReloadAfterKill
  ToolbarHasRoom
  TapsAsDrawn
  PanelAgrees
  PressureHandled
PROPERTIES
  SessionKept
  ToolbarReturns
CHECK_DEADLOCK FALSE

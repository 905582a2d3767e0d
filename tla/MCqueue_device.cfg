SPECIFICATION DeviceSpec
CONSTANTS
  Buffers = {b1, b2, b3}
  Slots = {s1, s2}
  None = None
  MaxRetained = 3
  CopyPath = TRUE
  Atomic = TRUE
  InFence = FALSE
  SyncCommit = FALSE
  Throttled = TRUE
  HasCursor = FALSE
  Paced = FALSE
  MaxSerial = 3
  MaxEpoch = 2
  FencesGiven = {"Ready", "Pending"}
  ChromeRedraws = TRUE
SYMMETRY Symmetry
INVARIANTS
  TypeOK
  BufferOwnership
  NoEarlyRelease
  QuarantineSuffices
  TicketPhasesAgree
  WakeupArmed
  ShownFramesFinished
  TargetsOwned
  ScreenIsCurrent
PROPERTIES
  NoObsoleteSubmit
  NoTearing
  LendsAsPromised
CHECK_DEADLOCK FALSE

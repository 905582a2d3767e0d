SPECIFICATION Spec
CONSTANTS
  Buffers = {b1, b2, b3}
  Slots = {s1, s2}
  None = None
  MaxRetained = 3
  CopyPath = FALSE
  Atomic = TRUE
  InFence = TRUE
  SyncCommit = FALSE
  Throttled = FALSE
  HasCursor = FALSE
  Paced = FALSE
  MaxSerial = 3
  MaxEpoch = 2
  FencesGiven = {"Ready", "Pending"}
  ChromeRedraws = FALSE
SYMMETRY Symmetry
INVARIANTS
  NoEarlyRelease
CHECK_DEADLOCK FALSE

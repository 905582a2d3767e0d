SPECIFICATION Spec
CONSTANTS
  Buffers = {b1, b2, b3}
  Slots = {s1, s2}
  None = None
  MaxRetained = 3
  CopyPath = TRUE
  Atomic = TRUE
  InFence = FALSE
  SyncCommit = FALSE
  Throttled = FALSE
  HasCursor = TRUE
  Paced = FALSE
  MaxSerial = 3
  MaxEpoch = 2
  FencesGiven = {"Ready", "Pending"}
  ChromeRedraws = FALSE
SYMMETRY Symmetry
INVARIANTS
  TicketPhasesAgree
CHECK_DEADLOCK FALSE

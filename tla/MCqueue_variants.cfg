SPECIFICATION Spec
CONSTANTS
  Buffers = {b1, b2, b3}
  Slots = {s1, s2}
  None = None
  MaxRetained = 3
  InFence = FALSE
  Throttled = FALSE
  Paced = FALSE
  MaxSerial = 3
  MaxEpoch = 2
SYMMETRY Symmetry
INVARIANT
  PictureRight
PROPERTY
  SafeInEveryMode
CHECK_DEADLOCK FALSE

SPECIFICATION FairSpec
CONSTANTS
  Buffers = {b1, b2, b3}
  Two = {b1, b2}
  Slots = {s1, s2}
  None = None
  MaxSerial = 3
PROPERTIES
  FramesSettle
CHECK_DEADLOCK FALSE

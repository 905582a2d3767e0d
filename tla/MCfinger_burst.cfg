SPECIFICATION Spec
CONSTANTS
  Slots = {1, 2, 3}
  Contacts = {1, 2, 3, 4, 5, 6, 7}
  Taps = 1
  MaxFrames = 3
  Abrupt = TRUE
INVARIANT OldContactRetired
CHECK_DEADLOCK FALSE

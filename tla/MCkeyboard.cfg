SPECIFICATION KeyboardSpec
CONSTANTS
  Ids = {1, 2}
  Texts = {0, 1}
  MaxSequence = 1
  MaxRetries = 1
  MaxFaults = 1
  Overrides = {"auto", "textarea", "global"}
  None = None
  Kinds = {"address"}
INVARIANTS
  OneKeyboard
PROPERTIES
  ConfirmedTextLands
  SessionsEnd
CHECK_DEADLOCK FALSE

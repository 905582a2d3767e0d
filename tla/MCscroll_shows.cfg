SPECIFICATION Spec
INVARIANT
  RoomWhileVisible
CHECK_DEADLOCK FALSE

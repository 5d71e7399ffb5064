SPECIFICATION Spec
CHECK_DEADLOCK FALSE
CONSTANTS
  Operations = {"minimize"}
  Desktops = {"current"}
  MaxEvents = 3
  MaxPending = 2
  MaxKept = 0
INVARIANTS
  FrameAgrees

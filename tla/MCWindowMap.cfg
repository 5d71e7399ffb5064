SPECIFICATION Spec
CHECK_DEADLOCK FALSE
CONSTANTS
  Operations = {"minimize", "showdesktop", "hide", "desktop", "shade", "activate"}
  Desktops = {"current", "other", "all"}
  MaxEvents = 3
  MaxPending = 2
  MaxKept = 1
INVARIANTS
  TypeOK
  ViewAgrees
  WmStateAgrees

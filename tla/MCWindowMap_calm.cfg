SPECIFICATION FairSpec
CHECK_DEADLOCK FALSE
CONSTANTS
  Operations = {"minimize", "showdesktop", "hide", "desktop", "shade", "activate"}
  Desktops = {"current", "other", "all"}
  MaxEvents = 1
  MaxPending = 2
  MaxKept = 1
INVARIANTS
  FrameAgrees
  WithdrawnOff
PROPERTIES
  OnlyClientWithdraws
  RequestHeard

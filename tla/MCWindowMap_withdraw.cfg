SPECIFICATION Spec
CHECK_DEADLOCK FALSE
CONSTANTS
  Operations = {"desktop"}
  Desktops = {"current", "other"}
  MaxEvents = 1
  MaxPending = 2
  MaxKept = 0
INVARIANTS
  WithdrawalSeen

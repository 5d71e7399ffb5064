SPECIFICATION EventsSpec
CONSTANTS
  Actions <- MCActions
  KeyOf <- MCKeyOf
  EdgesOf <- MCEdgesOf
  Keycodes = {"k", "sup", "alt", "aux"}
  NoKeycode = "none"
  Layouts <- MCLayouts
  LockMask = "lock"
  LockVirtuals = {"NumLock"}
  BitOf <- MCBitOf
  NoMask = "NoMask"
  ForeignGrabs <- MCForeign
  MaxCount = 2
  NoAction = "noAction"
INVARIANT TapCancelled
CHECK_DEADLOCK FALSE

SPECIFICATION PartsSpec
CONSTANTS
  Handles = {"g1", "g2", "g3"}
  Cursors = {"busy", "move"}
  NoCursor = "none"

  Actions <- MCActions
  KeyOf <- MCKeyOf
  EdgesOf <- MCEdgesOf
  Keycodes = {"k", "sup", "alt", "aux"}
  NoKeycode = "none"
  Layouts <- MCLayouts
  LockMask = "lock"
  LockVirtuals = {"NumLock"}
  BitOf <- MCBitOf
  NoMask = "NoMask"
  ForeignGrabs <- MCForeign
  MaxCount = 2
  NoAction = "noAction"

  PluginNames = {"ccp", "move", "fade", "gone"}
  InitialPlugins <- MCInitial
  OptionLists <- MCLists
  Unloadable = {"gone"}
  NeverStarts = {"move"}
  NotForWindows = {"fade"}
  Windows = {"w1", "w2"}
  MaxCrossings = 1

  a = a
  b = b
  o = o
  fa = fa
  fb = fb
  Managed = {a, b}
  Overrides = {o}
  FrameOf <- MCFrameOf
  Nothing = none
  MaxEvents = 2
  MaxRequests = 2
  MaxMoves = 1
  Animated = {a}
  Keepable = {a}

  Places = {0, 1}
  Sizes = {4}
  WorkArea = 5
  Widths = {0, 1}
  Decorations <- MCDecorations
  Gravities = {"north", "south"}
  MaxConfigures = 2
  MaxSyncs = 1

  Wrappers = {"p", "q", "r"}
  Base = "base"
  MaxDepth = 4

  Pinged = {"w"}
  MaxPings = 5
  MaxCloses = 2
INVARIANTS
  PartsTypeOK
  GrabsMatch SoleCursor
  KeysGrabbed CountsExact EndsWithKeys TapAlone
  PluginsSettled ScreenObjects ObjectsLiveWhenCalm
  OrderAgrees PlanAgrees FramesGoWithClients NeighboursExist
  WindowsFit GeometrySettles NotifyExpected
  HeardByAll
  DialogAnswerable
PROPERTY DeadWhenSilent
CHECK_DEADLOCK FALSE

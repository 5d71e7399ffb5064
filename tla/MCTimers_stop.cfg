SPECIFICATION Spec
CONSTANTS
  t1 = t1
  t2 = t2
  t3 = t3
  NoTimer = NoTimer
  Timer <- TwoTimers
  Times <- ShortTimes
  Tick = 3
  Word = 1000
  MaxRequeue = 2
INVARIANTS
  StopStops

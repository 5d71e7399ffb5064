SPECIFICATION Spec
CONSTANTS
  t1 = t1
  t2 = t2
  t3 = t3
  NoTimer = NoTimer
  Timer <- TwoTimers
  Times <- LongTimes
  Tick = 2
  Word = 8
  MaxRequeue = 2
PROPERTIES
  NeverEarly

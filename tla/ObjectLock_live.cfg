\* Two threads on one object, three budgeted calls each.
SPECIFICATION LiveSpec
CONSTANTS
  Threads = {t1, t2}
  Objects = {o1}
  NoThread = NoThread
  NoObject = NoObject
  CountMask = 1
  BornFat = {}
  MaxDepth = 2
  MaxStarts = 3
  ThrowChoices = {TRUE}
  SpuriousWakeups = FALSE
  PollsInterrupted = FALSE
PROPERTIES CallsReturn WakingReturns
CHECK_DEADLOCK FALSE

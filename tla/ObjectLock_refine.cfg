\* Two threads, a thin and an always-fat object, every kind of wait.
SPECIFICATION Spec
CONSTANTS
  Threads = {t1, t2}
  Objects = {o1, o2}
  NoThread = NoThread
  NoObject = NoObject
  CountMask = 1
  BornFat = {o2}
  MaxDepth = 2
  ThrowChoices = {TRUE, FALSE}
  SpuriousWakeups = FALSE
  PollsInterrupted = TRUE
PROPERTIES RefinesMonitor
CHECK_DEADLOCK FALSE

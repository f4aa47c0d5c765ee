\* Applications that poll Thread.interrupted().
SPECIFICATION Spec
CONSTANTS
  Threads = {t1, t2}
  Objects = {o1}
  NoThread = NoThread
  NoObject = NoObject
  CountMask = 1
  BornFat = {}
  MaxDepth = 1
  ThrowChoices = {TRUE}
  SpuriousWakeups = FALSE
  PollsInterrupted = TRUE
PROPERTIES InterruptReported
CHECK_DEADLOCK FALSE

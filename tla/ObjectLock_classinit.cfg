\* Waits that are not to throw, as class initialisation makes them.
SPECIFICATION Spec
CONSTANTS
  Threads = {t1, t2}
  Objects = {o1}
  NoThread = NoThread
  NoObject = NoObject
  CountMask = 1
  BornFat = {}
  MaxDepth = 1
  ThrowChoices = {FALSE}
  SpuriousWakeups = FALSE
  PollsInterrupted = FALSE
PROPERTIES InterruptReported
CHECK_DEADLOCK FALSE

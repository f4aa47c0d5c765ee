\* Three threads on one object.
SPECIFICATION Spec
CONSTANTS
  Threads = {t1, t2, t3}
  Objects = {o1}
  NoThread = NoThread
  NoObject = NoObject
  CountMask = 1
  BornFat = {}
  MaxDepth = 2
  ThrowChoices = {TRUE}
  SpuriousWakeups = TRUE
  PollsInterrupted = FALSE
SYMMETRY Symmetry
INVARIANTS IndInv MutualExclusion DepthPreserved FreeMeansClear InterruptWakes WaitSetIntegrity SleeperCanBeWoken
PROPERTIES InterruptReported
CHECK_DEADLOCK FALSE

\* A thread that dies of an uncaught exception during a GC.
SPECIFICATION Spec
CONSTANTS
  g = g  m = m  n1 = n1  o1 = o1
  Threads = {m, g, n1}
  NoThread = NoThread
  Objects = {o1}
  NoObject = NoObject
  Main = m
  Collectors = {g}
  Compilers = {}
  Natives = {}
  Internals = {}
  Starters = {m}
  Lookers = {}
  DaemonChoices = {TRUE, FALSE}
  StartTwice = FALSE
  SpawnMayFail = FALSE
  AttachMayFail = FALSE
  Uncaught = TRUE
  Destroys = FALSE
  kMaxThreadId = 6
PROPERTIES NobodySlipsPast
CHECK_DEADLOCK FALSE

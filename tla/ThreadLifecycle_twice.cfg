\* Two calls of Thread.start on one object.
SPECIFICATION Spec
CONSTANTS
  m = m  n1 = n1  n2 = n2  o1 = o1
  Threads = {m, n1, n2}
  NoThread = NoThread
  Objects = {o1}
  NoObject = NoObject
  Main = m
  Collectors = {}
  Compilers = {}
  Natives = {}
  Internals = {}
  Starters = {m}
  Lookers = {}
  DaemonChoices = {TRUE, FALSE}
  StartTwice = TRUE
  SpawnMayFail = FALSE
  AttachMayFail = FALSE
  Uncaught = FALSE
  Destroys = FALSE
  kMaxThreadId = 6
PROPERTIES StartedOnce
CHECK_DEADLOCK FALSE

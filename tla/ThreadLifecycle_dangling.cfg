\* A Thread object is looked up while pthread_create fails.
SPECIFICATION Spec
CONSTANTS
  l = l  m = m  n1 = n1  o1 = o1
  Threads = {m, l, n1}
  NoThread = NoThread
  Objects = {o1}
  NoObject = NoObject
  Main = m
  Collectors = {l}
  Compilers = {}
  Natives = {}
  Internals = {}
  Starters = {m}
  Lookers = {l}
  DaemonChoices = {TRUE, FALSE}
  StartTwice = FALSE
  SpawnMayFail = TRUE
  AttachMayFail = FALSE
  Uncaught = FALSE
  Destroys = FALSE
  kMaxThreadId = 6
INVARIANTS NoDanglingThread
CHECK_DEADLOCK FALSE

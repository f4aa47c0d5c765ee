\* DestroyJavaVM while a daemon thread attaches itself.
SPECIFICATION Spec
CONSTANTS
  a = a  m = m
  Threads = {m, a}
  NoThread = NoThread
  Objects = {}
  NoObject = NoObject
  Main = m
  Collectors = {}
  Compilers = {}
  Natives = {a}
  Internals = {}
  Starters = {}
  Lookers = {}
  DaemonChoices = {TRUE, FALSE}
  StartTwice = FALSE
  SpawnMayFail = FALSE
  AttachMayFail = FALSE
  Uncaught = FALSE
  Destroys = TRUE
  kMaxThreadId = 6
INVARIANTS ExitNotLost
CHECK_DEADLOCK FALSE

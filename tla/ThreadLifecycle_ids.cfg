\* A thread that fails to attach itself.
SPECIFICATION Spec
CONSTANTS
  a = a  m = m
  Threads = {m, a}
  NoThread = NoThread
  Objects = {}
  NoObject = NoObject
  Main = m
  Collectors = {}
  Compilers = {}
  Natives = {a}
  Internals = {}
  Starters = {}
  Lookers = {}
  DaemonChoices = {TRUE, FALSE}
  StartTwice = FALSE
  SpawnMayFail = FALSE
  AttachMayFail = TRUE
  Uncaught = FALSE
  Destroys = FALSE
  kMaxThreadId = 6
INVARIANTS IdsBalanced
CHECK_DEADLOCK FALSE

\* A thread that attaches itself while the JIT compiler stops the world.
SPECIFICATION Spec
CONSTANTS
  a = a  c = c  m = m
  Threads = {m, c, a}
  NoThread = NoThread
  Objects = {}
  NoObject = NoObject
  Main = m
  Collectors = {}
  Compilers = {c}
  Natives = {a}
  Internals = {}
  Starters = {}
  Lookers = {}
  DaemonChoices = {TRUE, FALSE}
  StartTwice = FALSE
  SpawnMayFail = FALSE
  AttachMayFail = FALSE
  Uncaught = FALSE
  Destroys = FALSE
  kMaxThreadId = 6
PROPERTIES NobodySlipsPast
CHECK_DEADLOCK FALSE

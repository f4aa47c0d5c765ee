\* Double starts, failing starts, uncaught exceptions and an internal thread, with a JIT compiler.
SPECIFICATION Spec
CONSTANTS
  m = m  n1 = n1  n2 = n2  o1 = o1  c = c  i = i
  Threads = {m, c, n1, n2, i}
  NoThread = NoThread
  Objects = {o1}
  NoObject = NoObject
  Main = m
  Collectors = {}
  Compilers = {c}
  Natives = {}
  Internals = {i}
  Starters = {m}
  Lookers = {}
  DaemonChoices = {FALSE}
  StartTwice = TRUE
  SpawnMayFail = TRUE
  AttachMayFail = FALSE
  Uncaught = TRUE
  Destroys = TRUE
  kMaxThreadId = 6
INVARIANTS ExitNotLost IdsBalanced
CHECK_DEADLOCK FALSE

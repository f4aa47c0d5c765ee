\* A thread is started while another attaches itself and a third collects garbage.
SPECIFICATION Spec
CONSTANTS
  a = a  g = g  m = m  n1 = n1  o1 = o1 
  Threads = {m, g, n1, a}
  NoThread = NoThread
  Objects = {o1}
  NoObject = NoObject
  Main = m
  Collectors = {g}
  Compilers = {}
  Natives = {a}
  Internals = {}
  Starters = {m}
  Lookers = {m}
  DaemonChoices = {TRUE, FALSE}
  StartTwice = FALSE
  SpawnMayFail = FALSE
  AttachMayFail = TRUE
  Uncaught = FALSE
  Destroys = FALSE
  kMaxThreadId = 5
INVARIANTS RunnersListed NoDanglingThread CountIsExact
PROPERTIES NobodySlipsPast
CHECK_DEADLOCK FALSE

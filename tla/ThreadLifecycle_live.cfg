\* A started thread and an internal one that may fail to attach, with a GC.
SPECIFICATION LiveSpec
CONSTANTS
  g = g  i = i  m = m  n1 = n1  o1 = o1
  Threads = {m, g, n1, i}
  NoThread = NoThread
  Objects = {o1}
  NoObject = NoObject
  Main = m
  Collectors = {g}
  Compilers = {}
  Natives = {}
  Internals = {i}
  Starters = {m}
  Lookers = {}
  DaemonChoices = {FALSE}
  StartTwice = FALSE
  SpawnMayFail = FALSE
  AttachMayFail = TRUE
  Uncaught = FALSE
  Destroys = FALSE
  kMaxThreadId = 6
  MaxStarts = 3
PROPERTIES HandshakeEnds StopsEnd
CHECK_DEADLOCK FALSE

\* Two threads that collect, trace and use the thread list, and a JIT compiler.
SPECIFICATION LiveSpec
CONSTANTS
  Threads = {t1, t2, c}
  NoThread = NoThread
  Jdwp = NoThread
  Collectors = {t1, t2}
  Compilers = {c}
  ListLockers = {t2}
  Tracers = {t1, t2}
  EventPolicies = {}
  DebuggerCalls = {}
  MaxDebug = 1
  MaxStarts = 1
PROPERTIES SuspendersFinish SuspendedResume SuspendsWhenTold
CHECK_DEADLOCK FALSE

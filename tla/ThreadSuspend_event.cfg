\* A thread posts a suspend-all event while another collects garbage.
SPECIFICATION Spec
CONSTANTS
  Threads = {t1, t2, j}
  NoThread = NoThread
  Jdwp = j
  Collectors = {t1,t2}
  Compilers = {}
  ListLockers = {}
  Tracers = {}
  EventPolicies = {"all"}
  DebuggerCalls = {"resumeVM"}
  MaxDebug = 1
INVARIANTS GcNotHeldByDebugger
CHECK_DEADLOCK FALSE

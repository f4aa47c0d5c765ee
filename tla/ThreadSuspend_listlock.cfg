\* A running thread locks the thread list while another collects garbage.
SPECIFICATION Spec
CONSTANTS
  Threads = {t1, t2}
  NoThread = NoThread
  Jdwp = NoThread
  Collectors = {t1}
  Compilers = {}
  ListLockers = {t2}
  Tracers = {}
  EventPolicies = {}
  DebuggerCalls = {}
  MaxDebug = 1
INVARIANTS WorldStopped
CHECK_DEADLOCK FALSE

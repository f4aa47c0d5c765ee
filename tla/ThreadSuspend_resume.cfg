\* The debugger resumes single threads while others collect garbage.
SPECIFICATION Spec
CONSTANTS
  Threads = {t1, t2, j}
  NoThread = NoThread
  Jdwp = j
  Collectors = {t1,t2}
  Compilers = {}
  ListLockers = {}
  Tracers = {}
  EventPolicies = {}
  DebuggerCalls = {"resumeThread"}
  MaxDebug = 1
INVARIANTS DebuggerShareInCount
CHECK_DEADLOCK FALSE

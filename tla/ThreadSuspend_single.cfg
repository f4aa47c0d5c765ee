\* A debugger and getStackTrace suspend single threads; no collection.
SPECIFICATION Spec
CONSTANTS
  Threads = {t1, t2, j}
  NoThread = NoThread
  Jdwp = j
  Collectors = {}
  Compilers = {}
  ListLockers = {t1}
  Tracers = {t2}
  EventPolicies = {"all","thread"}
  DebuggerCalls = {"suspendVM", "resumeVM", "suspendThread", "resumeThread", "undo"}
  MaxDebug = 2
INVARIANTS HoldersAwake

\* Two collecting threads, a JIT compiler and a debugger that suspends and resumes the whole VM.
SPECIFICATION Spec
CONSTANTS
  Threads = {t1, t2, c, j}
  NoThread = NoThread
  Jdwp = j
  Collectors = {t1,t2}
  Compilers = {c}
  ListLockers = {}
  Tracers = {}
  EventPolicies = {"all","thread"}
  DebuggerCalls = {"suspendVM","resumeVM","undo"}
  MaxDebug = 1
INVARIANTS WorldStopped SuspendCountsAddUp ResumeNotLost DebuggerShareInCount
CHECK_DEADLOCK FALSE

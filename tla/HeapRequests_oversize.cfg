\* A counterexample: a request larger than the heap gives up without collecting soft references
SPECIFICATION Spec
CONSTANTS
  Mutators = {m1, m2}
  Daemon = daemon
  Jit = jit
  NoThread = noThread
  MaxRequests = 2
  MaxStops = 1
  MaxTimeouts = 1
  Interpreters = {i1, i2}
  TraceHeads = {p1, p2}
  QueueSize = 1
  CacheSize = 1
  MaxTraces = 2
  MaxEntries = 1
  MaxPauses = 1
  MaxUpsets = 1
  NoEntry = noEntry
  NoCode = noCode
  Template = template
  Nobody = nobody
  Objects = {o1, o2}
  Null = null
  Junk = junk
  InitialCount = 1
  MaxCount = 4
  Serials = 8
  MaxFrames = 2
  MaxAdds = 5
  Readers = {r1, r2}
  Classes = {c1, c2}
  NoClass = noClass
  Unread = unread
  MaxLookups = 2
INVARIANT SoftClearedAlways
CHECK_DEADLOCK FALSE

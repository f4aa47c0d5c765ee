\* Counterexample: the class that won the race has failed to link by the time it is looked up.
SPECIFICATION Spec
CONSTANTS
  A = A
  B = B
  Names = {A, B}
  NoName = NoName
  Threads = {t1, t2}
  Programs <- SmallPrograms
  MaxCalls = 1
  MaxMishaps = 1
  MaxObjects = 6
  MaxInterrupts = 1
INVARIANTS WinnerIsThere
CHECK_DEADLOCK FALSE

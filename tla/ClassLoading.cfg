\* Two threads use two classes, with two failures and one interrupt.
SPECIFICATION Spec
CONSTANTS
  A = A
  B = B
  Names = {A, B}
  NoName = NoName
  Threads = {t1, t2}
  Programs <- SmallPrograms
  MaxCalls = 1
  MaxMishaps = 2
  MaxObjects = 7
  MaxInterrupts = 1
INVARIANTS InitBeforeUse ClinitOnce
PROPERTIES UsesReturn
CHECK_DEADLOCK FALSE

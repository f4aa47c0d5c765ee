CONSTANTS
  N = 3
  WordBits = 2
  CardBits = 2
  Shapes <- SmallHeaps
SPECIFICATION Spec
INVARIANTS NoDangling GrayOnDirtyCards GarbageIsFreed
PROPERTIES ClearsUnreachable

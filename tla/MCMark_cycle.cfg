CONSTANTS
  a = a
  L = L
  Obj = {a, L}
  Root = Root
  Stack = Stack
  Null = Null
  Slot = {1, 2}
  Shapes <- MCShapes
  Freeable = {a}
  SegSize = 3
  BarrierSegSize = 1
  BarrierThreshold = 1
  MaxSegments = 3
SPECIFICATION Spec
INVARIANTS
  IInv
  NoDangling
  TriColour
  QueuedOnStack
  WorkValid
  GarbageInv
PROPERTIES
  GarbageCollected
  ImplementsAbs
  FinishTerminates

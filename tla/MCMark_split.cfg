CONSTANTS
  a = a
  L = L
  Obj = {a, L}
  Root = Root
  Stack = Stack
  Null = Null
  Slot = {1, 2}
  Shapes <- MCSplitShapes
  Freeable = {a, L}
  SegSize = 3
  BarrierSegSize = 1
  BarrierThreshold = 1
  MaxSegments = 3
SPECIFICATION SafetySpec
INVARIANTS
  SplitProtected
CHECK_DEADLOCK FALSE

CONSTANTS
  Obj = {o1, o2, o3}
  Null = Null
  BlockSize = 2
  MaxBlocks = 3
  StickyCount = 3
  MaxSticky = 1
  MaxRoots = 2
  Budget = 1
  AllocMayFail = TRUE
  Reads = "own"
  MayAbort = TRUE
SPECIFICATION Spec
SYMMETRY ObjSymmetry
CONSTRAINTS FewStuck FewSpare
CHECK_DEADLOCK FALSE
INVARIANTS
  IInv
  NoDangling
  RemoveFindsWhileRunning
  TableSound
  ZeroCountsOnly
  PinnedSurvive
  CountExact
PROPERTY
  ImplementsAbs

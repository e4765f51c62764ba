CONSTANTS
  Obj = {o1, o2, o3}
  Null = Null
  BlockSize = 2
  MaxBlocks = 2
  StickyCount = 3
  MaxSticky = 1
  MaxRoots = 3
  Budget = 1
  AllocMayFail = FALSE
  Reads = "own"
  MayAbort = FALSE
SPECIFICATION Spec
SYMMETRY ObjSymmetry
INVARIANTS
  IndexFits

CONSTANTS
  Block = {b1, b2, b3}
  N = 2
  p = p
  f = f
  Plain = {p}
  Finalizing = {f}
  Float = p
  Large = Large
  Instances <- OneAllocator
  None = None
  MaxHeld = 2
  MayClose = FALSE
  Cautious = FALSE
SPECIFICATION Spec
SYMMETRY BlockSymmetry
CHECK_DEADLOCK FALSE
INVARIANTS
  HeldSafe

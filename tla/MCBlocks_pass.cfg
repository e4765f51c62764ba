CONSTANTS
  Block = {b1, b2, b3}
  N = 2
  p = p
  f = f
  Plain = {p}
  Finalizing = {f}
  Float = p
  Large = Large
  Instances <- MCInstances
  None = None
  MaxHeld = 2
  MayClose = TRUE
  Cautious = TRUE
SPECIFICATION Spec
SYMMETRY BlockSymmetry
CHECK_DEADLOCK FALSE
INVARIANTS
  IInv
  HeldSafe
  PlacesExact
  BudgetExact
  MarksClean
  FinalizedOnce
PROPERTIES
  Reclaimed

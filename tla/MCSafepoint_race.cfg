CONSTANTS
  Thread = {t1, t2, t3}
  Manager = {m1}
  Lock = {}
  NoThread = NoThread
  NoManager = NoManager
  NoLock = NoLock
  MaxDepth = 2
SPECIFICATION Spec
SYMMETRY Symmetry
INVARIANTS IInv MutatorsStopped SafeRegionsKnown
PROPERTIES MembershipFrozen ImplementsAbs

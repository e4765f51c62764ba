CONSTANTS
  Native = native
  NoThread = NoThread
  Client = {c1, c2, c3}
SPECIFICATION FairSpec
INVARIANTS IInv FreedAfterLastUse
PROPERTIES JoinReturnsAfterRun RunsWhenRunnable JoinsReturn
CHECK_DEADLOCK FALSE

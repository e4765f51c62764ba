CONSTANTS
  Native = native
  NoThread = NoThread
  Client = {c1, c2}
SPECIFICATION FairSpec
PROPERTY DestructorReturns
CHECK_DEADLOCK FALSE

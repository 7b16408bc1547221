SPECIFICATION FairSpec
CONSTANTS
  NCpu = 2
  NTasks = 5
INVARIANTS OneStackEach ResumesWhereLeft OnePrints
PROPERTY LockReleased

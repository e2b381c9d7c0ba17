CONSTANTS
  MaxTasks = 2
  MaxTimers = 1
  MaxList = 2
  Kinds <- EveryKind
SPECIFICATION FairSpec
INVARIANTS Consistent
PROPERTIES StartsInOrder OwnTasksNeverDeadlock BlockIsAllOrNothing KeepsPromises ActivitiesEnd

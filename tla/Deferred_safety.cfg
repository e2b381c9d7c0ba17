CONSTANTS
  MaxHandles = 3
  MaxList = 2
  Kinds <- Everything
SPECIFICATION Spec
INVARIANTS Consistent
PROPERTIES CooperativeStaysHome BlockIsAllOrNothing OwnTasksNeverDeadlock IsOneShot

CONSTANTS
  MaxVersion = 2
  MaxCommands = 3
  MaxRunning = 2
  MaxFaults = 1
CHECK_DEADLOCK FALSE
SPECIFICATION Spec
INVARIANTS Consistent
PROPERTIES CommandsRepair RemovalIsSafe

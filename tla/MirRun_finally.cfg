CONSTANTS
  Programs <- ThePrograms
SPECIFICATION Spec
INVARIANTS FinallyRuns

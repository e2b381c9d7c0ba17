CONSTANTS
  Programs <- ThePrograms
SPECIFICATION Spec
INVARIANTS RunsAsWritten

CONSTANTS
  Threads = {t1, t2}
  Cells <- TwoCells
  NoThread = NoThread
  MaxAccesses = 4
SPECIFICATION FairCellsSpec
INVARIANTS CellsConsistent NoLostUpdate
PROPERTIES AccessesEnd
CHECK_DEADLOCK FALSE

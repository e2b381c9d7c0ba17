CONSTANTS
  Module <- File
  Entry <- TheEntry
  Name <- TheNames
  Programs <- ThePrograms
CHECK_DEADLOCK FALSE
SPECIFICATION FairSpec
INVARIANTS WalkIsRight VisibleIsLeast ContractsAreThere
PROPERTIES Ends

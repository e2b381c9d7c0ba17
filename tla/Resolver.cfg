CONSTANTS
  Package <- P
  Version <- V
  Feature <- TheFeatures
  Registries <- TheRegistries
  Roots <- TheRoots
  Locks <- TheLocks
  MaxDecisions = 40
CHECK_DEADLOCK FALSE
SPECIFICATION FairSpec
INVARIANTS BranchIsSound NoneIsNone AnswerIsPreferred
PROPERTIES Ends

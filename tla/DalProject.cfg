CONSTANTS
  Proc = {p1, p2}
  NoProc = NoProc
  Pkg = {1, 2, 3}
  Ver = {1, 2}
  Requires <- MCRequires
  HasCli = {1}
  NoManifest = NoManifest
  UserManifests <- Handwritten
  Requests <- MCRequests
  MaxOps = 3
  MaxFaults = 2
SPECIFICATION FairSpec
INVARIANTS Consistent PairsAgree
PROPERTIES NoHalfCommit AddRepairs StoreRefined Ends
CHECK_DEADLOCK FALSE

CONSTANTS
  a = a
  b = b
  c = c
  Docs <- MCDocs
  Layouts <- MCLayouts
  MaxActs = 4
  Concurrency = 2
CHECK_DEADLOCK FALSE
SPECIFICATION MCSpec
INVARIANTS Consistent DiagnosticsAreCurrent
PROPERTIES NeverGoesBack Settles

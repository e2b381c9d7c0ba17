CONSTANTS
  Fn = {"main", "leaf", "ready"}
  Compilable = {"leaf", "ready"}
  Precompiled = {"ready"}
  Thresholds = {0, 2}
  Thread = {0, 1, 2}
  Main = 0
  Value = {0, 1}
  MaxDepth = 3
  MaxOps = 4
  Placeholder = Placeholder
  None = None
SPECIFICATION FairSpec
INVARIANTS Consistent
PROPERTIES FirstErrorIsRaised ActsAsInterpreter Ends

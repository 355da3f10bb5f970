CONSTANTS
  Graphs <- NestedNameGraphs
  Unknown = "UnknownSchema!"
  Within <- MCWithin
  Weight <- MCWeight

SPECIFICATION Spec

INVARIANTS
  CutOnlyRecursive

CHECK_DEADLOCK FALSE

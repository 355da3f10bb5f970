CONSTANTS
  Graphs <- MCGraphs
  Unknown = "UnknownSchema!"
  Within <- MCWithin
  Weight <- MCWeight

SPECIFICATION Spec

INVARIANTS
  CutOnlyRecursive
  UnionSetsOneMember

CHECK_DEADLOCK FALSE

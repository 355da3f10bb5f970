CONSTANTS
  c1 = c1
  c2 = c2
  HttpLabel = HttpLabel
  Cases <- MCCases
  Bases <- MCBases
  MaxSuffix = 2
  CtorName <- MCCtorName
  Modes = {"write", "compare"}
  NeedsEndpoint = {c1}
  RejectsMockEndpoint = {}
  FailsBeforeHandler = {c2}
  MaxRetryDepth = 3

SPECIFICATION Spec

INVARIANTS
  SnapshotFaithful
  RunCertifiesSnapshots

PROPERTIES
  SnapshotWritesOwned
  
  ImplementsAtomicCases

CHECK_DEADLOCK FALSE

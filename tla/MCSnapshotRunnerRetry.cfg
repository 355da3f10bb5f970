CONSTANTS
  c1 = c1
  c2 = c2
  HttpLabel = HttpLabel
  Cases <- MCCases
  Bases <- MCBases
  MaxSuffix = 2
  CtorName <- MCCtorName
  Modes = {"write", "compare"}
  NeedsEndpoint = {c1}
  RejectsMockEndpoint = {c1}
  FailsBeforeHandler = {c2}
  MaxRetryDepth = 3

SPECIFICATION Spec


PROPERTIES
  EveryCaseCompletes

CHECK_DEADLOCK FALSE

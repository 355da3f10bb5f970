CONSTANTS
  Docs <- MCDocs
  WellFormed <- MCWellFormed
SPECIFICATION Spec
INVARIANTS
  NeverThrows
  ClosingTagsAtDepth
CHECK_DEADLOCK FALSE

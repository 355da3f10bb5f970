CONSTANTS
  Docs <- MCDocs
  WellFormed <- MCWellFormed
SPECIFICATION Spec
INVARIANTS
  OpeningTagsAtDepth
CHECK_DEADLOCK FALSE

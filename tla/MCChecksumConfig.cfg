CONSTANTS
  R1 = R1
  Sha256Custom = Sha256Custom
  NoCtor = NoCtor
  Known <- MCKnown
  AlgOrder <- MCAlgOrder
  Upper <- MCUpper
  CustomIds = {"r1"}
  Ctors <- MCCtors
  Undefined = NoCtor
  InitialRecordKeys = {"md5", "sha256", "r1"}
  ExtensionIds = {"md5", "sha256", "r1"}
  MaxList = 5

SPECIFICATION Spec

INVARIANTS
  KnownAlgorithmConsistent

CHECK_DEADLOCK FALSE

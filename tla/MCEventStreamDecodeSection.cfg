CONSTANTS
  Inputs <- MCCorruptedInputs
  ChunkSigName <- MCChunkSigName
  Expected <- MCExpected
  Frames <- MCFrames
  MaxFrames = 4

SPECIFICATION Spec

INVARIANTS
  HeadersWithinSection


CHECK_DEADLOCK FALSE

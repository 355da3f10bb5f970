CONSTANTS
  Bodies <- MCBodies
  ChunkSigName <- MCChunkSig
  Expected <- MCExpected
  Frames <- MCFrames
  MaxFrames = 4

SPECIFICATION Spec

INVARIANTS
  TextChunksSerialize

CHECK_DEADLOCK FALSE

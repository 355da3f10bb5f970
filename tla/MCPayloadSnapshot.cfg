CONSTANTS
  Bodies <- MCBodies
  ChunkSigName <- MCChunkSig
  Expected <- MCExpected
  Frames <- MCFrames
  MaxFrames = 4

SPECIFICATION Spec

INVARIANTS
  SnapshotShowsChunks
  EncodedStreamsResolve

CHECK_DEADLOCK FALSE

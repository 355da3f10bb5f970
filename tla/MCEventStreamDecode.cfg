CONSTANTS
  Inputs <- MCCorruptedInputs
  ChunkSigName <- MCChunkSigName
  Expected <- MCExpected
  Frames <- MCFrames
  MaxFrames = 4

SPECIFICATION Spec

INVARIANTS
  DecodeRoundTrip

PROPERTIES
  HeaderStepsInSection
  DecodeTerminates

CHECK_DEADLOCK FALSE

\* Eight bytes that do not parse, followed by well-formed frames.
CONSTANTS
  BYTE <- MCByte
  FRAME_END_BYTE <- MCFrameEnd
  PROTOCOL_HEADER <- MCProtocolHeader
  Inputs <- GarbageInputs
  MAX_CHUNK <- MCMaxChunk
  STUCK_THRESHOLD <- MCStuckThreshold
  MAX_ALLOC_FAILURES = 0
  MAX_FAIL_CALL = 0

SPECIFICATION Spec


\* The peer's stream is finite: once delivered, the stream waits for data.
CHECK_DEADLOCK FALSE
INVARIANT AllFramesExtracted

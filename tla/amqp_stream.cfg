\* Well-formed AMQP byte streams, every chunking: the extractor emits the
\* peer's frames in order and misses none.
CONSTANTS
  BYTE <- MCByte
  FRAME_END_BYTE <- MCFrameEnd
  PROTOCOL_HEADER <- MCProtocolHeader
  Inputs <- WellFormedInputs
  MAX_CHUNK <- MCMaxChunk
  STUCK_THRESHOLD <- MCStuckThreshold
  MAX_ALLOC_FAILURES = 1
  MAX_FAIL_CALL = 2

SPECIFICATION Spec

INVARIANT TypeOK
INVARIANT AllFramesExtracted
PROPERTY QueueSpec
PROPERTY NothingLeftBehind

\* The peer's stream is finite: once delivered, the stream waits for data.
CHECK_DEADLOCK FALSE

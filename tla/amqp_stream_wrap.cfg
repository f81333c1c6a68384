\* A body frame whose payload_size makes the uint32 "8 + payload_size" wrap.
CONSTANTS
  BYTE <- MCByte
  FRAME_END_BYTE <- MCFrameEnd
  PROTOCOL_HEADER <- MCProtocolHeader
  Inputs <- WrappedInputs
  MAX_CHUNK <- MCMaxChunk
  STUCK_THRESHOLD <- MCStuckThreshold
  MAX_ALLOC_FAILURES = 0
  MAX_FAIL_CALL = 0

SPECIFICATION Spec


\* The peer's stream is finite: once delivered, the stream waits for data.
CHECK_DEADLOCK FALSE
INVARIANT ConsumedIsEncodedLength

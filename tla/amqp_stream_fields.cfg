\* A Basic.Publish whose exchange and routing-key short strings the parser
\* must report as the peer wrote them.
CONSTANTS
  BYTE <- MCByte
  FRAME_END_BYTE <- MCFrameEnd
  PROTOCOL_HEADER <- MCProtocolHeader
  Inputs <- FieldInputs
  MAX_CHUNK <- MCMaxChunk
  STUCK_THRESHOLD <- MCStuckThreshold
  MAX_ALLOC_FAILURES = 0
  MAX_FAIL_CALL = 0

SPECIFICATION Spec


\* The peer's stream is finite: once delivered, the stream waits for data.
CHECK_DEADLOCK FALSE
INVARIANT StringFieldsAsWritten

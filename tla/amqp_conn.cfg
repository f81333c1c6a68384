\* One AMQP connection: peers, tracker classification, matcher passes.
CONSTANTS
  BYTE <- MCByte
  FRAME_END_BYTE <- MCFrameEnd
  PROTOCOL_HEADER <- MCProtocolHeader
  Endpoint <- MCEndpoint
  Channels <- MCChannels
  Exchanges <- MCExchanges
  MAX_FRAMES <- MCMaxFrames
  RECORD_BUF_SIZE <- MCRecordBufSize
  MAX_RECORD_ALLOC_FAILURES = 1
  NULL = NULL
SPECIFICATION Spec
INVARIANT TypeOK NoFrameInTwoRecords RecordsInRequestOrder RecordBufferKeepsEarliest
\* The peers write at most MAX_FRAMES frames: a finished behaviour stops.
CHECK_DEADLOCK FALSE

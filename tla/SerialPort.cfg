SPECIFICATION PortSpec
CONSTANTS
  Stream <- MCStream
  Documents <- MCDocuments
  Payload <- MCPayload
  BufSize = 5
  RawSizes = {1, 2}
  DrainSize = 19
  ACK_TIMEOUT_COUNT = 2
  Bytes <- MCBytes
  Masked <- MCMasked
  Requests <- MCRequests
  Answers <- MCAnswers
  Rooms = {5, 8}
  MAX_PACKET_SIZE = 8
  MaxExchanges = 2
INVARIANTS NoByteLost Assembled StatusEndsDocument RequestReadable AnswerWhole
PROPERTIES StatusReturns SyncReturns
CHECK_DEADLOCK FALSE

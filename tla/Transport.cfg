SPECIFICATION Spec
CONSTANTS
  RequestLength = 2
  HeaderLength = 3
  BodyLength = 2
  ReadMax = 2
  ChunkSize = 3
  ConnectTimeouts <- SomeTimeouts
  SocketTimeouts <- SomeTimeouts
  DefaultTimeout = 5000
  Ssl = {FALSE, TRUE}
  MaxRequests = 3
  MaxConnects = 2
INVARIANTS AnswerIsMine TimeoutRestored
PROPERTY CallEnds
CHECK_DEADLOCK FALSE

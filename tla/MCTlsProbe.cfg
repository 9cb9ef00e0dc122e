CONSTANTS
  Task <- MCTask
  Boot <- MCBoot
  MaxTime = 2
  MaxCtx = 0
  U32Size = 4
  NoCtx = NoCtx
  Tuple <- MCTuple
  U32Max = 3
  U64Max = 1
  Sock = {1, 2}
  NoSock = NoSock
  NoRow = NoRow
  NoKey = NoKey
  MaxFlows = 1
  MaxThreads = 1
  MaxRecving = 0
  RingCap = 1
  SendSize = {}
  RecvSize = {}
  Errno = {}
  MaxBytes = 0
  MaxMisread = 0
  Text <- MCText
  Written = {"hello", "request"}
  Received = {"response"}
  MaxArgs = 1
  MaxNest = 2
  NoArgs = NoArgs
CONSTRAINTS
  TupleBound
  NoReset
  OneBufferEach
  Callers
SPECIFICATION TlsSpec
INVARIANTS
  TlsTypeOK
  ArgsOfThisCall
  ArgsLeakOnlyWhenKilled
  TlsDataIsOwn
  TlsReadyInLife
CHECK_DEADLOCK FALSE

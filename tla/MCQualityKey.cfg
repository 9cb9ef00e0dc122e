CONSTANTS
  Task <- MCTask
  Boot <- MCTask
  MaxTime = 1
  MaxCtx = 1
  U32Size = 4
  NoCtx = NoCtx
  Tuple <- MCTuple
  U32Max = 3
  U64Max = 1
  Sock = {s1, s2}
  NoSock = NoSock
  NoRow = NoRow
  NoKey = NoKey
  MaxFlows = 1
  MaxThreads = 1
  MaxRecving = 0
  RingCap = 1
  SendSize = {}
  RecvSize = {}
  Errno = {}
  MaxBytes = 0
  MaxMisread = 0
  Sample <- MCSample
  Flight = {}
  MaxRetransmits = 0
  NoSample = NoSample
CONSTRAINT ProbesBound
SYMMETRY SockSymmetry
SPECIFICATION RetransmitSpec
INVARIANT EveryAckUpdates
CHECK_DEADLOCK FALSE

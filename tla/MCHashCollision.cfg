CONSTANTS
  Task <- MCBoot
  Boot <- MCBoot
  MaxTime = 2
  MaxCtx = 1
  U32Size = 4
  NoCtx = NoCtx
  Tuple <- MCTuple
  U32Max = 3
  U64Max = 1
  Sock = {s1, s2}
  NoSock = NoSock
  NoRow = NoRow
  NoKey = NoKey
  MaxFlows = 1
  MaxThreads = 1
  MaxRecving = 1
  RingCap = 1
  SendSize = {2}
  RecvSize = {2}
  Errno = {}
  MaxBytes = 2
  MaxMisread = 0
CONSTRAINT TupleBound
SYMMETRY SockSymmetry
SPECIFICATION LifecycleSpec
INVARIANT EventIsOwn
CHECK_DEADLOCK FALSE

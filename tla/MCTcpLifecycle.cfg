CONSTANTS
  Task <- MCTask
  Boot <- MCBoot
  MaxTime = 2
  MaxCtx = 1
  U32Size = 2
  NoCtx = NoCtx
  Tuple <- MCTuple
  U32Max = 1
  U64Max = 1
  Sock = {s1, s2}
  NoSock = NoSock
  NoRow = NoRow
  NoKey = NoKey
  MaxFlows = 1
  MaxThreads = 1
  MaxRecving = 1
  RingCap = 1
  SendSize = {1}
  RecvSize = {2}
  Errno = {1}
  MaxBytes = 2
  MaxMisread = 1
CONSTRAINTS
  TupleBound
  NoReset
  FinishBound
  ThreadsOrFlows
SYMMETRY SockSymmetry
SPECIFICATION LifecycleSpec
INVARIANTS
  LifecycleTypeOK
  RightOrAbsent
  ProcessInherits
  OrphansNameThreads
  RowsOfOpenConnections
  SentExact
  RecvNeverOvercounted
  RecvCreditsOwnSocket
  WrongRowsExplained
  EventTimesOrdered
PROPERTIES
  ContextStable
  RowMonotone
  ImplementsFlowReport
CHECK_DEADLOCK FALSE

CONSTANTS
  Flow <- MCFlow
  RingCap = 2
  MinDurationMs = 2
  Ports <- MCPorts
  RetransmitsOnly = TRUE
  SampleRate = 2
  NsPerMs = 10
  MaxPresses = 2
SPECIFICATION LoopSpec
PROPERTY CtrlCStops
CHECK_DEADLOCK FALSE

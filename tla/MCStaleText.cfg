CONSTANTS
  ScratchLen = 37
  TextLen = 37
  RandomLen = 1
  MaxSession = 1
  MaxCiphers = 2
  MaxCompression = 1
  MaxExtTotal = 18
  MaxExtLen = 7
  MaxExts = 2
  HostScan = 21
  Written <- MCTwoRequests
  Received = {}
  MaxCalls = 2
SPECIFICATION ParseSpec
INVARIANT ShowsTheLast
CHECK_DEADLOCK FALSE

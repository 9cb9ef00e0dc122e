CONSTANTS
  P1 = P1
  P2 = P2
  Gone = Gone
  Process = {P1, P2}
  PidOf <- MCPidOf
  WideCommand = {P2}
  WideCgroup = {P2}
  Output = "pretty"
  Environment <- MCSystems
  Flow <- MCFlow
  RingCap = 2
  MinDurationMs = 2
  Ports <- MCPorts
  RetransmitsOnly = TRUE
  SampleRate = 2
  NsPerMs = 10
  MaxPresses = 1
  MaxFlows = 3
SPECIFICATION SensorSpec
INVARIANTS
  SensorTypeOK
  PrintedIsFiltered
  EndsForAReason
  ProcessDataIsOwn
  RunsWithKprobesOnly
PROPERTIES
  ImplementsEventLoop
  EventsAreReceived
CHECK_DEADLOCK FALSE

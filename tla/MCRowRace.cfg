CONSTANTS
  Cpu = {c1, c2}
  Sock = {out, in, late}
  Accepted = {in}
  Node = {n1, n2}
  NoNode = NoNode
  Idle = Idle
  Rtt = {1, 2}
  U32Max = 3
  MaxSends = 2
  MaxAcks = 2
CONSTRAINT TrafficBound
SYMMETRY Symmetry
SPECIFICATION RaceSpec
INVARIANTS
  RaceTypeOK
  SentUnlessRaced
  MinUnlessRaced
  EventUnlessRaced
  OnlyAcksOutliveRows
CHECK_DEADLOCK FALSE

--------------------------- MODULE RowRaceProofs ---------------------------
(***************************************************************************)
(* Proofs about RowRace: what the handlers of any number of CPUs leave in  *)
(* the rows of any number of connections, however their loads and stores   *)
(* interleave and however often nodes are given out again.                 *)
(***************************************************************************)
EXTENDS RowRace, FiniteSetTheorems, TLAPS

-----------------------------------------------------------------------------
(* The handlers.                                                           *)

\* Who runs when: an open, a send and a close while the connection is in the
\* state for it, an ACK from the first sample on.  A handler has a node from
\* its look-up on.
HandlerAt(c) ==
  /\ cpu[c].kind \in {"open", "send"} => sockState[cpu[c].sock] = "open"
  /\ cpu[c].kind = "close" => sockState[cpu[c].sock] = "closing"
  /\ cpu[c].kind = "ack" => sockState[cpu[c].sock] # "new" /\ samples[cpu[c].sock] # <<>>
  /\ cpu[c].node = NoNode <=> cpu[c].pc = "lookup"

\* Who runs beside whom: any number of sends, one of each other kind, and
\* beside a close no more than an ACK.  Whoever runs beside another has met it.
OverlapOf(c, d) ==
  /\ {cpu[c].kind, cpu[d].kind} \in met[cpu[c].sock]
  /\ cpu[c].kind = cpu[d].kind => cpu[c].kind = "send"
  /\ cpu[c].kind = "close" => cpu[d].kind = "ack"

\* A pointer leads to the row of the handler's connection as long as that has
\* one.  If it leads to the row of another one, the handler had the node
\* before it was given to that one.
PointerAt(c) ==
  /\ table[cpu[c].sock] \in {cpu[c].node, NoNode}
  /\ \A s \in Sock : table[s] = cpu[c].node =>
       s = cpu[c].sock \/ <<cpu[c].kind, cpu[c].sock>> \in recycled[cpu[c].node]

HandlerInv == \A c \in Busy : HandlerAt(c)
OverlapInv == \A c, d \in Busy : (c # d /\ cpu[c].sock = cpu[d].sock) => OverlapOf(c, d)
PointerInv == \A c \in Busy : cpu[c].node # NoNode => PointerAt(c)

\* A connection that is not open yet has no row and no traffic; one that is
\* has its row unless that was evicted.
StateInv ==
  \A s \in Sock :
    /\ sockState[s] = "new" => table[s] = NoNode /\ asked[s] = 0 /\ samples[s] = <<>>
    /\ (sockState[s] \in {"open", "closing"} /\ table[s] = NoNode) => s \in evicted

StructInv ==
  /\ RaceTypeOK
  /\ HandlerInv
  /\ OverlapInv
  /\ StateInv
  /\ PointerInv
  /\ OnlyAcksOutliveRows

\* The fields of a handler.
LEMMA BusyFacts ==
  ASSUME RaceTypeOK, NEW c \in Busy
  PROVE  /\ c \in Cpu /\ cpu[c] \in Handler /\ cpu[c] # Idle
         /\ cpu[c].kind \in Kind /\ cpu[c].sock \in Sock
         /\ cpu[c].node \in Node \cup {NoNode} /\ cpu[c].row \in Row
         /\ cpu[c].pc \in PcOf[cpu[c].kind]
  BY RaceAssumption DEF RaceTypeOK, Busy, Handler

LEMMA RowFacts ==
  /\ DOMAIN Empty = {"bytes_sent", "srtt_us_min", "srtt_us_last"}
  /\ Row = [{"bytes_sent", "srtt_us_min", "srtt_us_last"} -> Nat]
  /\ Empty \in Row
  /\ Empty.bytes_sent = 0 /\ Empty.srtt_us_min = U32Max /\ Empty.srtt_us_last = 0
  BY RaceAssumption DEF Empty, Row

-----------------------------------------------------------------------------
(* What a step does to the CPUs.                                           *)

Others(c) == \A d \in Cpu : d # c => cpu'[d] = cpu[d]

LEMMA EnterEffect ==
  ASSUME RaceTypeOK, NEW c \in Cpu, NEW s \in Sock, NEW kind \in Kind, NEW pc \in PcOf[kind],
         NEW n \in Node \cup {NoNode}, Enter(c, kind, s, n, pc)
  PROVE  /\ cpu'[c] = [kind |-> kind, sock |-> s, node |-> n, pc |-> pc, row |-> Empty]
         /\ cpu'[c] \in Handler /\ Others(c)
         /\ cpu' \in [Cpu -> Handler \cup {Idle}]
         /\ Busy' = Busy \cup {c}
         /\ \A d \in Busy' : cpu'[d].pc \in PcOf[cpu'[d].kind]
         /\ met' \in [Sock -> SUBSET SUBSET Kind]
         /\ \A o \in Sock : met[o] \subseteq met'[o]
         /\ \A d \in Busy : cpu[d].sock = s => {kind, cpu[d].kind} \in met'[s]
<1>1. cpu' = [cpu EXCEPT ![c] = [kind |-> kind, sock |-> s, node |-> n, pc |-> pc, row |-> Empty]]
  BY DEF Enter
<1>2. [kind |-> kind, sock |-> s, node |-> n, pc |-> pc, row |-> Empty] \in Handler
  BY RowFacts DEF Handler
<1>3. /\ cpu'[c] = [kind |-> kind, sock |-> s, node |-> n, pc |-> pc, row |-> Empty]
      /\ Others(c) /\ cpu' \in [Cpu -> Handler \cup {Idle}]
  BY <1>1, <1>2 DEF RaceTypeOK, Others
<1>4. Busy' = Busy \cup {c}
  BY <1>2, <1>3, RaceAssumption DEF Busy, Others
<1>5. \A d \in Busy' : cpu'[d].pc \in PcOf[cpu'[d].kind]
  BY <1>3, <1>4 DEF RaceTypeOK, Others, Busy
<1>6. /\ \A o \in Sock : met[o] \subseteq met'[o]
      /\ \A d \in Busy : cpu[d].sock = s => {kind, cpu[d].kind} \in met'[s]
  BY DEF Enter, RunningOn, RaceTypeOK
<1>7. met' \in [Sock -> SUBSET SUBSET Kind]
  <2>1. RunningOn(s) \subseteq Kind
    BY BusyFacts DEF RunningOn
  <2>2. {{kind, other} : other \in RunningOn(s)} \subseteq SUBSET Kind
    BY <2>1
  <2> QED BY <2>2 DEF Enter, RaceTypeOK
<1> QED BY <1>2, <1>3, <1>4, <1>5, <1>6, <1>7

LEMMA LeaveEffect ==
  ASSUME RaceTypeOK, NEW c \in Busy, Leave(c)
  PROVE  /\ cpu'[c] = Idle /\ Others(c)
         /\ cpu' \in [Cpu -> Handler \cup {Idle}]
         /\ Busy' = Busy \ {c}
         /\ \A d \in Busy' : cpu'[d].pc \in PcOf[cpu'[d].kind]
<1>1. c \in Cpu
  BY BusyFacts
<1>2. cpu'[c] = Idle /\ Others(c) /\ cpu' \in [Cpu -> Handler \cup {Idle}]
  BY <1>1 DEF Leave, RaceTypeOK, Others
<1>3. Busy' = Busy \ {c}
  BY <1>2 DEF Busy, Others
<1> QED BY <1>2, <1>3 DEF RaceTypeOK, Others, Busy

\* A handler goes on: it keeps its kind and its connection.
Moves(c, n, pc) ==
  /\ cpu'[c].kind = cpu[c].kind /\ cpu'[c].sock = cpu[c].sock
  /\ cpu'[c].node = n /\ cpu'[c].pc = pc

LEMMA MoveEffect ==
  ASSUME RaceTypeOK, NEW c \in Busy, NEW h \in Handler, h.kind = cpu[c].kind,
         h.sock = cpu[c].sock, h.pc \in PcOf[h.kind], cpu' = [cpu EXCEPT ![c] = h]
  PROVE  /\ Moves(c, h.node, h.pc) /\ cpu'[c] = h /\ Others(c)
         /\ cpu' \in [Cpu -> Handler \cup {Idle}]
         /\ Busy' = Busy
         /\ \A d \in Busy' : cpu'[d].pc \in PcOf[cpu'[d].kind]
<1>1. c \in Cpu
  BY BusyFacts
<1>2. cpu'[c] = h /\ Others(c) /\ cpu' \in [Cpu -> Handler \cup {Idle}]
  BY <1>1 DEF RaceTypeOK, Others
<1>3. Busy' = Busy
  BY <1>1, <1>2, RaceAssumption DEF Busy, Others
<1>4. Moves(c, h.node, h.pc)
  BY <1>2 DEF Moves
<1>5. \A d \in Busy' : cpu'[d].pc \in PcOf[cpu'[d].kind]
  BY <1>2, <1>3 DEF RaceTypeOK, Others, Busy
<1> QED BY <1>2, <1>3, <1>4, <1>5

LEMMA GotoEffect ==
  ASSUME RaceTypeOK, NEW c \in Busy, NEW pc \in PcOf[cpu[c].kind], Goto(c, pc)
  PROVE  /\ Moves(c, cpu[c].node, pc) /\ cpu'[c].row = cpu[c].row /\ Others(c)
         /\ cpu' \in [Cpu -> Handler \cup {Idle}]
         /\ Busy' = Busy
         /\ \A d \in Busy' : cpu'[d].pc \in PcOf[cpu'[d].kind]
<1> DEFINE h == [cpu[c] EXCEPT !.pc = pc]
<1>1. c \in Cpu /\ cpu[c] \in Handler
  BY BusyFacts
<1>2. cpu[c].kind \in Kind /\ pc \in UNION {PcOf[k] : k \in Kind}
  BY BusyFacts
<1>3. /\ h \in Handler /\ h.kind = cpu[c].kind /\ h.sock = cpu[c].sock
      /\ h.node = cpu[c].node /\ h.row = cpu[c].row /\ h.pc = pc
  BY <1>1, <1>2 DEF Handler
<1>4. cpu' = [cpu EXCEPT ![c] = h]
  BY <1>1 DEF Goto, RaceTypeOK
<1> HIDE DEF h
<1>5. h.pc \in PcOf[h.kind]
  BY <1>3
<1> QED BY <1>3, <1>4, <1>5, MoveEffect

LEMMA LoadEffect ==
  ASSUME RaceTypeOK, NEW c \in Busy, cpu[c].node # NoNode, NEW field \in DOMAIN Empty,
         NEW pc \in PcOf[cpu[c].kind], Load(c, field, pc)
  PROVE  /\ Moves(c, cpu[c].node, pc) /\ Others(c)
         /\ cpu'[c].row[field] = node[cpu[c].node][field]
         /\ \A f \in DOMAIN Empty : f # field => cpu'[c].row[f] = cpu[c].row[f]
         /\ cpu' \in [Cpu -> Handler \cup {Idle}]
         /\ Busy' = Busy
         /\ \A d \in Busy' : cpu'[d].pc \in PcOf[cpu'[d].kind]
<1> DEFINE row == [cpu[c].row EXCEPT ![field] = node[cpu[c].node][field]]
           h == [cpu[c] EXCEPT !.row = row, !.pc = pc]
<1>1. c \in Cpu /\ cpu[c] \in Handler /\ cpu[c].node \in Node /\ cpu[c].row \in Row
  BY BusyFacts
<1>2. cpu[c].kind \in Kind /\ pc \in UNION {PcOf[k] : k \in Kind}
  BY BusyFacts
<1>3. /\ row \in Row /\ row[field] = node[cpu[c].node][field]
      /\ \A f \in DOMAIN Empty : f # field => row[f] = cpu[c].row[f]
  BY <1>1, RowFacts DEF RaceTypeOK
<1>4. cpu' = [cpu EXCEPT ![c] = h]
  BY <1>1 DEF Load, RaceTypeOK, Handler
<1> HIDE DEF row
<1>5. /\ h \in Handler /\ h.kind = cpu[c].kind /\ h.sock = cpu[c].sock
      /\ h.node = cpu[c].node /\ h.row = row /\ h.pc = pc
  BY <1>1, <1>2, <1>3 DEF Handler
<1> HIDE DEF h
<1>6. h.pc \in PcOf[h.kind]
  BY <1>5
<1>7. /\ Moves(c, h.node, h.pc) /\ cpu'[c] = h /\ Others(c)
      /\ cpu' \in [Cpu -> Handler \cup {Idle}]
      /\ Busy' = Busy
      /\ \A d \in Busy' : cpu'[d].pc \in PcOf[cpu'[d].kind]
  BY <1>4, <1>5, <1>6, MoveEffect
<1> QED BY <1>3, <1>5, <1>7

LEMMA LookupEffect ==
  ASSUME RaceTypeOK, NEW c \in Busy, cpu[c].kind = "open", NEW n \in Node,
         cpu' = [cpu EXCEPT ![c].node = n, ![c].pc = "fill_sent"]
  PROVE  /\ Moves(c, n, "fill_sent") /\ Others(c)
         /\ cpu' \in [Cpu -> Handler \cup {Idle}]
         /\ Busy' = Busy
         /\ \A d \in Busy' : cpu'[d].pc \in PcOf[cpu'[d].kind]
<1> DEFINE h == [cpu[c] EXCEPT !.node = n, !.pc = "fill_sent"]
<1>1. c \in Cpu /\ cpu[c] \in Handler
  BY BusyFacts
<1>2. /\ "open" \in Kind /\ "fill_sent" \in PcOf["open"]
      /\ "fill_sent" \in UNION {PcOf[k] : k \in Kind}
  BY DEF PcOf, Kind
<1>3. /\ h \in Handler /\ h.kind = cpu[c].kind /\ h.sock = cpu[c].sock
      /\ h.node = n /\ h.pc = "fill_sent"
  BY <1>1, <1>2 DEF Handler
<1>4. cpu' = [cpu EXCEPT ![c] = h]
  BY <1>1 DEF RaceTypeOK, Handler
<1> HIDE DEF h
<1>5. h.pc \in PcOf[h.kind]
  BY <1>2, <1>3
<1>6. /\ Moves(c, h.node, h.pc) /\ Others(c)
      /\ cpu' \in [Cpu -> Handler \cup {Idle}]
      /\ Busy' = Busy
      /\ \A d \in Busy' : cpu'[d].pc \in PcOf[cpu'[d].kind]
  BY <1>3, <1>4, <1>5, MoveEffect
<1> QED BY <1>3, <1>6

LEMMA StoreEffect ==
  ASSUME RaceTypeOK, NEW c \in Busy, cpu[c].node # NoNode, NEW field \in DOMAIN Empty,
         NEW value \in Nat, Store(c, field, value)
  PROVE  /\ node' \in [Node -> Row]
         /\ node'[cpu[c].node][field] = value
         /\ \A f \in DOMAIN Empty : f # field => node'[cpu[c].node][f] = node[cpu[c].node][f]
         /\ \A n \in Node : n # cpu[c].node => node'[n] = node[n]
<1>1. cpu[c].node \in Node /\ node[cpu[c].node] \in Row
  BY BusyFacts DEF RaceTypeOK
<1>2. /\ [node[cpu[c].node] EXCEPT ![field] = value] \in Row
      /\ [node[cpu[c].node] EXCEPT ![field] = value][field] = value
      /\ \A f \in DOMAIN Empty : f # field =>
           [node[cpu[c].node] EXCEPT ![field] = value][f] = node[cpu[c].node][f]
  BY <1>1, RowFacts
<1>3. node' = [node EXCEPT ![cpu[c].node] = [node[cpu[c].node] EXCEPT ![field] = value]]
  BY <1>1 DEF Store, RaceTypeOK
<1> QED BY <1>1, <1>2, <1>3 DEF RaceTypeOK

-----------------------------------------------------------------------------
(* The structure: pointers, rows, and who runs beside whom.                *)

\* A handler that goes on with the pointer it has.
LEMMA MoveStruct ==
  ASSUME StructInv, NEW c \in Busy, NEW pc, Moves(c, cpu[c].node, pc), Others(c),
         cpu' \in [Cpu -> Handler \cup {Idle}], Busy' = Busy,
         \A d \in Busy' : cpu'[d].pc \in PcOf[cpu'[d].kind],
         cpu[c].pc # "lookup", pc # "lookup", node' \in [Node -> Row],
         UNCHANGED <<sockState, table, asked, samples, met, recycled, evicted>>
  PROVE  StructInv'
<1>1. RaceTypeOK'
  BY DEF StructInv, RaceTypeOK
<1>2. \A d \in Busy' : /\ d \in Busy /\ cpu'[d].kind = cpu[d].kind
                       /\ cpu'[d].sock = cpu[d].sock /\ cpu'[d].node = cpu[d].node
  BY DEF Moves, Others, Busy
<1>3. \A d \in Busy' : cpu'[d].pc = "lookup" <=> cpu[d].pc = "lookup"
  BY DEF Moves, Others, Busy
<1>4. HandlerInv'
  <2> SUFFICES ASSUME NEW d \in Busy'
               PROVE  HandlerAt(d)'
    BY DEF HandlerInv
  <2>1. HandlerAt(d)
    BY <1>2 DEF StructInv, HandlerInv, HandlerAt
  <2> QED BY <2>1, <1>2, <1>3 DEF HandlerAt
<1>5. OverlapInv'
  <2> SUFFICES ASSUME NEW d \in Busy', NEW e \in Busy', d # e, cpu'[d].sock = cpu'[e].sock
               PROVE  OverlapOf(d, e)'
    BY DEF OverlapInv
  <2>1. cpu[d].sock = cpu[e].sock
    BY <1>2
  <2>2. OverlapOf(d, e)
    BY <1>2, <2>1 DEF StructInv, OverlapInv, OverlapOf
  <2> QED BY <1>2, <2>2 DEF OverlapOf
<1>6. StateInv' /\ OnlyAcksOutliveRows'
  BY DEF StructInv, StateInv, OnlyAcksOutliveRows
<1>7. PointerInv'
  BY <1>2 DEF StructInv, PointerInv, PointerAt
<1> QED BY <1>1, <1>4, <1>5, <1>6, <1>7 DEF StructInv

\* A handler that ends.
LEMMA LeaveStruct ==
  ASSUME StructInv, NEW c \in Busy, Leave(c), node' \in [Node -> Row],
         UNCHANGED <<sockState, table, asked, samples, met, recycled, evicted>>
  PROVE  StructInv'
<1>1. /\ Others(c) /\ Busy' = Busy \ {c} /\ cpu' \in [Cpu -> Handler \cup {Idle}]
      /\ \A d \in Busy' : cpu'[d].pc \in PcOf[cpu'[d].kind]
  BY LeaveEffect DEF StructInv
<1>2. \A d \in Busy' : d \in Busy /\ cpu'[d] = cpu[d]
  BY <1>1 DEF Others, Busy
<1>3. RaceTypeOK'
  BY <1>1 DEF StructInv, RaceTypeOK
<1>4. HandlerInv'
  BY <1>2 DEF StructInv, HandlerInv, HandlerAt
<1>5. OverlapInv'
  <2> SUFFICES ASSUME NEW d \in Busy', NEW e \in Busy', d # e, cpu'[d].sock = cpu'[e].sock
               PROVE  OverlapOf(d, e)'
    BY DEF OverlapInv
  <2>1. OverlapOf(d, e)
    BY <1>2 DEF StructInv, OverlapInv
  <2> QED BY <1>2, <2>1 DEF OverlapOf
<1>6. PointerInv'
  BY <1>2 DEF StructInv, PointerInv, PointerAt
<1>7. StateInv' /\ OnlyAcksOutliveRows'
  BY DEF StructInv, StateInv, OnlyAcksOutliveRows
<1> QED BY <1>3, <1>4, <1>5, <1>6, <1>7 DEF StructInv

\* A handler that starts on a connection that has a row.
LEMMA EnterStruct ==
  ASSUME StructInv, NEW c \in Cpu, cpu[c] = Idle, NEW s \in Sock, table[s] # NoNode,
         NEW kind \in {"send", "ack", "close"}, NEW pc \in PcOf[kind],
         Enter(c, kind, s, table[s], pc),
         \A d \in Busy : cpu[d].sock = s =>
           /\ cpu[d].kind = kind => kind = "send"
           /\ cpu[d].kind = "close" => kind = "ack"
           /\ kind = "close" => cpu[d].kind = "ack",
         UNCHANGED <<table, recycled, evicted>>
  PROVE  /\ OverlapInv' /\ PointerInv' /\ OnlyAcksOutliveRows'
         /\ cpu' \in [Cpu -> Handler \cup {Idle}]
         /\ met' \in [Sock -> SUBSET SUBSET Kind]
         /\ Busy' = Busy \cup {c}
         /\ \A d \in Busy : cpu'[d] = cpu[d]
         /\ \A d \in Busy' : cpu'[d].pc \in PcOf[cpu'[d].kind]
         /\ cpu'[c].kind = kind /\ cpu'[c].sock = s /\ cpu'[c].node = table[s] /\ cpu'[c].pc = pc
<1>1. RaceTypeOK /\ kind \in Kind /\ table[s] \in Node \cup {NoNode} /\ c \notin Busy
  BY DEF StructInv, RaceTypeOK, Kind, Busy
<1>2. /\ cpu'[c].kind = kind /\ cpu'[c].sock = s /\ cpu'[c].node = table[s] /\ cpu'[c].pc = pc
      /\ cpu' \in [Cpu -> Handler \cup {Idle}] /\ met' \in [Sock -> SUBSET SUBSET Kind]
      /\ Busy' = Busy \cup {c}
      /\ \A d \in Busy' : cpu'[d].pc \in PcOf[cpu'[d].kind]
      /\ \A o \in Sock : met[o] \subseteq met'[o]
      /\ \A d \in Busy : cpu[d].sock = s => {kind, cpu[d].kind} \in met'[s]
      /\ Others(c)
  <2> DEFINE h == [kind |-> kind, sock |-> s, node |-> table[s], pc |-> pc, row |-> Empty]
  <2>1. /\ cpu'[c] = h
        /\ cpu' \in [Cpu -> Handler \cup {Idle}] /\ met' \in [Sock -> SUBSET SUBSET Kind]
        /\ Busy' = Busy \cup {c}
        /\ \A d \in Busy' : cpu'[d].pc \in PcOf[cpu'[d].kind]
        /\ \A o \in Sock : met[o] \subseteq met'[o]
        /\ \A d \in Busy : cpu[d].sock = s => {kind, cpu[d].kind} \in met'[s]
        /\ Others(c)
    BY <1>1, EnterEffect
  <2>2. h.kind = kind /\ h.sock = s /\ h.node = table[s] /\ h.pc = pc
    OBVIOUS
  <2> HIDE DEF h
  <2> QED BY <2>1, <2>2
<1>3. \A d \in Busy : cpu'[d] = cpu[d] /\ cpu[d].sock \in Sock /\ d # c
  BY <1>1, <1>2, BusyFacts DEF Others, Busy
<1>4. OverlapInv'
  <2> SUFFICES ASSUME NEW d \in Busy', NEW e \in Busy', d # e, cpu'[d].sock = cpu'[e].sock
               PROVE  OverlapOf(d, e)'
    BY DEF OverlapInv
  <2>1. CASE d \in Busy /\ e \in Busy
    <3>1. OverlapOf(d, e)
      BY <2>1, <1>3 DEF StructInv, OverlapInv
    <3> QED BY <2>1, <3>1, <1>2, <1>3 DEF OverlapOf
  <2>2. CASE d = c /\ e \in Busy
    BY <2>2, <1>2, <1>3 DEF OverlapOf
  <2>3. CASE d \in Busy /\ e = c
    <3>1. {cpu[d].kind, kind} = {kind, cpu[d].kind}
      OBVIOUS
    <3> QED BY <3>1, <2>3, <1>2, <1>3 DEF OverlapOf
  <2> QED BY <2>1, <2>2, <2>3, <1>2
<1>5. PointerInv'
  <2> SUFFICES ASSUME NEW d \in Busy', cpu'[d].node # NoNode
               PROVE  PointerAt(d)'
    BY DEF PointerInv
  <2>1. CASE d \in Busy
    BY <2>1, <1>3 DEF StructInv, PointerInv, PointerAt
  <2>2. CASE d = c
    BY <2>2, <1>2 DEF StructInv, RaceTypeOK, PointerAt
  <2> QED BY <2>1, <2>2, <1>2
<1>6. OnlyAcksOutliveRows'
  BY DEF StructInv, OnlyAcksOutliveRows
<1> QED BY <1>2, <1>3, <1>4, <1>5, <1>6

LEMMA SendStruct ==
  ASSUME StructInv, NEW c \in Cpu, NEW s \in Sock, Send(c, s)
  PROVE  StructInv'
<1>1. /\ cpu[c] = Idle /\ table[s] # NoNode /\ sockState[s] = "open" /\ asked[s] < MaxSends
      /\ Enter(c, "send", s, table[s], "load") /\ asked' = [asked EXCEPT ![s] = @ + 1]
      /\ UNCHANGED <<sockState, table, node, events, samples, recycled, evicted>>
  BY DEF Send
<1>2. \A d \in Busy : cpu[d].sock = s => cpu[d].kind # "close"
  BY <1>1 DEF StructInv, HandlerInv, HandlerAt
<1>3. "load" \in PcOf["send"]
  BY DEF PcOf
<1>4. /\ OverlapInv' /\ PointerInv' /\ OnlyAcksOutliveRows'
      /\ cpu' \in [Cpu -> Handler \cup {Idle}]
      /\ met' \in [Sock -> SUBSET SUBSET Kind]
      /\ Busy' = Busy \cup {c}
      /\ \A d \in Busy : cpu'[d] = cpu[d]
      /\ \A d \in Busy' : cpu'[d].pc \in PcOf[cpu'[d].kind]
      /\ cpu'[c].kind = "send" /\ cpu'[c].sock = s /\ cpu'[c].node = table[s] /\ cpu'[c].pc = "load"
  BY <1>1, <1>2, <1>3, EnterStruct
<1>5. RaceTypeOK'
  <2>1. asked' \in [Sock -> 0..MaxSends]
    BY <1>1, RaceAssumption DEF StructInv, RaceTypeOK
  <2> QED BY <1>1, <1>4, <2>1 DEF StructInv, RaceTypeOK
<1>6. HandlerInv'
  <2> SUFFICES ASSUME NEW d \in Busy'
               PROVE  HandlerAt(d)'
    BY DEF HandlerInv
  <2>1. CASE d \in Busy
    BY <2>1, <1>1, <1>4 DEF StructInv, HandlerInv, HandlerAt
  <2>2. CASE d = c
    BY <2>2, <1>1, <1>4 DEF HandlerAt
  <2> QED BY <2>1, <2>2, <1>4
<1>7. StateInv'
  BY <1>1 DEF StructInv, StateInv, RaceTypeOK
<1> QED BY <1>4, <1>5, <1>6, <1>7 DEF StructInv

LEMMA AckStruct ==
  ASSUME StructInv, NEW c \in Cpu, NEW s \in Sock, NEW rtt \in Rtt, Ack(c, s, rtt)
  PROVE  StructInv'
<1>1. /\ cpu[c] = Idle /\ table[s] # NoNode /\ sockState[s] \in {"open", "closing"}
      /\ "ack" \notin RunningOn(s)
      /\ Enter(c, "ack", s, table[s], "compare")
      /\ samples' = [samples EXCEPT ![s] = Append(@, rtt)]
      /\ UNCHANGED <<sockState, table, node, events, asked, recycled, evicted>>
  BY DEF Ack
<1>2. \A d \in Busy : cpu[d].sock = s => cpu[d].kind # "ack"
  BY <1>1 DEF RunningOn
<1>3. "compare" \in PcOf["ack"]
  BY DEF PcOf
<1>4. /\ OverlapInv' /\ PointerInv' /\ OnlyAcksOutliveRows'
      /\ cpu' \in [Cpu -> Handler \cup {Idle}]
      /\ met' \in [Sock -> SUBSET SUBSET Kind]
      /\ Busy' = Busy \cup {c}
      /\ \A d \in Busy : cpu'[d] = cpu[d]
      /\ \A d \in Busy' : cpu'[d].pc \in PcOf[cpu'[d].kind]
      /\ cpu'[c].kind = "ack" /\ cpu'[c].sock = s /\ cpu'[c].node = table[s]
      /\ cpu'[c].pc = "compare"
  BY <1>1, <1>2, <1>3, EnterStruct
<1>5. /\ samples' \in [Sock -> Seq(Rtt)] /\ samples'[s] # <<>>
      /\ \A o \in Sock : o # s => samples'[o] = samples[o]
  <2>1. samples[s] \in Seq(Rtt) /\ samples \in [Sock -> Seq(Rtt)]
    BY DEF StructInv, RaceTypeOK
  <2>2. Append(samples[s], rtt) \in Seq(Rtt) /\ Append(samples[s], rtt) # <<>>
    BY <2>1
  <2>3. samples'[s] = Append(samples[s], rtt)
    BY <1>1, <2>1
  <2> QED BY <1>1, <2>1, <2>2, <2>3
<1>6. RaceTypeOK'
  BY <1>1, <1>4, <1>5 DEF StructInv, RaceTypeOK
<1>7. HandlerInv'
  <2> SUFFICES ASSUME NEW d \in Busy'
               PROVE  HandlerAt(d)'
    BY DEF HandlerInv
  <2>1. CASE d \in Busy
    <3>1. cpu[d].sock \in Sock
      BY <2>1, BusyFacts DEF StructInv
    <3>2. cpu[d].kind = "ack" => cpu[d].sock # s
      BY <2>1, <1>2
    <3> QED BY <2>1, <3>1, <3>2, <1>1, <1>4, <1>5 DEF StructInv, HandlerInv, HandlerAt
  <2>2. CASE d = c
    BY <2>2, <1>1, <1>4, <1>5 DEF HandlerAt
  <2> QED BY <2>1, <2>2, <1>4
<1>8. StateInv'
  BY <1>1, <1>5 DEF StructInv, StateInv, RaceTypeOK
<1> QED BY <1>4, <1>6, <1>7, <1>8 DEF StructInv

LEMMA CloseStruct ==
  ASSUME StructInv, NEW c \in Cpu, NEW s \in Sock, Close(c, s)
  PROVE  StructInv'
<1>1. /\ cpu[c] = Idle /\ sockState[s] = "open"
      /\ \A d \in Busy : cpu[d].sock = s => cpu[d].kind = "ack"
      /\ UNCHANGED <<table, node, events, asked, samples, recycled, evicted>>
  BY DEF Close, RunningOn
<1>2. CASE table[s] = NoNode
  <2>1. sockState' = [sockState EXCEPT ![s] = "closed"] /\ UNCHANGED <<cpu, met>> /\ Busy' = Busy
    BY <1>2 DEF Close, Busy
  <2>2. RaceTypeOK'
    BY <1>1, <2>1 DEF StructInv, RaceTypeOK
  <2>3. HandlerInv'
    <3>1. \A d \in Busy : cpu[d].sock \in Sock /\ (cpu[d].kind # "ack" => cpu[d].sock # s)
      BY <1>1, BusyFacts DEF StructInv
    <3> QED BY <1>1, <2>1, <3>1 DEF StructInv, HandlerInv, HandlerAt, RaceTypeOK
  <2>4. StateInv'
    BY <1>1, <2>1 DEF StructInv, StateInv, RaceTypeOK
  <2>5. OverlapInv'
    BY <2>1 DEF StructInv, OverlapInv, OverlapOf
  <2>6. PointerInv' /\ OnlyAcksOutliveRows'
    BY <1>1, <2>1 DEF StructInv, PointerInv, PointerAt, OnlyAcksOutliveRows
  <2> QED BY <2>2, <2>3, <2>4, <2>5, <2>6 DEF StructInv
<1>3. CASE table[s] # NoNode
  <2>1. /\ sockState' = [sockState EXCEPT ![s] = "closing"]
        /\ Enter(c, "close", s, table[s], "copy_sent")
    BY <1>3 DEF Close
  <2>2. "copy_sent" \in PcOf["close"]
    BY DEF PcOf
  <2>3. /\ OverlapInv' /\ PointerInv' /\ OnlyAcksOutliveRows'
        /\ cpu' \in [Cpu -> Handler \cup {Idle}]
        /\ met' \in [Sock -> SUBSET SUBSET Kind]
        /\ Busy' = Busy \cup {c}
        /\ \A d \in Busy : cpu'[d] = cpu[d]
        /\ \A d \in Busy' : cpu'[d].pc \in PcOf[cpu'[d].kind]
        /\ cpu'[c].kind = "close" /\ cpu'[c].sock = s /\ cpu'[c].node = table[s]
        /\ cpu'[c].pc = "copy_sent"
    BY <1>1, <1>3, <2>1, <2>2, EnterStruct
  <2>4. RaceTypeOK'
    BY <1>1, <2>1, <2>3 DEF StructInv, RaceTypeOK
  <2>5. HandlerInv'
    <3> SUFFICES ASSUME NEW d \in Busy'
                 PROVE  HandlerAt(d)'
      BY DEF HandlerInv
    <3>1. CASE d \in Busy
      <4>1. cpu[d].sock \in Sock /\ (cpu[d].kind # "ack" => cpu[d].sock # s)
        BY <1>1, <3>1, BusyFacts DEF StructInv
      <4> QED BY <3>1, <4>1, <1>1, <2>1, <2>3 DEF StructInv, HandlerInv, HandlerAt, RaceTypeOK
    <3>2. CASE d = c
      BY <3>2, <1>3, <2>1, <2>3 DEF StructInv, RaceTypeOK, HandlerAt
    <3> QED BY <3>1, <3>2, <2>3
  <2>6. StateInv'
    BY <1>1, <1>3, <2>1 DEF StructInv, StateInv, RaceTypeOK
  <2> QED BY <2>3, <2>4, <2>5, <2>6 DEF StructInv
<1> QED BY <1>2, <1>3

\* The connection's first handler: its row takes a node, and the row that had
\* the node, if any, is evicted.
LEMMA OpenStruct ==
  ASSUME StructInv, NEW c \in Cpu, NEW s \in Sock, Open(c, s)
  PROVE  StructInv'
<1>1. /\ cpu[c] = Idle /\ sockState[s] = "new" /\ sockState' = [sockState EXCEPT ![s] = "open"]
      /\ Enter(c, "open", s, NoNode, "lookup") /\ UNCHANGED <<events, asked, samples>>
  BY DEF Open
<1>2. PICK n \in Node : Insert(s, n)
  BY DEF Open
<1> DEFINE h == [kind |-> "open", sock |-> s, node |-> NoNode, pc |-> "lookup", row |-> Empty]
<1>3. /\ cpu'[c] = h
      /\ cpu' \in [Cpu -> Handler \cup {Idle}] /\ met' \in [Sock -> SUBSET SUBSET Kind]
      /\ Busy' = Busy \cup {c} /\ Others(c)
      /\ \A d \in Busy' : cpu'[d].pc \in PcOf[cpu'[d].kind]
      /\ \A o \in Sock : met[o] \subseteq met'[o]
  <2>1. RaceTypeOK /\ "open" \in Kind /\ "lookup" \in PcOf["open"]
    BY DEF StructInv, Kind, PcOf
  <2> QED BY <1>1, <2>1, EnterEffect
<1>4. h.kind = "open" /\ h.sock = s /\ h.node = NoNode /\ h.pc = "lookup"
  OBVIOUS
<1> HIDE DEF h
<1>5. \A d \in Busy : /\ cpu'[d] = cpu[d] /\ cpu[d].sock \in Sock /\ cpu[d].sock # s /\ d # c
                      /\ cpu[d].kind \in Kind
  <2>1. \A d \in Busy : /\ d # c /\ d \in Cpu /\ cpu[d].sock \in Sock
                        /\ cpu[d].kind \in Kind
    BY <1>1, BusyFacts DEF StructInv, Busy
  <2>2. \A d \in Busy : cpu[d].sock # s
    BY <1>1, <2>1 DEF StructInv, HandlerInv, HandlerAt, Kind
  <2> QED BY <2>1, <2>2, <1>3 DEF Others
<1>6. /\ table' = [o \in Sock |-> IF o = s THEN n ELSE IF table[o] = n THEN NoNode ELSE table[o]]
      /\ node' = [node EXCEPT ![n] = Empty]
      /\ recycled' = [recycled EXCEPT ![n] = Holding(n)]
      /\ evicted' = evicted \cup {o \in Sock : table[o] = n}
  BY <1>2 DEF Insert
<1>7. n # NoNode
  BY RaceAssumption
<1>8. RaceTypeOK'
  <2>1. sockState' \in [Sock -> {"new", "open", "closing", "closed"}]
    BY <1>1 DEF StructInv, RaceTypeOK
  <2>2. /\ table' \in [Sock -> Node \cup {NoNode}]
        /\ \A o, p \in Sock : (o # p /\ table'[o] # NoNode) => table'[o] # table'[p]
    BY <1>6, <1>7 DEF StructInv, RaceTypeOK
  <2>3. node' \in [Node -> Row]
    BY <1>6, RowFacts DEF StructInv, RaceTypeOK
  <2>4. Holding(n) \subseteq Kind \X Sock
    BY <1>5 DEF Holding
  <2>5. recycled' \in [Node -> SUBSET (Kind \X Sock)]
    BY <1>6, <2>4 DEF StructInv, RaceTypeOK
  <2>6. evicted' \subseteq Sock
    BY <1>6 DEF StructInv, RaceTypeOK
  <2> QED BY <1>1, <1>3, <2>1, <2>2, <2>3, <2>5, <2>6 DEF StructInv, RaceTypeOK
<1>9. HandlerInv'
  <2> SUFFICES ASSUME NEW d \in Busy'
               PROVE  HandlerAt(d)'
    BY DEF HandlerInv
  <2>1. CASE d \in Busy
    BY <2>1, <1>1, <1>5 DEF StructInv, HandlerInv, HandlerAt, RaceTypeOK
  <2>2. CASE d = c
    BY <2>2, <1>1, <1>3, <1>4 DEF StructInv, RaceTypeOK, HandlerAt
  <2> QED BY <2>1, <2>2, <1>3
<1>10. OverlapInv'
  <2> SUFFICES ASSUME NEW d \in Busy', NEW e \in Busy', d # e, cpu'[d].sock = cpu'[e].sock
               PROVE  OverlapOf(d, e)'
    BY DEF OverlapInv
  <2>1. d \in Busy /\ e \in Busy
    BY <1>3, <1>4, <1>5
  <2>2. OverlapOf(d, e)
    BY <2>1, <1>5 DEF StructInv, OverlapInv, OverlapOf
  <2> QED BY <2>1, <2>2, <1>3, <1>5 DEF OverlapOf
<1>11. StateInv'
  <2> SUFFICES ASSUME NEW o \in Sock
               PROVE  /\ sockState'[o] = "new" =>
                           table'[o] = NoNode /\ asked'[o] = 0 /\ samples'[o] = <<>>
                      /\ (sockState'[o] \in {"open", "closing"} /\ table'[o] = NoNode)
                           => o \in evicted'
    BY DEF StateInv
  <2>1. /\ sockState[o] = "new" => table[o] = NoNode /\ asked[o] = 0 /\ samples[o] = <<>>
        /\ (sockState[o] \in {"open", "closing"} /\ table[o] = NoNode) => o \in evicted
    BY DEF StructInv, StateInv
  <2>2. CASE o = s
    BY <2>2, <1>1, <1>6, <1>7 DEF StructInv, RaceTypeOK
  <2>3. CASE o # s
    BY <2>1, <2>3, <1>1, <1>6 DEF StructInv, RaceTypeOK
  <2> QED BY <2>2, <2>3
<1>12. PointerInv'
  <2> SUFFICES ASSUME NEW d \in Busy', cpu'[d].node # NoNode
               PROVE  PointerAt(d)'
    BY DEF PointerInv
  <2>1. d \in Busy /\ cpu'[d] = cpu[d] /\ cpu[d].node # NoNode
    BY <1>3, <1>4, <1>5
  <2>2. /\ table[cpu[d].sock] \in {cpu[d].node, NoNode}
        /\ \A o \in Sock : table[o] = cpu[d].node =>
             o = cpu[d].sock \/ <<cpu[d].kind, cpu[d].sock>> \in recycled[cpu[d].node]
    BY <2>1 DEF StructInv, PointerInv, PointerAt
  <2>3. table'[cpu[d].sock] \in {cpu[d].node, NoNode}
    BY <2>1, <2>2, <1>5, <1>6
  <2>4. ASSUME NEW o \in Sock, table'[o] = cpu[d].node
        PROVE  o = cpu[d].sock \/ <<cpu[d].kind, cpu[d].sock>> \in recycled'[cpu[d].node]
    <3>1. CASE cpu[d].node = n
      <4>1. <<cpu[d].kind, cpu[d].sock>> \in Holding(n)
        BY <2>1, <3>1 DEF Holding
      <4>2. recycled'[n] = Holding(n)
        BY <1>6 DEF StructInv, RaceTypeOK
      <4> QED BY <3>1, <4>1, <4>2
    <3>2. CASE cpu[d].node # n
      <4>1. table[o] = cpu[d].node
        BY <3>2, <2>1, <2>4, <1>6
      <4>2. cpu[d].node \in Node /\ recycled'[cpu[d].node] = recycled[cpu[d].node]
        BY <3>2, <2>1, <1>6, BusyFacts DEF StructInv, RaceTypeOK
      <4> QED BY <4>1, <4>2, <2>2
    <3> QED BY <3>1, <3>2
  <2> QED BY <2>1, <2>3, <2>4 DEF PointerAt
<1>13. OnlyAcksOutliveRows'
  <2> SUFFICES ASSUME NEW m \in Node, NEW p \in recycled'[m]
               PROVE  p[1] = "ack" \/ p[2] \in evicted'
    BY DEF OnlyAcksOutliveRows
  <2>1. CASE m = n
    <3>1. p \in Holding(n)
      BY <2>1, <1>6 DEF StructInv, RaceTypeOK
    <3>2. PICK d \in Busy : cpu[d].node = n /\ p = <<cpu[d].kind, cpu[d].sock>>
      BY <3>1 DEF Holding
    <3>3. table[cpu[d].sock] \in {n, NoNode} /\ cpu[d].sock \in Sock
      BY <3>2, <1>5, <1>7 DEF StructInv, PointerInv, PointerAt
    <3>4. cpu[d].kind # "ack" => sockState[cpu[d].sock] \in {"open", "closing"}
      BY <1>5 DEF StructInv, HandlerInv, HandlerAt, Kind
    <3>5. cpu[d].kind # "ack" => cpu[d].sock \in evicted'
      BY <3>3, <3>4, <1>6 DEF StructInv, StateInv
    <3> QED BY <3>2, <3>5
  <2>2. CASE m # n
    BY <2>2, <1>6 DEF StructInv, RaceTypeOK, OnlyAcksOutliveRows
  <2> QED BY <2>1, <2>2
<1> QED BY <1>8, <1>9, <1>10, <1>11, <1>12, <1>13 DEF StructInv

LEMMA OpenLookupStruct ==
  ASSUME StructInv, NEW c \in Cpu, OpenLookup(c)
  PROVE  StructInv'
<1>1. /\ c \in Busy /\ cpu[c].kind = "open" /\ cpu[c].pc = "lookup"
      /\ UNCHANGED <<sockState, table, node, events, asked, samples, met, recycled, evicted>>
  BY DEF OpenLookup, At, raceHistory
<1> DEFINE n == table[cpu[c].sock]
<1>2. CASE n = NoNode
  <2>1. Leave(c)
    BY <1>2 DEF OpenLookup
  <2> QED BY <1>1, <2>1, LeaveStruct DEF StructInv, RaceTypeOK
<1>3. CASE n # NoNode
  <2>1. cpu[c].sock \in Sock /\ n \in Node
    BY <1>1, <1>3, BusyFacts DEF StructInv, RaceTypeOK
  <2>2. cpu' = [cpu EXCEPT ![c].node = n, ![c].pc = "fill_sent"]
    BY <1>3 DEF OpenLookup
  <2> HIDE DEF n
  <2>3. /\ Moves(c, n, "fill_sent") /\ Others(c)
        /\ cpu' \in [Cpu -> Handler \cup {Idle}]
        /\ Busy' = Busy
        /\ \A d \in Busy' : cpu'[d].pc \in PcOf[cpu'[d].kind]
    BY <1>1, <2>1, <2>2, LookupEffect DEF StructInv
  <2>4. RaceTypeOK'
    BY <1>1, <2>3 DEF StructInv, RaceTypeOK
  <2>5. \A d \in Busy : /\ cpu'[d].kind = cpu[d].kind /\ cpu'[d].sock = cpu[d].sock
                        /\ d # c => cpu'[d] = cpu[d]
    BY <2>3 DEF Moves, Others, Busy
  <2>6. HandlerInv'
    <3> SUFFICES ASSUME NEW d \in Busy
                 PROVE  HandlerAt(d)'
      BY <2>3 DEF HandlerInv
    <3>1. HandlerAt(d)
      BY DEF StructInv, HandlerInv, HandlerAt
    <3>2. cpu'[d].node = NoNode <=> cpu'[d].pc = "lookup"
      <4>1. CASE d = c
        BY <4>1, <2>1, <2>3, RaceAssumption DEF Moves
      <4>2. CASE d # c
        BY <4>2, <2>5, <3>1 DEF HandlerAt
      <4> QED BY <4>1, <4>2
    <3> QED BY <1>1, <2>5, <3>1, <3>2 DEF HandlerAt
  <2>7. OverlapInv'
    <3> SUFFICES ASSUME NEW d \in Busy, NEW e \in Busy, d # e, cpu'[d].sock = cpu'[e].sock
                 PROVE  OverlapOf(d, e)'
      BY <2>3 DEF OverlapInv
    <3>1. OverlapOf(d, e)
      BY <2>5 DEF StructInv, OverlapInv, OverlapOf
    <3> QED BY <1>1, <2>5, <3>1 DEF OverlapOf
  <2>8. StateInv' /\ OnlyAcksOutliveRows'
    BY <1>1 DEF StructInv, StateInv, OnlyAcksOutliveRows
  <2>9. PointerInv'
    <3> SUFFICES ASSUME NEW d \in Busy, cpu'[d].node # NoNode
                 PROVE  PointerAt(d)'
      BY <2>3 DEF PointerInv
    <3>1. CASE d = c
      BY <3>1, <1>1, <2>1, <2>3, RaceAssumption DEF StructInv, RaceTypeOK, Moves, n, PointerAt
    <3>2. CASE d # c
      BY <3>2, <1>1, <2>5 DEF StructInv, PointerInv, PointerAt
    <3> QED BY <3>1, <3>2
  <2> QED BY <2>4, <2>6, <2>7, <2>8, <2>9 DEF StructInv
<1> QED BY <1>2, <1>3

LEMMA CloseRemoveStruct ==
  ASSUME StructInv, NEW c \in Cpu, CloseRemove(c)
  PROVE  StructInv'
<1> DEFINE s == cpu[c].sock
<1>1. /\ c \in Busy /\ cpu[c].kind = "close" /\ Leave(c)
      /\ table' = [table EXCEPT ![s] = NoNode]
      /\ sockState' = [sockState EXCEPT ![s] = "closed"]
      /\ UNCHANGED <<node, events, asked, samples, met, recycled, evicted>>
  BY DEF CloseRemove, At, raceHistory
<1>2. s \in Sock
  BY <1>1, BusyFacts DEF StructInv
<1>3. /\ Others(c) /\ Busy' = Busy \ {c} /\ cpu' \in [Cpu -> Handler \cup {Idle}]
      /\ \A d \in Busy' : cpu'[d].pc \in PcOf[cpu'[d].kind]
  BY <1>1, LeaveEffect DEF StructInv
<1>4. \A d \in Busy' : d \in Busy /\ d # c /\ cpu'[d] = cpu[d] /\ cpu[d].sock \in Sock
  BY <1>3, BusyFacts DEF Others, Busy, StructInv
<1> HIDE DEF s
<1>5. \A d \in Busy' : cpu[d].sock = s => cpu[d].kind = "ack"
  BY <1>1, <1>4 DEF StructInv, OverlapInv, OverlapOf, s
<1>6. RaceTypeOK'
  BY <1>1, <1>2, <1>3 DEF StructInv, RaceTypeOK
<1>7. HandlerInv'
  <2> SUFFICES ASSUME NEW d \in Busy'
               PROVE  /\ cpu[d].kind \in {"open", "send"} => sockState'[cpu[d].sock] = "open"
                      /\ cpu[d].kind = "close" => sockState'[cpu[d].sock] = "closing"
                      /\ cpu[d].kind = "ack" =>
                           sockState'[cpu[d].sock] # "new" /\ samples'[cpu[d].sock] # <<>>
                      /\ cpu[d].node = NoNode <=> cpu[d].pc = "lookup"
    BY <1>4 DEF HandlerInv, HandlerAt
  <2>1. HandlerAt(d)
    BY <1>4 DEF StructInv, HandlerInv, HandlerAt
  <2>2. CASE cpu[d].sock = s
    BY <2>1, <2>2, <1>1, <1>2, <1>5 DEF StructInv, RaceTypeOK, HandlerAt
  <2>3. CASE cpu[d].sock # s
    BY <2>1, <2>3, <1>1, <1>2, <1>4 DEF StructInv, RaceTypeOK, HandlerAt
  <2> QED BY <2>2, <2>3
<1>8. OverlapInv'
  <2> SUFFICES ASSUME NEW d \in Busy', NEW e \in Busy', d # e, cpu'[d].sock = cpu'[e].sock
               PROVE  OverlapOf(d, e)'
    BY DEF OverlapInv
  <2>1. OverlapOf(d, e)
    BY <1>4 DEF StructInv, OverlapInv
  <2> QED BY <2>1, <1>1, <1>4 DEF OverlapOf
<1>9. StateInv'
  BY <1>1, <1>2 DEF StructInv, StateInv, RaceTypeOK
<1>10. PointerInv'
  <2> SUFFICES ASSUME NEW d \in Busy', cpu[d].node # NoNode
               PROVE  /\ table'[cpu[d].sock] \in {cpu[d].node, NoNode}
                      /\ \A o \in Sock : table'[o] = cpu[d].node =>
                           \/ o = cpu[d].sock
                           \/ <<cpu[d].kind, cpu[d].sock>> \in recycled'[cpu[d].node]
    BY <1>4 DEF PointerInv, PointerAt
  <2>1. /\ table[cpu[d].sock] \in {cpu[d].node, NoNode}
        /\ \A o \in Sock : table[o] = cpu[d].node =>
             o = cpu[d].sock \/ <<cpu[d].kind, cpu[d].sock>> \in recycled[cpu[d].node]
    BY <1>4 DEF StructInv, PointerInv, PointerAt
  <2> QED BY <2>1, <1>1, <1>2, <1>4 DEF StructInv, RaceTypeOK
<1>11. OnlyAcksOutliveRows'
  BY <1>1 DEF StructInv, OnlyAcksOutliveRows
<1> QED BY <1>6, <1>7, <1>8, <1>9, <1>10, <1>11 DEF StructInv

LEMMA OpenFillStruct ==
  ASSUME StructInv, NEW c \in Cpu, OpenFill(c)
  PROVE  StructInv'
<1>1. /\ c \in Busy /\ cpu[c].kind = "open" /\ cpu[c].pc \in {"fill_sent", "fill_min", "fill_last"}
      /\ UNCHANGED <<sockState, table, events, asked, samples, met, recycled, evicted>>
  BY DEF OpenFill, At, raceHistory
<1>2. cpu[c].node # NoNode /\ RaceTypeOK
  BY <1>1 DEF StructInv, HandlerInv, HandlerAt
<1>3. CASE At(c, "open", "fill_sent") /\ Store(c, "bytes_sent", 0) /\ Goto(c, "fill_min")
  <2>1. "bytes_sent" \in DOMAIN Empty /\ "fill_min" \in PcOf["open"]
    BY RowFacts DEF PcOf
  <2>2. node' \in [Node -> Row]
    BY <1>1, <1>2, <1>3, <2>1, StoreEffect
  <2>3. /\ Moves(c, cpu[c].node, "fill_min") /\ Others(c) /\ Busy' = Busy
        /\ cpu' \in [Cpu -> Handler \cup {Idle}]
        /\ \A d \in Busy' : cpu'[d].pc \in PcOf[cpu'[d].kind]
    BY <1>1, <1>2, <1>3, <2>1, GotoEffect
  <2> QED BY <1>1, <2>2, <2>3, MoveStruct
<1>4. CASE At(c, "open", "fill_min") /\ Store(c, "srtt_us_min", U32Max) /\ Goto(c, "fill_last")
  <2>1. "srtt_us_min" \in DOMAIN Empty /\ "fill_last" \in PcOf["open"] /\ U32Max \in Nat
    BY RowFacts, RaceAssumption DEF PcOf
  <2>2. node' \in [Node -> Row]
    BY <1>1, <1>2, <1>4, <2>1, StoreEffect
  <2>3. /\ Moves(c, cpu[c].node, "fill_last") /\ Others(c) /\ Busy' = Busy
        /\ cpu' \in [Cpu -> Handler \cup {Idle}]
        /\ \A d \in Busy' : cpu'[d].pc \in PcOf[cpu'[d].kind]
    BY <1>1, <1>2, <1>4, <2>1, GotoEffect
  <2> QED BY <1>1, <2>2, <2>3, MoveStruct
<1>5. CASE At(c, "open", "fill_last") /\ Store(c, "srtt_us_last", 0) /\ Leave(c)
  <2>1. "srtt_us_last" \in DOMAIN Empty
    BY RowFacts
  <2>2. node' \in [Node -> Row]
    BY <1>1, <1>2, <1>5, <2>1, StoreEffect
  <2> QED BY <1>1, <1>5, <2>2, LeaveStruct
<1> QED BY <1>3, <1>4, <1>5 DEF OpenFill

LEMMA SendStepStruct ==
  ASSUME StructInv, NEW c \in Cpu, SendLoad(c) \/ SendStore(c)
  PROVE  StructInv'
<1>1. /\ c \in Busy /\ cpu[c].kind = "send" /\ cpu[c].pc \in {"load", "store"}
      /\ UNCHANGED <<sockState, table, events, asked, samples, met, recycled, evicted>>
  BY DEF SendLoad, SendStore, At, raceHistory
<1>2. cpu[c].node # NoNode /\ RaceTypeOK /\ "bytes_sent" \in DOMAIN Empty
  BY <1>1, RowFacts DEF StructInv, HandlerInv, HandlerAt
<1>3. CASE SendLoad(c)
  <2>1. "store" \in PcOf["send"] /\ Load(c, "bytes_sent", "store") /\ node' \in [Node -> Row]
    BY <1>2, <1>3 DEF SendLoad, PcOf, RaceTypeOK
  <2>2. /\ Moves(c, cpu[c].node, "store") /\ Others(c) /\ Busy' = Busy
        /\ cpu' \in [Cpu -> Handler \cup {Idle}]
        /\ \A d \in Busy' : cpu'[d].pc \in PcOf[cpu'[d].kind]
    BY <1>1, <1>2, <2>1, LoadEffect
  <2> QED BY <1>1, <2>1, <2>2, MoveStruct
<1>4. CASE SendStore(c)
  <2>1. cpu[c].row.bytes_sent + 1 \in Nat
    BY <1>1, <1>2, BusyFacts, RowFacts
  <2>2. node' \in [Node -> Row]
    BY <1>1, <1>2, <1>4, <2>1, StoreEffect DEF SendStore
  <2> QED BY <1>1, <1>4, <2>2, LeaveStruct DEF SendStore
<1> QED BY <1>3, <1>4

\* The sample of the ACK under way is the last of the connection.
LEMMA RttFacts ==
  ASSUME StructInv, NEW c \in Busy, cpu[c].kind = "ack"
  PROVE  /\ samples[cpu[c].sock] \in Seq(Rtt) /\ Len(samples[cpu[c].sock]) \in Nat \ {0}
         /\ RttOf(c) = samples[cpu[c].sock][Len(samples[cpu[c].sock])]
         /\ RttOf(c) \in Rtt /\ RttOf(c) \in Nat /\ RttOf(c) \in ToSet(samples[cpu[c].sock])
<1>1. samples[cpu[c].sock] \in Seq(Rtt) /\ samples[cpu[c].sock] # <<>>
  BY BusyFacts DEF StructInv, HandlerInv, HandlerAt, RaceTypeOK
<1>2. Len(samples[cpu[c].sock]) \in Nat \ {0}
  BY <1>1
<1>3. RttOf(c) = samples[cpu[c].sock][Len(samples[cpu[c].sock])]
  BY DEF RttOf, Last
<1>4. RttOf(c) \in Rtt
  BY <1>1, <1>2, <1>3
<1>5. RttOf(c) \in ToSet(samples[cpu[c].sock])
  BY <1>1, <1>2, <1>3 DEF ToSet
<1>6. RttOf(c) \in Nat
  <2>1. Rtt \subseteq 1..(U32Max - 1) /\ U32Max \in Nat
    BY RaceAssumption
  <2>2. 1..(U32Max - 1) \subseteq Nat
    BY <2>1
  <2> QED BY <1>4, <2>1, <2>2
<1> QED BY <1>1, <1>2, <1>3, <1>4, <1>5, <1>6

LEMMA AckStepStruct ==
  ASSUME StructInv, NEW c \in Cpu, AckCompare(c) \/ AckStore(c)
  PROVE  StructInv'
<1>1. /\ c \in Busy /\ cpu[c].kind = "ack" /\ cpu[c].pc \in {"compare", "store_min", "store_last"}
      /\ UNCHANGED <<sockState, table, events, asked, samples, met, recycled, evicted>>
  BY DEF AckCompare, AckStore, At, raceHistory
<1>2. /\ cpu[c].node # NoNode /\ RaceTypeOK /\ node \in [Node -> Row]
      /\ "srtt_us_min" \in DOMAIN Empty /\ "srtt_us_last" \in DOMAIN Empty
      /\ "store_min" \in PcOf["ack"] /\ "store_last" \in PcOf["ack"]
  BY <1>1, RowFacts DEF StructInv, HandlerInv, HandlerAt, RaceTypeOK, PcOf
<1>3. ASSUME NEW pc \in {"store_min", "store_last"}, Goto(c, pc), node' \in [Node -> Row]
      PROVE  StructInv'
  <2>1. /\ Moves(c, cpu[c].node, pc) /\ Others(c) /\ Busy' = Busy
        /\ cpu' \in [Cpu -> Handler \cup {Idle}]
        /\ \A d \in Busy' : cpu'[d].pc \in PcOf[cpu'[d].kind]
    BY <1>1, <1>2, <1>3, GotoEffect
  <2> QED BY <1>1, <1>3, <2>1, MoveStruct
<1>4. CASE AckCompare(c)
  <2>1. CASE Goto(c, "store_min")
    BY <2>1, <1>2, <1>3, <1>4 DEF AckCompare
  <2>2. CASE Goto(c, "store_last")
    BY <2>2, <1>2, <1>3, <1>4 DEF AckCompare
  <2> QED BY <2>1, <2>2, <1>4 DEF AckCompare
<1>5. CASE AckStore(c)
  <2>1. RttOf(c) \in Nat
    BY <1>1, RttFacts
  <2>2. node' \in [Node -> Row]
    BY <1>1, <1>2, <1>5, <2>1, StoreEffect DEF AckStore
  <2>3. CASE Goto(c, "store_last")
    BY <2>2, <2>3, <1>3
  <2>4. CASE Leave(c)
    BY <1>1, <2>2, <2>4, LeaveStruct
  <2> QED BY <2>3, <2>4, <1>5 DEF AckStore
<1> QED BY <1>4, <1>5

LEMMA CloseStepStruct ==
  ASSUME StructInv, NEW c \in Cpu, CloseCopy(c) \/ CloseSubmit(c)
  PROVE  StructInv'
<1>1. /\ c \in Busy /\ cpu[c].kind = "close"
      /\ cpu[c].pc \in {"copy_sent", "copy_min", "copy_last", "submit"}
      /\ UNCHANGED <<sockState, table, node, asked, samples, met, recycled, evicted>>
  BY DEF CloseCopy, CloseSubmit, At, raceHistory
<1>2. /\ cpu[c].node # NoNode /\ RaceTypeOK /\ node' \in [Node -> Row]
      /\ {"copy_min", "copy_last", "submit", "remove"} \subseteq PcOf["close"]
      /\ DOMAIN Empty = {"bytes_sent", "srtt_us_min", "srtt_us_last"}
  BY <1>1, RowFacts DEF StructInv, HandlerInv, HandlerAt, RaceTypeOK, PcOf
<1>3. ASSUME NEW field \in DOMAIN Empty, NEW pc \in {"copy_min", "copy_last", "submit"},
             Load(c, field, pc)
      PROVE  StructInv'
  <2>1. pc \in PcOf[cpu[c].kind]
    BY <1>1, <1>2
  <2>2. /\ Moves(c, cpu[c].node, pc) /\ Others(c) /\ Busy' = Busy
        /\ cpu' \in [Cpu -> Handler \cup {Idle}]
        /\ \A d \in Busy' : cpu'[d].pc \in PcOf[cpu'[d].kind]
    BY <1>1, <1>2, <1>3, <2>1, LoadEffect
  <2> QED BY <1>1, <1>2, <2>2, MoveStruct
<1>4. CASE CloseCopy(c)
  BY <1>2, <1>3, <1>4 DEF CloseCopy
<1>5. CASE CloseSubmit(c)
  <2>1. /\ Moves(c, cpu[c].node, "remove") /\ Others(c) /\ Busy' = Busy
        /\ cpu' \in [Cpu -> Handler \cup {Idle}]
        /\ \A d \in Busy' : cpu'[d].pc \in PcOf[cpu'[d].kind]
    BY <1>1, <1>2, <1>5, GotoEffect DEF CloseSubmit
  <2> QED BY <1>1, <1>2, <2>1, MoveStruct
<1> QED BY <1>4, <1>5

LEMMA StructStep ==
  ASSUME StructInv, RaceNext
  PROVE  StructInv'
<1>1. PICK c \in Cpu :
        \/ \E s \in Sock :
             Open(c, s) \/ Send(c, s) \/ (\E rtt \in Rtt : Ack(c, s, rtt)) \/ Close(c, s)
        \/ OpenLookup(c) \/ OpenFill(c)
        \/ SendLoad(c) \/ SendStore(c)
        \/ AckCompare(c) \/ AckStore(c)
        \/ CloseCopy(c) \/ CloseSubmit(c) \/ CloseRemove(c)
  BY DEF RaceNext
<1>2. ASSUME NEW s \in Sock,
             Open(c, s) \/ Send(c, s) \/ (\E rtt \in Rtt : Ack(c, s, rtt)) \/ Close(c, s)
      PROVE  StructInv'
  BY <1>2, OpenStruct, SendStruct, AckStruct, CloseStruct
<1>3. ASSUME OpenLookup(c) \/ OpenFill(c) \/ SendLoad(c) \/ SendStore(c)
      PROVE  StructInv'
  BY <1>3, OpenLookupStruct, OpenFillStruct, SendStepStruct
<1>4. ASSUME \/ AckCompare(c) \/ AckStore(c)
             \/ CloseCopy(c) \/ CloseSubmit(c) \/ CloseRemove(c)
      PROVE  StructInv'
  BY <1>4, AckStepStruct, CloseStepStruct, CloseRemoveStruct
<1> QED BY <1>1, <1>2, <1>3, <1>4

LEMMA StructStutter ==
  ASSUME StructInv, UNCHANGED raceVars
  PROVE  StructInv'
<1>1. /\ Busy' = Busy
      /\ UNCHANGED <<sockState, table, node, cpu, events, asked, samples, met, recycled, evicted>>
  BY DEF raceVars, Busy
<1>2. RaceTypeOK'
  BY <1>1 DEF StructInv, RaceTypeOK
<1>3. HandlerInv' /\ OverlapInv'
  BY <1>1 DEF StructInv, HandlerInv, HandlerAt, OverlapInv, OverlapOf
<1>4. StateInv' /\ PointerInv' /\ OnlyAcksOutliveRows'
  BY <1>1 DEF StructInv, StateInv, PointerInv, PointerAt, OnlyAcksOutliveRows
<1> QED BY <1>2, <1>3, <1>4 DEF StructInv

LEMMA StructStart ==
  ASSUME RaceInit
  PROVE  StructInv
<1>1. Busy = {}
  BY DEF RaceInit, Busy
<1>2. RaceTypeOK
  <2>1. \A s \in Sock : samples[s] \in Seq(Rtt)
    BY DEF RaceInit
  <2>2. samples \in [Sock -> Seq(Rtt)]
    BY <2>1 DEF RaceInit
  <2>3. node \in [Node -> Row]
    BY RowFacts DEF RaceInit
  <2>4. asked \in [Sock -> 0..MaxSends]
    BY RaceAssumption DEF RaceInit
  <2> QED BY <1>1, <2>2, <2>3, <2>4 DEF RaceInit, RaceTypeOK
<1>3. HandlerInv /\ OverlapInv /\ PointerInv
  BY <1>1 DEF HandlerInv, HandlerAt, OverlapInv, OverlapOf, PointerInv, PointerAt
<1>4. StateInv /\ OnlyAcksOutliveRows
  BY DEF RaceInit, StateInv, OnlyAcksOutliveRows
<1> QED BY <1>2, <1>3, <1>4 DEF StructInv

-----------------------------------------------------------------------------
(* What the rows say.                                                      *)

\* Sends: each counts for one, at most, and for exactly one when no two of
\* them met and none met an open.
SentAt(s) ==
  (table[s] # NoNode /\ Undisturbed(s, {"send", "open"})) =>
    LET sent == node[table[s]].bytes_sent
        underWay == SendsUnderWay(s)
        rest == asked[s] - Cardinality(underWay)
    IN /\ sent <= rest
       /\ \A c \in underWay : cpu[c].pc = "store" => cpu[c].row.bytes_sent <= rest
       /\ (NeverMet(s, {"send"}) /\ NeverMet(s, {"send", "open"})) =>
            /\ underWay = {} => sent = asked[s]
            /\ \A c \in underWay :
                 /\ sent = asked[s] - 1
                 /\ cpu[c].pc = "store" => cpu[c].row.bytes_sent = asked[s] - 1
            /\ "open" \in RunningOn(s) => asked[s] = 0

\* ACKs: what the row has is a sample; its minimum is below them all but the
\* one that is being compared or stored.
ComparingOn(s) ==
  {c \in Busy : cpu[c].kind = "ack" /\ cpu[c].sock = s /\ cpu[c].pc \in {"compare", "store_min"}}

MinAt(s) ==
  (table[s] # NoNode /\ Undisturbed(s, {"ack", "open"})) =>
    LET min == node[table[s]].srtt_us_min
    IN /\ min \in ToSet(samples[s]) \cup {U32Max}
       /\ node[table[s]].srtt_us_last \in ToSet(samples[s]) \cup {0}
       /\ NeverMet(s, {"ack", "open"}) =>
            /\ "open" \in RunningOn(s) => samples[s] = <<>>
            /\ \A i \in 1..Len(samples[s]) :
                 min <= samples[s][i] \/ (i = Len(samples[s]) /\ ComparingOn(s) # {})
            /\ \A c \in ComparingOn(s) : cpu[c].pc = "store_min" => RttOf(c) <= min

\* What a close has copied so far, of a row that is still there.
CopyAt(c) ==
  table[cpu[c].sock] # NoNode =>
    LET s == cpu[c].sock
        row == cpu[c].row
    IN /\ (/\ cpu[c].pc \in {"copy_min", "copy_last", "submit"}
           /\ Undisturbed(s, {"send", "open"})
           /\ NeverMet(s, {"send"}) /\ NeverMet(s, {"send", "open"})) => row.bytes_sent = asked[s]
       /\ (/\ Undisturbed(s, {"ack", "open"})
           /\ NeverMet(s, {"ack", "close"}) /\ NeverMet(s, {"ack", "open"})) =>
            /\ cpu[c].pc \in {"copy_last", "submit"} =>
                 \A rtt \in ToSet(samples[s]) : row.srtt_us_min <= rtt
            /\ cpu[c].pc = "submit" =>
                 row.srtt_us_last = 0 \/ row.srtt_us_min <= row.srtt_us_last

\* Events: of a connection that asks no more.
EventInv ==
  /\ \A e \in events : e.sock \in Sock /\ sockState[e.sock] \in {"closing", "closed"}
  /\ EventUnlessRaced

RaceInv ==
  /\ StructInv
  /\ \A s \in Sock : SentAt(s) /\ MinAt(s)
  /\ \A c \in Busy : cpu[c].kind = "close" => CopyAt(c)
  /\ EventInv

\* CPU c is in a handler of that kind for s.
On(c, kind, s) == c \in Busy /\ cpu[c].kind = kind /\ cpu[c].sock = s

\* A step that is not of a send of s, and leaves its counter alone.
LEMMA SentFrame ==
  ASSUME NEW s \in Sock, NEW c \in Cpu, Others(c), SentAt(s),
         ~On(c, "send", s), ~On(c, "send", s)', On(c, "open", s)' => On(c, "open", s),
         table'[s] # NoNode => (table'[s] = table[s] /\ recycled'[table[s]] = recycled[table[s]]),
         asked'[s] = asked[s], met[s] \subseteq met'[s],
         (table'[s] # NoNode /\ Undisturbed(s, {"send", "open"})) =>
           node'[table[s]].bytes_sent = node[table[s]].bytes_sent
  PROVE  SentAt(s)'
<1> SUFFICES ASSUME table'[s] # NoNode, Undisturbed(s, {"send", "open"})'
             PROVE  SentAt(s)'
  BY DEF SentAt
<1>1. Undisturbed(s, {"send", "open"}) /\ table[s] # NoNode
  BY DEF Undisturbed
<1>2. SendsUnderWay(s)' = SendsUnderWay(s) /\ \A d \in SendsUnderWay(s) : cpu'[d] = cpu[d]
  BY DEF SendsUnderWay, On, Others, Busy
<1>3. "open" \in RunningOn(s)' => "open" \in RunningOn(s)
  BY DEF RunningOn, On, Others, Busy
<1>4. /\ NeverMet(s, {"send"})' => NeverMet(s, {"send"})
      /\ NeverMet(s, {"send", "open"})' => NeverMet(s, {"send", "open"})
  BY DEF NeverMet
<1> QED BY <1>1, <1>2, <1>3, <1>4 DEF SentAt

\* A step that is not of an ACK of s, and leaves its RTTs alone.
LEMMA MinFrame ==
  ASSUME NEW s \in Sock, NEW c \in Cpu, Others(c), MinAt(s),
         ~On(c, "ack", s), ~On(c, "ack", s)', On(c, "open", s)' => On(c, "open", s),
         table'[s] # NoNode => (table'[s] = table[s] /\ recycled'[table[s]] = recycled[table[s]]),
         samples'[s] = samples[s], met[s] \subseteq met'[s],
         (table'[s] # NoNode /\ Undisturbed(s, {"ack", "open"})) =>
           /\ node'[table[s]].srtt_us_min = node[table[s]].srtt_us_min
           /\ node'[table[s]].srtt_us_last = node[table[s]].srtt_us_last
  PROVE  MinAt(s)'
<1> SUFFICES ASSUME table'[s] # NoNode, Undisturbed(s, {"ack", "open"})'
             PROVE  MinAt(s)'
  BY DEF MinAt
<1>1. Undisturbed(s, {"ack", "open"}) /\ table[s] # NoNode
  BY DEF Undisturbed
<1>2. /\ ComparingOn(s)' = ComparingOn(s)
      /\ \A d \in ComparingOn(s) : cpu'[d] = cpu[d] /\ RttOf(d)' = RttOf(d)
  BY DEF ComparingOn, On, Others, Busy, RttOf
<1>3. "open" \in RunningOn(s)' => "open" \in RunningOn(s)
  BY DEF RunningOn, On, Others, Busy
<1>4. NeverMet(s, {"ack", "open"})' => NeverMet(s, {"ack", "open"})
  BY DEF NeverMet
<1> QED BY <1>1, <1>2, <1>3, <1>4 DEF MinAt

\* A step that is not of this close.
LEMMA CopyFrame ==
  ASSUME NEW d \in Busy, CopyAt(d), cpu'[d] = cpu[d], NEW s, s = cpu[d].sock,
         table'[s] # NoNode => (table'[s] = table[s] /\ recycled'[table[s]] = recycled[table[s]]),
         asked'[s] = asked[s], met[s] \subseteq met'[s],
         samples'[s] = samples[s] \/ {"ack", "close"} \in met'[s]
  PROVE  CopyAt(d)'
<1> SUFFICES ASSUME table'[s] # NoNode
             PROVE  CopyAt(d)'
  BY DEF CopyAt
<1>1. \A kinds : Undisturbed(s, kinds)' => Undisturbed(s, kinds)
  BY DEF Undisturbed
<1>2. \A kinds : NeverMet(s, kinds)' => NeverMet(s, kinds)
  BY DEF NeverMet
<1>3. NeverMet(s, {"ack", "close"})' => samples'[s] = samples[s]
  BY DEF NeverMet
<1> QED BY <1>1, <1>2, <1>3 DEF CopyAt

\* A handler that writes to another connection's field disturbs that one.
LEMMA Disturbs ==
  ASSUME StructInv, NEW c \in Busy, cpu[c].node # NoNode, NEW s \in Sock, s # cpu[c].sock,
         NEW kinds, cpu[c].kind \in kinds, Undisturbed(s, kinds)
  PROVE  table[s] # cpu[c].node
<1> SUFFICES ASSUME table[s] = cpu[c].node
             PROVE  FALSE
  OBVIOUS
<1>1. <<cpu[c].kind, cpu[c].sock>> \in recycled[table[s]]
  BY DEF StructInv, PointerInv, PointerAt
<1> QED BY <1>1 DEF Undisturbed

LEMMA SendsFacts ==
  ASSUME RaceTypeOK, NEW s \in Sock
  PROVE  /\ IsFiniteSet(SendsUnderWay(s)) /\ Cardinality(SendsUnderWay(s)) \in Nat
         /\ Cardinality(SendsUnderWay(s)) = 0 <=> SendsUnderWay(s) = {}
         /\ asked[s] \in Nat
<1>1. SendsUnderWay(s) \subseteq Cpu
  BY DEF SendsUnderWay, Busy
<1>2. IsFiniteSet(SendsUnderWay(s))
  BY <1>1, RaceAssumption, FS_Subset
<1>3. asked[s] \in Nat
  BY RaceAssumption DEF RaceTypeOK
<1> QED BY <1>2, <1>3, FS_CardinalityType, FS_EmptySet

\* The row of a connection holds numbers.
LEMMA RowOf ==
  ASSUME RaceTypeOK, NEW s \in Sock, table[s] # NoNode
  PROVE  /\ table[s] \in Node /\ node[table[s]] \in Row
         /\ node[table[s]].bytes_sent \in Nat /\ node[table[s]].srtt_us_min \in Nat
         /\ node[table[s]].srtt_us_last \in Nat
<1>1. table[s] \in Node /\ node[table[s]] \in Row
  BY DEF RaceTypeOK
<1> QED BY <1>1, RowFacts

\* What a store leaves alone: the other fields, and the rows of connections
\* it does not disturb.
LEMMA StoreKeeps ==
  ASSUME StructInv, NEW c \in Busy, cpu[c].node # NoNode, NEW field \in DOMAIN Empty,
         NEW value \in Nat, Store(c, field, value), NEW s \in Sock, table[s] # NoNode
  PROVE  /\ \A f \in DOMAIN Empty \ {field} : node'[table[s]][f] = node[table[s]][f]
         /\ \A kinds : (s # cpu[c].sock /\ cpu[c].kind \in kinds /\ Undisturbed(s, kinds)) =>
              node'[table[s]] = node[table[s]]
         /\ s = cpu[c].sock => node'[table[s]][field] = value
<1>1. table[s] \in Node /\ RaceTypeOK
  BY RowOf DEF StructInv
<1>2. /\ node'[cpu[c].node][field] = value
      /\ \A f \in DOMAIN Empty : f # field => node'[cpu[c].node][f] = node[cpu[c].node][f]
      /\ \A n \in Node : n # cpu[c].node => node'[n] = node[n]
  BY <1>1, StoreEffect
<1>3. s = cpu[c].sock => table[s] = cpu[c].node
  BY DEF StructInv, PointerInv, PointerAt
<1>4. ASSUME NEW kinds, s # cpu[c].sock, cpu[c].kind \in kinds, Undisturbed(s, kinds)
      PROVE  node'[table[s]] = node[table[s]]
  BY <1>1, <1>2, <1>4, Disturbs
<1> QED BY <1>1, <1>2, <1>3, <1>4

\* A handler that was there before the step, is of c, and keeps to its own
\* connection: what is said of all the others holds on.
LEMMA HandlerFrame ==
  ASSUME RaceInv, NEW c \in Busy, Others(c),
         c \in Busy' => (cpu'[c].kind = cpu[c].kind /\ cpu'[c].sock = cpu[c].sock),
         UNCHANGED <<table, asked, samples, met, recycled>>
  PROVE  /\ \A s \in Sock :
              (~On(c, "send", s) /\ ((table[s] # NoNode /\ Undisturbed(s, {"send", "open"})) =>
                  node'[table[s]].bytes_sent = node[table[s]].bytes_sent)) => SentAt(s)'
         /\ \A s \in Sock :
              (~On(c, "ack", s) /\ ((table[s] # NoNode /\ Undisturbed(s, {"ack", "open"})) =>
                  /\ node'[table[s]].srtt_us_min = node[table[s]].srtt_us_min
                  /\ node'[table[s]].srtt_us_last = node[table[s]].srtt_us_last)) => MinAt(s)'
         /\ \A d \in Busy' : (cpu'[d].kind = "close" /\ d # c) => CopyAt(d)'
<1>1. c \in Cpu
  BY DEF Busy
<1>2. ASSUME NEW s \in Sock, ~On(c, "send", s),
             (table[s] # NoNode /\ Undisturbed(s, {"send", "open"})) =>
               node'[table[s]].bytes_sent = node[table[s]].bytes_sent
      PROVE  SentAt(s)'
  <2>1. ~On(c, "send", s)' /\ (On(c, "open", s)' => On(c, "open", s)) /\ SentAt(s)
    BY <1>2 DEF On, RaceInv
  <2> QED BY <1>1, <1>2, <2>1, SentFrame
<1>3. ASSUME NEW s \in Sock, ~On(c, "ack", s),
             (table[s] # NoNode /\ Undisturbed(s, {"ack", "open"})) =>
               /\ node'[table[s]].srtt_us_min = node[table[s]].srtt_us_min
               /\ node'[table[s]].srtt_us_last = node[table[s]].srtt_us_last
      PROVE  MinAt(s)'
  <2>1. ~On(c, "ack", s)' /\ (On(c, "open", s)' => On(c, "open", s)) /\ MinAt(s)
    BY <1>3 DEF On, RaceInv
  <2> QED BY <1>1, <1>3, <2>1, MinFrame
<1>4. ASSUME NEW d \in Busy', cpu'[d].kind = "close", d # c
      PROVE  CopyAt(d)'
  <2>1. d \in Busy /\ cpu'[d] = cpu[d]
    BY <1>4 DEF Busy, Others
  <2>2. CopyAt(d)
    BY <1>4, <2>1 DEF RaceInv
  <2> QED BY <2>1, <2>2, CopyFrame
<1> QED BY <1>2, <1>3, <1>4

LEMMA EventFrame ==
  ASSUME EventInv, events' = events, \A s \in Sock : met[s] \subseteq met'[s],
         \A s \in Sock : sockState[s] \in {"closing", "closed"} =>
           sockState'[s] \in {"closing", "closed"} /\ asked'[s] = asked[s]
  PROVE  EventInv'
<1>1. \A s \in Sock : \A kinds : NeverMet(s, kinds)' => NeverMet(s, kinds)
  BY DEF NeverMet
<1>2. EventUnlessRaced'
  BY <1>1 DEF EventInv, EventUnlessRaced
<1> QED BY <1>2 DEF EventInv

\* What a step has to keep beside the structure.
SaysInv ==
  /\ \A s \in Sock : SentAt(s) /\ MinAt(s)
  /\ \A c \in Busy : cpu[c].kind = "close" => CopyAt(c)
  /\ EventInv

LEMMA OpenLookupSays ==
  ASSUME RaceInv, NEW c \in Cpu, OpenLookup(c)
  PROVE  SaysInv'
<1>1. /\ c \in Busy /\ cpu[c].kind = "open"
      /\ UNCHANGED <<sockState, table, node, events, asked, samples, met, recycled, evicted>>
  BY DEF OpenLookup, At, raceHistory
<1>2. /\ Others(c)
      /\ c \in Busy' => (cpu'[c].kind = cpu[c].kind /\ cpu'[c].sock = cpu[c].sock)
  <2>1. CASE table[cpu[c].sock] = NoNode
    <3>1. Leave(c)
      BY <2>1 DEF OpenLookup
    <3> QED BY <3>1, <1>1, LeaveEffect DEF RaceInv, StructInv
  <2>2. CASE table[cpu[c].sock] # NoNode
    <3> DEFINE n == table[cpu[c].sock]
    <3>1. n \in Node /\ RaceTypeOK
      BY <1>1, <2>2, BusyFacts DEF RaceInv, StructInv, RaceTypeOK
    <3>2. cpu' = [cpu EXCEPT ![c].node = n, ![c].pc = "fill_sent"]
      BY <2>2 DEF OpenLookup
    <3> HIDE DEF n
    <3> QED BY <3>1, <3>2, <1>1, LookupEffect DEF Moves
  <2> QED BY <2>1, <2>2
<1>3. /\ \A s \in Sock : SentAt(s)' /\ MinAt(s)'
      /\ \A d \in Busy' : cpu'[d].kind = "close" => CopyAt(d)'
  BY <1>1, <1>2, HandlerFrame DEF On
<1>4. EventInv'
  BY <1>1, EventFrame DEF RaceInv
<1> QED BY <1>3, <1>4 DEF SaysInv

LEMMA OpenFillSays ==
  ASSUME RaceInv, NEW c \in Cpu, OpenFill(c)
  PROVE  SaysInv'
<1>1. /\ c \in Busy /\ cpu[c].kind = "open" /\ cpu[c].pc \in {"fill_sent", "fill_min", "fill_last"}
      /\ UNCHANGED <<sockState, table, events, asked, samples, met, recycled, evicted>>
  BY DEF OpenFill, At, raceHistory
<1>2. /\ cpu[c].node # NoNode /\ RaceTypeOK /\ StructInv /\ U32Max \in Nat
      /\ DOMAIN Empty = {"bytes_sent", "srtt_us_min", "srtt_us_last"}
      /\ {"fill_min", "fill_last"} \subseteq PcOf["open"]
  BY <1>1, RowFacts, RaceAssumption DEF RaceInv, StructInv, HandlerInv, HandlerAt, PcOf
<1>3. /\ Others(c)
      /\ c \in Busy' => (cpu'[c].kind = cpu[c].kind /\ cpu'[c].sock = cpu[c].sock)
  <2>1. CASE Goto(c, "fill_min") \/ Goto(c, "fill_last")
    BY <2>1, <1>1, <1>2, GotoEffect DEF Moves
  <2>2. CASE Leave(c)
    BY <2>2, <1>1, <1>2, LeaveEffect
  <2> QED BY <2>1, <2>2 DEF OpenFill
<1>4. \A d \in Busy' : cpu'[d].kind = "close" => CopyAt(d)'
  BY <1>1, <1>3, HandlerFrame
<1>5. EventInv'
  BY <1>1, EventFrame DEF RaceInv
<1>6. \A s \in Sock : ~On(c, "send", s) /\ ~On(c, "ack", s)
  BY <1>1 DEF On
<1>7. CASE Store(c, "bytes_sent", 0)
  <2>1. ASSUME NEW s \in Sock PROVE MinAt(s)'
    <3>1. table[s] # NoNode => /\ node'[table[s]].srtt_us_min = node[table[s]].srtt_us_min
                               /\ node'[table[s]].srtt_us_last = node[table[s]].srtt_us_last
      BY <1>1, <1>2, <1>7, StoreKeeps
    <3> QED BY <3>1, <1>1, <1>3, <1>6, HandlerFrame
  <2>2. ASSUME NEW s \in Sock, s # cpu[c].sock PROVE SentAt(s)'
    <3>1. (table[s] # NoNode /\ Undisturbed(s, {"send", "open"})) =>
            node'[table[s]].bytes_sent = node[table[s]].bytes_sent
      BY <1>1, <1>2, <1>7, <2>2, StoreKeeps
    <3> QED BY <3>1, <1>1, <1>3, <1>6, HandlerFrame
  <2>3. ASSUME NEW s \in Sock, s = cpu[c].sock PROVE SentAt(s)'
    <3> SUFFICES ASSUME table[s] # NoNode, Undisturbed(s, {"send", "open"})
                 PROVE  SentAt(s)'
      BY <1>1 DEF SentAt, Undisturbed
    <3>1. node'[table[s]].bytes_sent = 0
      BY <1>1, <1>2, <1>7, <2>3, StoreKeeps
    <3>2. SendsUnderWay(s)' = SendsUnderWay(s) /\ \A d \in SendsUnderWay(s) : cpu'[d] = cpu[d]
      BY <1>1, <1>3, <2>3 DEF SendsUnderWay, Others, Busy
    <3>3. "open" \in RunningOn(s)
      BY <1>1, <2>3 DEF RunningOn
    <3>4. /\ Cardinality(SendsUnderWay(s)) \in Nat /\ asked[s] \in Nat
          /\ node[table[s]].bytes_sent \in Nat
      BY <1>2, SendsFacts, RowOf
    <3>5. SentAt(s)
      BY DEF RaceInv
    <3>6. NeverMet(s, {"send"})' = NeverMet(s, {"send"})
          /\ NeverMet(s, {"send", "open"})' = NeverMet(s, {"send", "open"})
      BY <1>1 DEF NeverMet
    <3>7. asked[s] - Cardinality(SendsUnderWay(s)) >= 0
      BY <3>4, <3>5 DEF SentAt
    <3>8. ASSUME NeverMet(s, {"send"}), NeverMet(s, {"send", "open"})
          PROVE  asked[s] = 0 /\ SendsUnderWay(s) = {}
      BY <3>3, <3>4, <3>5, <3>8 DEF SentAt
    <3> QED BY <3>1, <3>2, <3>4, <3>5, <3>6, <3>7, <3>8, <1>1 DEF SentAt
  <2> QED BY <2>1, <2>2, <2>3, <1>4, <1>5 DEF SaysInv
<1>8. CASE Store(c, "srtt_us_min", U32Max) \/ Store(c, "srtt_us_last", 0)
  <2>1. ASSUME NEW s \in Sock PROVE SentAt(s)'
    <3>1. table[s] # NoNode => node'[table[s]].bytes_sent = node[table[s]].bytes_sent
      BY <1>1, <1>2, <1>8, StoreKeeps
    <3> QED BY <3>1, <1>1, <1>3, <1>6, HandlerFrame
  <2>2. ASSUME NEW s \in Sock, s # cpu[c].sock PROVE MinAt(s)'
    <3>1. (table[s] # NoNode /\ Undisturbed(s, {"ack", "open"})) => node'[table[s]] = node[table[s]]
      BY <1>1, <1>2, <1>8, <2>2, StoreKeeps
    <3> QED BY <3>1, <1>1, <1>3, <1>6, HandlerFrame
  <2>3. ASSUME NEW s \in Sock, s = cpu[c].sock PROVE MinAt(s)'
    <3> SUFFICES ASSUME table[s] # NoNode, Undisturbed(s, {"ack", "open"})
                 PROVE  MinAt(s)'
      BY <1>1 DEF MinAt, Undisturbed
    <3>1. \/ /\ node'[table[s]].srtt_us_min = U32Max
             /\ node'[table[s]].srtt_us_last = node[table[s]].srtt_us_last
          \/ /\ node'[table[s]].srtt_us_min = node[table[s]].srtt_us_min
             /\ node'[table[s]].srtt_us_last = 0
      BY <1>1, <1>2, <1>8, <2>3, StoreKeeps
    <3>2. "open" \in RunningOn(s)
      BY <1>1, <2>3 DEF RunningOn
    <3>3. MinAt(s)
      BY DEF RaceInv
    <3>4. NeverMet(s, {"ack", "open"})' = NeverMet(s, {"ack", "open"})
      BY <1>1 DEF NeverMet
    <3>5. NeverMet(s, {"ack", "open"}) => (samples[s] = <<>> /\ Len(samples[s]) = 0)
      BY <3>2, <3>3 DEF MinAt
    <3>6. NeverMet(s, {"ack", "open"}) => ComparingOn(s)' = {}
      <4> SUFFICES ASSUME NEW d \in ComparingOn(s)', NeverMet(s, {"ack", "open"})
                   PROVE  FALSE
        OBVIOUS
      <4>1. d \in Busy /\ cpu[d].kind = "ack" /\ cpu[d].sock = s /\ d # c
        BY <1>1, <1>3 DEF ComparingOn, Busy, Others
      <4>2. {cpu[d].kind, cpu[c].kind} \in met[s]
        BY <4>1, <1>1, <1>2, <2>3 DEF StructInv, OverlapInv, OverlapOf
      <4> QED BY <4>1, <4>2, <1>1 DEF NeverMet
    <3> QED BY <3>1, <3>3, <3>4, <3>5, <3>6, <1>1 DEF MinAt
  <2> QED BY <2>1, <2>2, <2>3, <1>4, <1>5 DEF SaysInv
<1> QED BY <1>7, <1>8 DEF OpenFill

LEMMA SendLoadSays ==
  ASSUME RaceInv, NEW c \in Cpu, SendLoad(c)
  PROVE  SaysInv'
<1>1. /\ c \in Busy /\ cpu[c].kind = "send" /\ cpu[c].pc = "load" /\ Load(c, "bytes_sent", "store")
      /\ UNCHANGED <<sockState, table, node, events, asked, samples, met, recycled, evicted>>
  BY DEF SendLoad, At, raceHistory
<1>2. cpu[c].node # NoNode /\ RaceTypeOK /\ StructInv /\ "bytes_sent" \in DOMAIN Empty
      /\ "store" \in PcOf["send"]
  BY <1>1, RowFacts DEF RaceInv, StructInv, HandlerInv, HandlerAt, PcOf
<1>3. /\ Others(c) /\ Busy' = Busy /\ cpu'[c].kind = "send" /\ cpu'[c].sock = cpu[c].sock
      /\ cpu'[c].row.bytes_sent = node[cpu[c].node].bytes_sent
  BY <1>1, <1>2, LoadEffect DEF Moves
<1>4. /\ \A d \in Busy' : cpu'[d].kind = "close" => CopyAt(d)'
      /\ \A s \in Sock : MinAt(s)'
      /\ \A s \in Sock : s # cpu[c].sock => SentAt(s)'
  BY <1>1, <1>3, HandlerFrame DEF On
<1>5. EventInv'
  BY <1>1, EventFrame DEF RaceInv
<1>6. ASSUME NEW s \in Sock, s = cpu[c].sock PROVE SentAt(s)'
  <2> SUFFICES ASSUME table[s] # NoNode, Undisturbed(s, {"send", "open"})
               PROVE  SentAt(s)'
    BY <1>1 DEF SentAt, Undisturbed
  <2>1. cpu[c].node = table[s]
    BY <1>1, <1>2, <1>6 DEF StructInv, PointerInv, PointerAt
  <2>2. /\ SendsUnderWay(s)' = SendsUnderWay(s) /\ c \in SendsUnderWay(s)
        /\ \A d \in SendsUnderWay(s) : d # c => cpu'[d] = cpu[d]
    BY <1>1, <1>3, <1>6 DEF SendsUnderWay, Others, Busy
  <2>3. "open" \in RunningOn(s)' => "open" \in RunningOn(s)
    BY <1>1, <1>3 DEF RunningOn, Others, Busy
  <2>4. SentAt(s)
    BY DEF RaceInv
  <2>5. /\ NeverMet(s, {"send"})' = NeverMet(s, {"send"})
        /\ NeverMet(s, {"send", "open"})' = NeverMet(s, {"send", "open"})
    BY <1>1 DEF NeverMet
  <2> QED BY <2>1, <2>2, <2>3, <2>4, <2>5, <1>1, <1>3 DEF SentAt
<1> QED BY <1>4, <1>5, <1>6 DEF SaysInv

LEMMA SendStoreSays ==
  ASSUME RaceInv, NEW c \in Cpu, SendStore(c)
  PROVE  SaysInv'
<1> DEFINE value == cpu[c].row.bytes_sent + 1
<1>1. /\ c \in Busy /\ cpu[c].kind = "send" /\ cpu[c].pc = "store" /\ Leave(c)
      /\ Store(c, "bytes_sent", value)
      /\ UNCHANGED <<sockState, table, events, asked, samples, met, recycled, evicted>>
  BY DEF SendStore, At, raceHistory
<1>2. /\ cpu[c].node # NoNode /\ RaceTypeOK /\ StructInv
      /\ DOMAIN Empty = {"bytes_sent", "srtt_us_min", "srtt_us_last"}
  BY <1>1, RowFacts DEF RaceInv, StructInv, HandlerInv, HandlerAt
<1>3. Others(c) /\ Busy' = Busy \ {c} /\ cpu[c].row.bytes_sent \in Nat /\ value \in Nat
  BY <1>1, <1>2, LeaveEffect, BusyFacts, RowFacts
<1> HIDE DEF value
<1>4. ASSUME NEW s \in Sock PROVE MinAt(s)'
  <2>1. table[s] # NoNode => /\ node'[table[s]].srtt_us_min = node[table[s]].srtt_us_min
                             /\ node'[table[s]].srtt_us_last = node[table[s]].srtt_us_last
    BY <1>1, <1>2, <1>3, StoreKeeps
  <2> QED BY <2>1, <1>1, <1>3, HandlerFrame DEF On
<1>5. \A d \in Busy' : cpu'[d].kind = "close" => CopyAt(d)'
  BY <1>1, <1>3, HandlerFrame
<1>6. EventInv'
  BY <1>1, EventFrame DEF RaceInv
<1>7. ASSUME NEW s \in Sock, s # cpu[c].sock PROVE SentAt(s)'
  <2>1. (table[s] # NoNode /\ Undisturbed(s, {"send", "open"})) =>
          node'[table[s]].bytes_sent = node[table[s]].bytes_sent
    BY <1>1, <1>2, <1>3, <1>7, StoreKeeps
  <2> QED BY <2>1, <1>1, <1>3, <1>7, HandlerFrame DEF On
<1>8. ASSUME NEW s \in Sock, s = cpu[c].sock PROVE SentAt(s)'
  <2> SUFFICES ASSUME table[s] # NoNode, Undisturbed(s, {"send", "open"})
               PROVE  SentAt(s)'
    BY <1>1 DEF SentAt, Undisturbed
  <2>1. node'[table[s]].bytes_sent = value
    BY <1>1, <1>2, <1>3, <1>8, StoreKeeps
  <2>2. /\ SendsUnderWay(s)' = SendsUnderWay(s) \ {c} /\ c \in SendsUnderWay(s)
        /\ \A d \in SendsUnderWay(s)' : cpu'[d] = cpu[d]
    BY <1>1, <1>3, <1>8 DEF SendsUnderWay, Others, Busy
  <2>3. "open" \in RunningOn(s)' => "open" \in RunningOn(s)
    BY <1>1, <1>3 DEF RunningOn, Others, Busy
  <2>4. SentAt(s)
    BY DEF RaceInv
  <2>5. /\ NeverMet(s, {"send"})' = NeverMet(s, {"send"})
        /\ NeverMet(s, {"send", "open"})' = NeverMet(s, {"send", "open"})
    BY <1>1 DEF NeverMet
  <2>6. /\ Cardinality(SendsUnderWay(s)) \in Nat /\ asked[s] \in Nat
        /\ Cardinality(SendsUnderWay(s)') = Cardinality(SendsUnderWay(s)) - 1
    BY <1>2, <2>2, SendsFacts, FS_RemoveElement
  <2>7. NeverMet(s, {"send"}) => SendsUnderWay(s)' = {}
    <3> SUFFICES ASSUME NEW d \in SendsUnderWay(s), d # c
                 PROVE  {"send"} \in met[s]
      BY <2>2 DEF NeverMet
    <3>1. {cpu[d].kind, cpu[c].kind} \in met[s] /\ cpu[d].kind = "send"
      BY <1>1, <1>2, <1>8 DEF SendsUnderWay, StructInv, OverlapInv, OverlapOf
    <3>2. {"send", "send"} = {"send"}
      OBVIOUS
    <3> QED BY <3>1, <3>2, <1>1
  <2>8. \A d \in SendsUnderWay(s) : cpu[d].row.bytes_sent \in Nat
    BY <1>2, BusyFacts, RowFacts DEF SendsUnderWay
  <2>9. value <= asked[s] - Cardinality(SendsUnderWay(s)')
    BY <1>1, <1>3, <2>2, <2>4, <2>6 DEF SentAt, value
  <2>10. \A d \in SendsUnderWay(s)' :
           cpu'[d].pc = "store" =>
             cpu'[d].row.bytes_sent <= asked[s] - Cardinality(SendsUnderWay(s)')
    BY <2>2, <2>4, <2>6, <2>8 DEF SentAt
  <2>11. ASSUME NeverMet(s, {"send"}), NeverMet(s, {"send", "open"})
         PROVE  value = asked[s] /\ ("open" \in RunningOn(s) => asked[s] = 0)
    BY <1>1, <1>3, <2>2, <2>4, <2>6, <2>11 DEF SentAt, value
  <2> QED BY <2>1, <2>3, <2>5, <2>7, <2>9, <2>10, <2>11, <1>1 DEF SentAt
<1> QED BY <1>4, <1>5, <1>6, <1>7, <1>8 DEF SaysInv

LEMMA AckCompareSays ==
  ASSUME RaceInv, NEW c \in Cpu, AckCompare(c)
  PROVE  SaysInv'
<1> DEFINE pc == IF RttOf(c) < node[cpu[c].node].srtt_us_min THEN "store_min" ELSE "store_last"
<1>0. PICK s \in Sock : s = cpu[c].sock
  BY BusyFacts DEF RaceInv, StructInv, AckCompare, At
<1>1. /\ c \in Busy /\ cpu[c].kind = "ack" /\ cpu[c].pc = "compare" /\ Goto(c, pc)
      /\ UNCHANGED <<sockState, table, node, events, asked, samples, met, recycled, evicted>>
  BY DEF AckCompare, At, raceHistory
<1>2. /\ cpu[c].node # NoNode /\ RaceTypeOK /\ StructInv /\ s \in Sock /\ pc \in PcOf["ack"]
  BY <1>0, <1>1, BusyFacts DEF RaceInv, StructInv, HandlerInv, HandlerAt, PcOf
<1>3. /\ Others(c) /\ Busy' = Busy /\ cpu'[c].kind = "ack" /\ cpu'[c].sock = s /\ cpu'[c].pc = pc
  BY <1>0, <1>1, <1>2, GotoEffect DEF Moves
<1> HIDE DEF pc
<1>4. /\ \A d \in Busy' : cpu'[d].kind = "close" => CopyAt(d)'
      /\ \A o \in Sock : SentAt(o)'
      /\ \A o \in Sock : o # s => MinAt(o)'
  BY <1>0, <1>1, <1>3, HandlerFrame DEF On
<1>5. EventInv'
  BY <1>0, <1>1, EventFrame DEF RaceInv
<1>6. MinAt(s)'
  <2> SUFFICES ASSUME table[s] # NoNode, Undisturbed(s, {"ack", "open"})
               PROVE  MinAt(s)'
    BY <1>0, <1>1 DEF MinAt, Undisturbed
  <2>1. cpu[c].node = table[s] /\ node[table[s]].srtt_us_min \in Nat
    BY <1>0, <1>1, <1>2, RowOf DEF StructInv, PointerInv, PointerAt
  <2>2. MinAt(s)
    BY <1>0, <1>2 DEF RaceInv
  <2>3. \A d \in Busy : (cpu[d].kind = "ack" /\ cpu[d].sock = s) => d = c
    BY <1>0, <1>1 DEF RaceInv, StructInv, OverlapInv, OverlapOf
  <2>4. ComparingOn(s)' = IF pc = "store_min" THEN {c} ELSE {}
    <3>1. \A d \in ComparingOn(s)' : d = c /\ pc = "store_min"
      BY <1>0, <1>3, <2>3 DEF ComparingOn, Others, Busy, pc
    <3>2. pc = "store_min" => c \in ComparingOn(s)'
      BY <1>0, <1>1, <1>3 DEF ComparingOn
    <3> QED BY <3>1, <3>2
  <2>5. NeverMet(s, {"ack", "open"})' = NeverMet(s, {"ack", "open"})
    BY <1>0, <1>1 DEF NeverMet
  <2>6. "open" \in RunningOn(s)' => "open" \in RunningOn(s)
    BY <1>0, <1>1, <1>3 DEF RunningOn, Others, Busy
  <2>7. /\ RttOf(c) \in Nat /\ RttOf(c)' = RttOf(c)
        /\ RttOf(c) = samples[s][Len(samples[s])]
    BY <1>0, <1>1, <1>2, <1>3, RttFacts DEF RttOf
  <2>8. pc = "store_min" => RttOf(c) <= node[table[s]].srtt_us_min
    BY <2>1, <2>7 DEF pc
  <2>9. pc # "store_min" => node[table[s]].srtt_us_min <= RttOf(c)
    BY <2>1, <2>7 DEF pc
  <2>10. ASSUME NeverMet(s, {"ack", "open"}), NEW i \in 1..Len(samples[s])
         PROVE  \/ node[table[s]].srtt_us_min <= samples[s][i]
                \/ i = Len(samples[s]) /\ ComparingOn(s)' # {}
    BY <2>2, <2>4, <2>7, <2>9, <2>10 DEF MinAt
  <2> QED BY <1>0, <2>2, <2>4, <2>5, <2>6, <2>7, <2>8, <2>10, <1>1 DEF MinAt
<1> QED BY <1>0, <1>4, <1>5, <1>6 DEF SaysInv

LEMMA AckStoreSays ==
  ASSUME RaceInv, NEW c \in Cpu, AckStore(c)
  PROVE  SaysInv'
<1>0. PICK s \in Sock : s = cpu[c].sock
  BY BusyFacts DEF RaceInv, StructInv, AckStore, At
<1>1. /\ c \in Busy /\ cpu[c].kind = "ack" /\ cpu[c].pc \in {"store_min", "store_last"}
      /\ UNCHANGED <<sockState, table, events, asked, samples, met, recycled, evicted>>
  BY DEF AckStore, At, raceHistory
<1>2. /\ cpu[c].node # NoNode /\ RaceTypeOK /\ StructInv /\ s \in Sock
      /\ "store_last" \in PcOf["ack"]
      /\ DOMAIN Empty = {"bytes_sent", "srtt_us_min", "srtt_us_last"}
  BY <1>0, <1>1, BusyFacts, RowFacts DEF RaceInv, StructInv, HandlerInv, HandlerAt, PcOf
<1>3. /\ Others(c)
      /\ c \in Busy' => /\ cpu'[c].kind = cpu[c].kind /\ cpu'[c].sock = cpu[c].sock
                        /\ cpu'[c].pc = "store_last"
  <2>1. CASE Goto(c, "store_last")
    BY <1>0, <2>1, <1>1, <1>2, GotoEffect DEF Moves
  <2>2. CASE Leave(c)
    BY <1>0, <2>2, <1>1, <1>2, LeaveEffect
  <2> QED BY <2>1, <2>2 DEF AckStore
<1>4. /\ samples[s] \in Seq(Rtt) /\ Len(samples[s]) \in Nat \ {0}
      /\ RttOf(c) = samples[s][Len(samples[s])]
      /\ RttOf(c) \in Rtt /\ RttOf(c) \in Nat /\ RttOf(c) \in ToSet(samples[s])
  BY <1>0, <1>1, <1>2, RttFacts
<1>5. PICK field \in {"srtt_us_min", "srtt_us_last"} :
        Store(c, field, RttOf(c)) /\ (cpu[c].pc = "store_min" <=> field = "srtt_us_min")
  BY DEF AckStore, At
<1>6. field \in DOMAIN Empty
  BY <1>0, <1>2
<1>7. \A o \in Sock : SentAt(o)'
  <2> SUFFICES ASSUME NEW o \in Sock PROVE SentAt(o)'
    OBVIOUS
  <2>1. table[o] # NoNode => node'[table[o]].bytes_sent = node[table[o]].bytes_sent
    BY <1>0, <1>1, <1>2, <1>4, <1>5, <1>6, StoreKeeps
  <2> QED BY <1>0, <2>1, <1>1, <1>3, HandlerFrame DEF On
<1>8. \A d \in Busy' : cpu'[d].kind = "close" => CopyAt(d)'
  BY <1>0, <1>1, <1>3, HandlerFrame
<1>9. EventInv'
  BY <1>0, <1>1, EventFrame DEF RaceInv
<1>10. ASSUME NEW o \in Sock, o # s PROVE MinAt(o)'
  <2>1. (table[o] # NoNode /\ Undisturbed(o, {"ack", "open"})) => node'[table[o]] = node[table[o]]
    BY <1>0, <1>1, <1>2, <1>4, <1>5, <1>6, <1>10, StoreKeeps
  <2> QED BY <1>0, <2>1, <1>1, <1>3, <1>10, HandlerFrame DEF On
<1>11. MinAt(s)'
  <2> SUFFICES ASSUME table[s] # NoNode, Undisturbed(s, {"ack", "open"})
               PROVE  MinAt(s)'
    BY <1>0, <1>1 DEF MinAt, Undisturbed
  <2>1. /\ node'[table[s]][field] = RttOf(c)
        /\ field # "srtt_us_min" => node'[table[s]].srtt_us_min = node[table[s]].srtt_us_min
        /\ field # "srtt_us_last" => node'[table[s]].srtt_us_last = node[table[s]].srtt_us_last
        /\ node[table[s]].srtt_us_min \in Nat
    <3>1. node[table[s]].srtt_us_min \in Nat
      BY <1>2, RowOf
    <3>2. /\ field # "srtt_us_min" => node'[table[s]].srtt_us_min = node[table[s]].srtt_us_min
          /\ field # "srtt_us_last" => node'[table[s]].srtt_us_last = node[table[s]].srtt_us_last
      BY <1>1, <1>2, <1>4, <1>5, <1>6, StoreKeeps
    <3>3. node'[table[s]][field] = RttOf(c)
      BY <1>0, <1>1, <1>2, <1>4, <1>5, <1>6, StoreKeeps
    <3> QED BY <3>1, <3>2, <3>3
  <2>2. MinAt(s)
    BY <1>0, <1>2 DEF RaceInv
  <2>3. \A d \in Busy : (cpu[d].kind = "ack" /\ cpu[d].sock = s) => d = c
    BY <1>0, <1>1 DEF RaceInv, StructInv, OverlapInv, OverlapOf
  <2>4. ComparingOn(s)' = {}
    <3> SUFFICES ASSUME NEW d \in ComparingOn(s)'
                 PROVE  FALSE
      OBVIOUS
    <3>1. /\ d \in Busy' /\ cpu'[d].kind = "ack" /\ cpu'[d].sock = s
          /\ cpu'[d].pc \in {"compare", "store_min"}
      BY DEF ComparingOn
    <3>2. d # c /\ d \in Cpu
      BY <3>1, <1>3 DEF Busy
    <3>3. d \in Busy /\ cpu'[d] = cpu[d]
      BY <3>1, <3>2, <1>3 DEF Busy, Others
    <3> QED BY <3>1, <3>2, <3>3, <2>3
  <2>5. NeverMet(s, {"ack", "open"})' = NeverMet(s, {"ack", "open"})
    BY <1>0, <1>1 DEF NeverMet
  <2>6. "open" \in RunningOn(s)' => "open" \in RunningOn(s)
    BY <1>0, <1>1, <1>3 DEF RunningOn, Others, Busy
  <2>7. \A i \in 1..Len(samples[s]) : samples[s][i] \in Nat
    <3>1. Rtt \subseteq 1..(U32Max - 1) /\ U32Max \in Nat
      BY RaceAssumption
    <3>2. 1..(U32Max - 1) \subseteq Nat
      BY <3>1
    <3>3. \A i \in 1..Len(samples[s]) : samples[s][i] \in Rtt
      BY <1>4
    <3> QED BY <3>1, <3>2, <3>3
  <2>8. CASE cpu[c].pc = "store_min"
    <3>1. /\ node'[table[s]].srtt_us_min = RttOf(c)
          /\ node'[table[s]].srtt_us_last = node[table[s]].srtt_us_last
      BY <1>0, <2>1, <2>8, <1>2, <1>5
    <3>2. c \in ComparingOn(s)
      BY <1>0, <1>1, <2>8 DEF ComparingOn
    <3>3. ASSUME NeverMet(s, {"ack", "open"}), NEW i \in 1..Len(samples[s])
          PROVE  RttOf(c) <= samples[s][i]
      <4>1. RttOf(c) <= node[table[s]].srtt_us_min
        BY <3>2, <3>3, <2>2, <2>8 DEF MinAt
      <4>2. node[table[s]].srtt_us_min <= samples[s][i] \/ i = Len(samples[s])
        BY <3>3, <2>2 DEF MinAt
      <4> QED BY <1>0, <4>1, <4>2, <2>1, <2>7, <1>4
    <3> QED BY <1>0, <3>1, <3>3, <2>2, <2>4, <2>5, <2>6, <1>1, <1>4 DEF MinAt
  <2>9. CASE cpu[c].pc = "store_last"
    <3>1. /\ node'[table[s]].srtt_us_last = RttOf(c)
          /\ node'[table[s]].srtt_us_min = node[table[s]].srtt_us_min
      BY <1>0, <2>1, <2>9, <1>2, <1>5
    <3>2. ComparingOn(s) = {}
      BY <2>3, <2>9 DEF ComparingOn
    <3> QED BY <1>0, <3>1, <3>2, <2>2, <2>4, <2>5, <2>6, <1>1, <1>4 DEF MinAt
  <2> QED BY <1>0, <2>8, <2>9, <1>1
<1> QED BY <1>7, <1>8, <1>9, <1>10, <1>11 DEF SaysInv

LEMMA CloseCopySays ==
  ASSUME RaceInv, NEW c \in Cpu, CloseCopy(c)
  PROVE  SaysInv'
<1>1. /\ c \in Busy /\ cpu[c].kind = "close"
      /\ UNCHANGED <<sockState, table, node, events, asked, samples, met, recycled, evicted>>
  BY DEF CloseCopy, At, raceHistory
<1>2. PICK s \in Sock : s = cpu[c].sock
  BY <1>1, BusyFacts DEF RaceInv, StructInv
<1>3. /\ cpu[c].node # NoNode /\ RaceTypeOK /\ StructInv
      /\ DOMAIN Empty = {"bytes_sent", "srtt_us_min", "srtt_us_last"}
      /\ {"copy_min", "copy_last", "submit"} \subseteq PcOf["close"]
  <2>1. RaceTypeOK /\ StructInv /\ HandlerInv
    BY DEF RaceInv, StructInv
  <2>2. cpu[c].pc # "lookup"
    BY DEF CloseCopy, At
  <2> QED BY <2>1, <2>2, <1>1, RowFacts DEF HandlerInv, HandlerAt, PcOf
<1>4. PICK field \in DOMAIN Empty, pc \in {"copy_min", "copy_last", "submit"} :
        /\ Load(c, field, pc)
        /\ \/ cpu[c].pc = "copy_sent" /\ field = "bytes_sent" /\ pc = "copy_min"
           \/ cpu[c].pc = "copy_min" /\ field = "srtt_us_min" /\ pc = "copy_last"
           \/ cpu[c].pc = "copy_last" /\ field = "srtt_us_last" /\ pc = "submit"
  BY <1>3 DEF CloseCopy, At
<1>5. /\ Others(c) /\ Busy' = Busy /\ cpu'[c].kind = "close" /\ cpu'[c].sock = s /\ cpu'[c].pc = pc
      /\ cpu'[c].row[field] = node[cpu[c].node][field]
      /\ \A f \in DOMAIN Empty : f # field => cpu'[c].row[f] = cpu[c].row[f]
  <2>1. pc \in PcOf[cpu[c].kind]
    BY <1>1, <1>3
  <2> QED BY <1>1, <1>2, <1>3, <1>4, <2>1, LoadEffect DEF Moves
<1>6. /\ \A o \in Sock : SentAt(o)' /\ MinAt(o)'
      /\ \A d \in Busy' : (cpu'[d].kind = "close" /\ d # c) => CopyAt(d)'
  BY <1>1, <1>2, <1>5, HandlerFrame DEF On
<1>7. EventInv'
  BY <1>1, EventFrame DEF RaceInv
<1>8. CopyAt(c)'
  <2> SUFFICES ASSUME table[s] # NoNode
               PROVE  CopyAt(c)'
    BY <1>1, <1>5 DEF CopyAt
  <2>1. node[table[s]] = node[cpu[c].node]
    BY <1>1, <1>2, <1>3 DEF StructInv, PointerInv, PointerAt
  <2>2. SentAt(s) /\ MinAt(s) /\ CopyAt(c)
    BY <1>1 DEF RaceInv
  <2>3. SendsUnderWay(s) = {}
    BY <1>1, <1>2, <1>3 DEF SendsUnderWay, StructInv, OverlapInv, OverlapOf
  <2>4. NeverMet(s, {"ack", "close"}) => ComparingOn(s) = {}
    <3> SUFFICES ASSUME NEW d \in ComparingOn(s)
                 PROVE  {"ack", "close"} \in met[s]
      BY DEF NeverMet
    <3>1. d \in Busy /\ cpu[d].kind = "ack" /\ cpu[d].sock = s
      BY DEF ComparingOn
    <3>2. d # c /\ {cpu[d].kind, cpu[c].kind} \in met[s]
      BY <3>1, <1>1, <1>2, <1>3 DEF StructInv, OverlapInv, OverlapOf
    <3> QED BY <3>1, <3>2, <1>1
  <2>5. /\ Undisturbed(s, {"send", "open"})' = Undisturbed(s, {"send", "open"})
        /\ Undisturbed(s, {"ack", "open"})' = Undisturbed(s, {"ack", "open"})
        /\ \A kinds : NeverMet(s, kinds)' = NeverMet(s, kinds)
    BY <1>1 DEF Undisturbed, NeverMet
  <2>6. /\ samples[s] \in Seq(Rtt) /\ node[table[s]].srtt_us_min \in Nat
        /\ ToSet(samples[s]) = {samples[s][i] : i \in 1..Len(samples[s])}
    <3>1. samples[s] \in Seq(Rtt) /\ node[table[s]].srtt_us_min \in Nat
      BY <1>3, RowOf DEF RaceTypeOK
    <3> QED BY <3>1 DEF ToSet
  <2>7. CASE pc = "copy_min"
    <3>1. cpu'[c].row.bytes_sent = node[table[s]].bytes_sent
      BY <2>1, <2>7, <1>4, <1>5
    <3> QED BY <3>1, <2>2, <2>3, <2>5, <2>7, <1>1, <1>5 DEF CopyAt, SentAt
  <2>8. CASE pc = "copy_last"
    <3>1. /\ cpu'[c].row.srtt_us_min = node[table[s]].srtt_us_min
          /\ cpu'[c].row.bytes_sent = cpu[c].row.bytes_sent /\ cpu[c].pc = "copy_min"
      BY <2>1, <2>8, <1>3, <1>4, <1>5
    <3>2. ASSUME Undisturbed(s, {"ack", "open"}), NeverMet(s, {"ack", "close"}),
                 NeverMet(s, {"ack", "open"}), NEW rtt \in ToSet(samples[s])
          PROVE  node[table[s]].srtt_us_min <= rtt
      <4>1. PICK i \in 1..Len(samples[s]) : rtt = samples[s][i]
        BY <2>6
      <4> QED BY <3>2, <4>1, <2>2, <2>4 DEF MinAt
    <3> QED BY <3>1, <3>2, <2>2, <2>5, <2>8, <1>1, <1>2, <1>5 DEF CopyAt
  <2>9. CASE pc = "submit"
    <3>1. /\ cpu'[c].row.srtt_us_last = node[table[s]].srtt_us_last
          /\ cpu'[c].row.srtt_us_min = cpu[c].row.srtt_us_min
          /\ cpu'[c].row.bytes_sent = cpu[c].row.bytes_sent /\ cpu[c].pc = "copy_last"
      BY <2>1, <2>9, <1>3, <1>4, <1>5
    <3>2. Undisturbed(s, {"ack", "open"}) =>
            node[table[s]].srtt_us_last \in ToSet(samples[s]) \cup {0}
      BY <2>2 DEF MinAt
    <3> QED BY <3>1, <3>2, <2>2, <2>5, <2>9, <1>1, <1>2, <1>5 DEF CopyAt
  <2> QED BY <2>7, <2>8, <2>9
<1> QED BY <1>6, <1>7, <1>8 DEF SaysInv

LEMMA CloseSubmitSays ==
  ASSUME RaceInv, NEW c \in Cpu, CloseSubmit(c)
  PROVE  SaysInv'
<1>1. /\ c \in Busy /\ cpu[c].kind = "close" /\ cpu[c].pc = "submit" /\ Goto(c, "remove")
      /\ UNCHANGED <<sockState, table, node, asked, samples, met, recycled, evicted>>
  BY DEF CloseSubmit, At, raceHistory
<1>2. PICK s \in Sock : s = cpu[c].sock
  BY <1>1, BusyFacts DEF RaceInv, StructInv
<1>3. cpu[c].node # NoNode /\ RaceTypeOK /\ StructInv /\ "remove" \in PcOf["close"]
  BY <1>1 DEF RaceInv, StructInv, HandlerInv, HandlerAt, PcOf
<1>4. /\ Others(c) /\ Busy' = Busy /\ cpu'[c].kind = "close" /\ cpu'[c].sock = s
      /\ cpu'[c].pc = "remove"
  BY <1>1, <1>2, <1>3, GotoEffect DEF Moves
<1>5. /\ \A o \in Sock : SentAt(o)' /\ MinAt(o)'
      /\ \A d \in Busy' : (cpu'[d].kind = "close" /\ d # c) => CopyAt(d)'
  BY <1>1, <1>2, <1>4, HandlerFrame DEF On
<1>6. CopyAt(c)'
  BY <1>4 DEF CopyAt
<1> DEFINE own == /\ s \notin evicted
                  /\ \A h \in recycled[cpu[c].node] : h[1] = "close"
           event == [sock |-> s, row |-> cpu[c].row, own |-> own]
<1>7. events' = events \cup {event}
  BY <1>2 DEF CloseSubmit
<1>8. /\ event.sock = s /\ event.row = cpu[c].row /\ event.own = own
  OBVIOUS
<1>9. own => /\ table[s] # NoNode
             /\ Undisturbed(s, {"send", "open"}) /\ Undisturbed(s, {"ack", "open"})
  <2> SUFFICES ASSUME own
               PROVE  /\ table[s] # NoNode /\ Undisturbed(s, {"send", "open"})
                      /\ Undisturbed(s, {"ack", "open"})
    OBVIOUS
  <2>1. sockState[s] = "closing"
    BY <1>1, <1>2, <1>3 DEF StructInv, HandlerInv, HandlerAt
  <2>2. table[s] # NoNode
    BY <2>1, <1>3 DEF StructInv, StateInv
  <2>3. table[s] = cpu[c].node
    BY <2>2, <1>1, <1>2, <1>3 DEF StructInv, PointerInv, PointerAt
  <2> QED BY <2>2, <2>3 DEF Undisturbed
<1>10. sockState[s] = "closing"
  BY <1>1, <1>2, <1>3 DEF StructInv, HandlerInv, HandlerAt
<1> HIDE DEF own, event
<1>11. event.own =>
         /\ (NeverMet(s, {"send"}) /\ NeverMet(s, {"send", "open"})) =>
              event.row.bytes_sent = asked[s]
         /\ (NeverMet(s, {"ack", "close"}) /\ NeverMet(s, {"ack", "open"})) =>
              event.row.srtt_us_last = 0 \/ event.row.srtt_us_min <= event.row.srtt_us_last
  <2>1. CopyAt(c)
    BY <1>1 DEF RaceInv
  <2> QED BY <2>1, <1>1, <1>2, <1>8, <1>9 DEF CopyAt
<1>12. EventInv'
  <2>1. \A o \in Sock : \A kinds : NeverMet(o, kinds)' = NeverMet(o, kinds)
    BY <1>1 DEF NeverMet
  <2>2. \A e \in events' : e.sock \in Sock /\ sockState'[e.sock] \in {"closing", "closed"}
    BY <1>1, <1>7, <1>8, <1>10 DEF RaceInv, EventInv
  <2>3. ASSUME NEW e \in events', e.own
        PROVE  /\ (NeverMet(e.sock, {"send"}) /\ NeverMet(e.sock, {"send", "open"})) =>
                    e.row.bytes_sent = asked[e.sock]
               /\ (NeverMet(e.sock, {"ack", "close"}) /\ NeverMet(e.sock, {"ack", "open"})) =>
                    e.row.srtt_us_last = 0 \/ e.row.srtt_us_min <= e.row.srtt_us_last
    <3>1. CASE e \in events
      BY <2>3, <3>1 DEF RaceInv, EventInv, EventUnlessRaced
    <3>2. CASE e = event
      BY <2>3, <3>2, <1>8, <1>11
    <3> QED BY <3>1, <3>2, <1>7
  <2>4. EventUnlessRaced'
    BY <2>1, <2>2, <2>3, <1>1 DEF EventUnlessRaced
  <2> QED BY <2>2, <2>4 DEF EventInv
<1> QED BY <1>5, <1>6, <1>12 DEF SaysInv

LEMMA CloseRemoveSays ==
  ASSUME RaceInv, NEW c \in Cpu, CloseRemove(c)
  PROVE  SaysInv'
<1>1. c \in Busy /\ cpu[c].kind = "close" /\ Leave(c) /\ RaceTypeOK /\ StructInv
  BY DEF CloseRemove, At, RaceInv, StructInv
<1>2. PICK s \in Sock : s = cpu[c].sock
  BY <1>1, BusyFacts
<1>3. /\ table' = [table EXCEPT ![s] = NoNode]
      /\ sockState' = [sockState EXCEPT ![s] = "closed"]
      /\ UNCHANGED <<node, events, asked, samples, met, recycled, evicted>>
  BY <1>2 DEF CloseRemove, raceHistory
<1>4. Others(c) /\ Busy' = Busy \ {c}
  BY <1>1, LeaveEffect
<1>5. \A o \in Sock : table'[o] # NoNode =>
        table'[o] = table[o] /\ recycled'[table[o]] = recycled[table[o]]
  BY <1>1, <1>3 DEF RaceTypeOK
<1>6. ASSUME NEW o \in Sock PROVE SentAt(o)' /\ MinAt(o)'
  <2>1. /\ ~On(c, "send", o) /\ ~On(c, "send", o)' /\ ~On(c, "ack", o) /\ ~On(c, "ack", o)'
        /\ ~On(c, "open", o)' /\ SentAt(o) /\ MinAt(o)
    BY <1>1, <1>4 DEF On, RaceInv
  <2> QED BY <2>1, <1>3, <1>4, <1>5, SentFrame, MinFrame
<1>7. ASSUME NEW d \in Busy', cpu'[d].kind = "close" PROVE CopyAt(d)'
  <2>1. d \in Busy /\ cpu'[d] = cpu[d] /\ cpu[d].sock \in Sock
    BY <1>1, <1>4, BusyFacts DEF Others, Busy
  <2>2. CopyAt(d)
    BY <2>1, <1>7 DEF RaceInv
  <2> QED BY <2>1, <2>2, <1>3, <1>5, CopyFrame
<1>8. EventInv'
  <2>1. \A o \in Sock : sockState[o] \in {"closing", "closed"} =>
          sockState'[o] \in {"closing", "closed"} /\ asked'[o] = asked[o]
    BY <1>1, <1>3 DEF RaceTypeOK
  <2> QED BY <2>1, <1>3, EventFrame DEF RaceInv
<1> QED BY <1>6, <1>7, <1>8 DEF SaysInv

LEMMA EnterFacts ==
  ASSUME RaceTypeOK, NEW c \in Cpu, cpu[c] = Idle, NEW s \in Sock, NEW kind \in Kind,
         NEW pc \in PcOf[kind], NEW n \in Node \cup {NoNode}, Enter(c, kind, s, n, pc)
  PROVE  /\ c \notin Busy /\ Others(c) /\ Busy' = Busy \cup {c}
         /\ cpu'[c].kind = kind /\ cpu'[c].sock = s /\ cpu'[c].pc = pc
         /\ \A o \in Sock : met[o] \subseteq met'[o]
         /\ \A d \in Busy : cpu[d].sock = s => {kind, cpu[d].kind} \in met'[s]
<1> DEFINE h == [kind |-> kind, sock |-> s, node |-> n, pc |-> pc, row |-> Empty]
<1>1. /\ cpu'[c] = h /\ Others(c) /\ Busy' = Busy \cup {c}
      /\ \A o \in Sock : met[o] \subseteq met'[o]
      /\ \A d \in Busy : cpu[d].sock = s => {kind, cpu[d].kind} \in met'[s]
  BY EnterEffect
<1>2. h.kind = kind /\ h.sock = s /\ h.pc = pc
  OBVIOUS
<1> HIDE DEF h
<1> QED BY <1>1, <1>2 DEF Busy

LEMMA OpenSays ==
  ASSUME RaceInv, NEW c \in Cpu, NEW s \in Sock, Open(c, s)
  PROVE  SaysInv'
<1>1. /\ cpu[c] = Idle /\ sockState[s] = "new" /\ sockState' = [sockState EXCEPT ![s] = "open"]
      /\ Enter(c, "open", s, NoNode, "lookup") /\ UNCHANGED <<events, asked, samples>>
  BY DEF Open
<1>2. RaceTypeOK /\ StructInv /\ "open" \in Kind /\ "lookup" \in PcOf["open"]
  BY DEF RaceInv, StructInv, Kind, PcOf
<1>3. /\ c \notin Busy /\ Others(c) /\ Busy' = Busy \cup {c}
      /\ cpu'[c].kind = "open" /\ cpu'[c].sock = s
      /\ \A o \in Sock : met[o] \subseteq met'[o]
  BY <1>1, <1>2, EnterFacts
<1>4. PICK n \in Node :
        /\ table' = [o \in Sock |-> IF o = s THEN n ELSE IF table[o] = n THEN NoNode ELSE table[o]]
        /\ node' = [node EXCEPT ![n] = Empty]
        /\ recycled' = [recycled EXCEPT ![n] = Holding(n)]
  BY DEF Open, Insert
<1>5. \A o \in Sock : (o # s /\ table'[o] # NoNode) =>
        /\ table'[o] = table[o] /\ recycled'[table[o]] = recycled[table[o]]
        /\ node'[table[o]] = node[table[o]]
  BY <1>2, <1>4 DEF RaceTypeOK
<1>6. \A d \in Busy : cpu[d].sock # s /\ cpu[d].sock \in Sock /\ cpu'[d] = cpu[d] /\ d # c
  <2>1. \A d \in Busy : d \in Cpu /\ cpu[d].sock \in Sock /\ cpu[d].kind \in Kind
    BY <1>2, BusyFacts
  <2>2. \A d \in Busy : cpu[d].sock # s
    BY <2>1, <1>1, <1>2 DEF StructInv, HandlerInv, HandlerAt, Kind
  <2> QED BY <2>1, <2>2, <1>3 DEF Others
<1>7. ASSUME NEW o \in Sock, o # s PROVE SentAt(o)' /\ MinAt(o)'
  <2>1. /\ ~On(c, "send", o) /\ ~On(c, "send", o)' /\ ~On(c, "ack", o) /\ ~On(c, "ack", o)'
        /\ ~On(c, "open", o)' /\ SentAt(o) /\ MinAt(o)
    BY <1>3, <1>7 DEF On, RaceInv
  <2> QED BY <2>1, <1>1, <1>3, <1>5, <1>7, SentFrame, MinFrame
<1>8. SendsUnderWay(s)' = {} /\ ComparingOn(s)' = {}
  BY <1>3, <1>6 DEF SendsUnderWay, ComparingOn
<1>9. asked[s] = 0 /\ samples[s] = <<>>
  BY <1>1, <1>2 DEF StructInv, StateInv
<1>10. /\ node'[table'[s]].bytes_sent = 0 /\ node'[table'[s]].srtt_us_min = U32Max
       /\ node'[table'[s]].srtt_us_last = 0
  BY <1>2, <1>4, RowFacts DEF RaceTypeOK
<1>11. SentAt(s)'
  <2>1. Cardinality({}) = 0
    BY FS_EmptySet
  <2> QED BY <2>1, <1>1, <1>8, <1>9, <1>10 DEF SentAt
<1>12. MinAt(s)'
  <2>1. Len(samples[s]) = 0
    BY <1>9
  <2> QED BY <2>1, <1>1, <1>8, <1>9, <1>10 DEF MinAt
<1>13. ASSUME NEW d \in Busy', cpu'[d].kind = "close" PROVE CopyAt(d)'
  <2>1. d \in Busy
    BY <1>3, <1>13
  <2>2. CopyAt(d) /\ cpu[d].sock # s /\ cpu[d].sock \in Sock /\ cpu'[d] = cpu[d]
    BY <2>1, <1>6, <1>13 DEF RaceInv
  <2> QED BY <2>1, <2>2, <1>1, <1>3, <1>5, CopyFrame
<1>14. EventInv'
  <2>1. \A o \in Sock : sockState[o] \in {"closing", "closed"} =>
          sockState'[o] \in {"closing", "closed"} /\ asked'[o] = asked[o]
    BY <1>1, <1>2 DEF RaceTypeOK
  <2> QED BY <2>1, <1>1, <1>3, EventFrame DEF RaceInv
<1> QED BY <1>7, <1>11, <1>12, <1>13, <1>14 DEF SaysInv

LEMMA SendSays ==
  ASSUME RaceInv, NEW c \in Cpu, NEW s \in Sock, Send(c, s)
  PROVE  SaysInv'
<1>1. /\ cpu[c] = Idle /\ table[s] # NoNode /\ sockState[s] = "open"
      /\ Enter(c, "send", s, table[s], "load") /\ asked' = [asked EXCEPT ![s] = @ + 1]
      /\ UNCHANGED <<sockState, table, node, events, samples, recycled, evicted>>
  BY DEF Send
<1>2. /\ RaceTypeOK /\ StructInv /\ "send" \in Kind /\ "load" \in PcOf["send"]
      /\ table[s] \in Node \cup {NoNode}
  BY DEF RaceInv, StructInv, RaceTypeOK, Kind, PcOf
<1>3. /\ c \notin Busy /\ Others(c) /\ Busy' = Busy \cup {c}
      /\ cpu'[c].kind = "send" /\ cpu'[c].sock = s /\ cpu'[c].pc = "load"
      /\ \A o \in Sock : met[o] \subseteq met'[o]
      /\ \A d \in Busy : cpu[d].sock = s => {"send", cpu[d].kind} \in met'[s]
  BY <1>1, <1>2, EnterFacts
<1>4. asked'[s] = asked[s] + 1 /\ \A o \in Sock : o # s => asked'[o] = asked[o]
  BY <1>1, <1>2 DEF RaceTypeOK
<1>5. ASSUME NEW o \in Sock PROVE MinAt(o)'
  <2>1. ~On(c, "ack", o) /\ ~On(c, "ack", o)' /\ ~On(c, "open", o)' /\ MinAt(o)
    BY <1>3 DEF On, RaceInv
  <2> QED BY <2>1, <1>1, <1>3, MinFrame
<1>6. ASSUME NEW o \in Sock, o # s PROVE SentAt(o)'
  <2>1. ~On(c, "send", o) /\ ~On(c, "send", o)' /\ ~On(c, "open", o)' /\ SentAt(o)
    BY <1>3, <1>6 DEF On, RaceInv
  <2> QED BY <2>1, <1>1, <1>3, <1>4, <1>6, SentFrame
<1>7. SentAt(s)'
  <2> SUFFICES ASSUME Undisturbed(s, {"send", "open"})
               PROVE  SentAt(s)'
    BY <1>1 DEF SentAt, Undisturbed
  <2>1. SentAt(s)
    BY DEF RaceInv
  <2>2. /\ SendsUnderWay(s)' = SendsUnderWay(s) \cup {c} /\ c \notin SendsUnderWay(s)
        /\ \A d \in SendsUnderWay(s) : cpu'[d] = cpu[d]
    BY <1>3 DEF SendsUnderWay, Others, Busy
  <2>3. /\ Cardinality(SendsUnderWay(s)) \in Nat /\ asked[s] \in Nat
        /\ Cardinality(SendsUnderWay(s)') = Cardinality(SendsUnderWay(s)) + 1
    BY <1>2, <2>2, SendsFacts, FS_AddElement
  <2>4. asked'[s] - Cardinality(SendsUnderWay(s)') = asked[s] - Cardinality(SendsUnderWay(s))
    BY <2>3, <1>4
  <2>5. NeverMet(s, {"send"})' => (NeverMet(s, {"send"}) /\ SendsUnderWay(s) = {})
    <3>1. NeverMet(s, {"send"})' => NeverMet(s, {"send"})
      BY <1>3 DEF NeverMet
    <3>2. ASSUME NEW d \in SendsUnderWay(s) PROVE {"send"} \in met'[s]
      <4>1. {"send", cpu[d].kind} \in met'[s] /\ cpu[d].kind = "send"
        BY <1>3 DEF SendsUnderWay
      <4>2. {"send", "send"} = {"send"}
        OBVIOUS
      <4> QED BY <4>1, <4>2
    <3> QED BY <3>1, <3>2 DEF NeverMet
  <2>6. NeverMet(s, {"send", "open"})' =>
          (NeverMet(s, {"send", "open"}) /\ "open" \notin RunningOn(s)')
    <3>1. NeverMet(s, {"send", "open"})' => NeverMet(s, {"send", "open"})
      BY <1>3 DEF NeverMet
    <3>2. ASSUME "open" \in RunningOn(s)' PROVE {"send", "open"} \in met'[s]
      <4>1. PICK d \in Busy' : cpu'[d].sock = s /\ cpu'[d].kind = "open"
        BY <3>2 DEF RunningOn
      <4>2. d # c /\ d \in Busy /\ cpu'[d] = cpu[d]
        BY <4>1, <1>3 DEF Others, Busy
      <4> QED BY <4>1, <4>2, <1>3
    <3> QED BY <3>1, <3>2 DEF NeverMet
  <2>7. ASSUME NeverMet(s, {"send"}), NeverMet(s, {"send", "open"}), SendsUnderWay(s) = {}
        PROVE  node[table[s]].bytes_sent = asked'[s] - 1
    BY <2>1, <2>3, <2>7, <1>1, <1>4 DEF SentAt
  <2> QED BY <2>1, <2>2, <2>4, <2>5, <2>6, <2>7, <1>1, <1>3 DEF SentAt
<1>8. ASSUME NEW d \in Busy', cpu'[d].kind = "close" PROVE CopyAt(d)'
  <2>1. d \in Busy /\ cpu'[d] = cpu[d] /\ cpu[d].sock \in Sock
    BY <1>2, <1>3, <1>8, BusyFacts DEF Others, Busy
  <2>2. CopyAt(d) /\ cpu[d].sock # s
    BY <2>1, <1>1, <1>2, <1>8 DEF RaceInv, StructInv, HandlerInv, HandlerAt
  <2> QED BY <2>1, <2>2, <1>1, <1>3, <1>4, CopyFrame
<1>9. EventInv'
  <2>1. \A o \in Sock : sockState[o] \in {"closing", "closed"} => o # s
    BY <1>1
  <2> QED BY <2>1, <1>1, <1>3, <1>4, EventFrame DEF RaceInv
<1> QED BY <1>5, <1>6, <1>7, <1>8, <1>9 DEF SaysInv

LEMMA AckSays ==
  ASSUME RaceInv, NEW c \in Cpu, NEW s \in Sock, NEW rtt \in Rtt, Ack(c, s, rtt)
  PROVE  SaysInv'
<1>1. /\ cpu[c] = Idle /\ table[s] # NoNode
      /\ \A d \in Busy : cpu[d].sock = s => cpu[d].kind # "ack"
      /\ Enter(c, "ack", s, table[s], "compare")
      /\ samples' = [samples EXCEPT ![s] = Append(@, rtt)]
      /\ UNCHANGED <<sockState, table, node, events, asked, recycled, evicted>>
  BY DEF Ack, RunningOn
<1>2. /\ RaceTypeOK /\ StructInv /\ "ack" \in Kind /\ "compare" \in PcOf["ack"]
      /\ table[s] \in Node \cup {NoNode}
  BY DEF RaceInv, StructInv, RaceTypeOK, Kind, PcOf
<1>3. /\ c \notin Busy /\ Others(c) /\ Busy' = Busy \cup {c}
      /\ cpu'[c].kind = "ack" /\ cpu'[c].sock = s /\ cpu'[c].pc = "compare"
      /\ \A o \in Sock : met[o] \subseteq met'[o]
      /\ \A d \in Busy : cpu[d].sock = s => {"ack", cpu[d].kind} \in met'[s]
  BY <1>1, <1>2, EnterFacts
<1>4. /\ samples[s] \in Seq(Rtt) /\ samples'[s] = Append(samples[s], rtt)
      /\ \A o \in Sock : o # s => samples'[o] = samples[o]
  BY <1>1, <1>2 DEF RaceTypeOK
<1>5. ASSUME NEW o \in Sock PROVE SentAt(o)'
  <2>1. ~On(c, "send", o) /\ ~On(c, "send", o)' /\ ~On(c, "open", o)' /\ SentAt(o)
    BY <1>3 DEF On, RaceInv
  <2> QED BY <2>1, <1>1, <1>3, SentFrame
<1>6. ASSUME NEW o \in Sock, o # s PROVE MinAt(o)'
  <2>1. ~On(c, "ack", o) /\ ~On(c, "ack", o)' /\ ~On(c, "open", o)' /\ MinAt(o)
    BY <1>3, <1>6 DEF On, RaceInv
  <2> QED BY <2>1, <1>1, <1>3, <1>4, <1>6, MinFrame
<1>7. MinAt(s)'
  <2> SUFFICES ASSUME Undisturbed(s, {"ack", "open"})
               PROVE  MinAt(s)'
    BY <1>1 DEF MinAt, Undisturbed
  <2>1. MinAt(s)
    BY DEF RaceInv
  <2>2. ComparingOn(s) = {}
    BY <1>1 DEF ComparingOn
  <2>3. c \in ComparingOn(s)' /\ \A d \in ComparingOn(s)' : cpu'[d].pc # "store_min"
    <3>1. c \in ComparingOn(s)'
      BY <1>3 DEF ComparingOn
    <3>2. ASSUME NEW d \in ComparingOn(s)', d # c PROVE FALSE
      <4>1. d \in Busy /\ cpu'[d] = cpu[d] /\ cpu[d].sock = s /\ cpu[d].kind = "ack"
        BY <3>2, <1>3 DEF ComparingOn, Others, Busy
      <4> QED BY <4>1, <1>1
    <3> QED BY <3>1, <3>2, <1>3
  <2>4. /\ Len(samples'[s]) = Len(samples[s]) + 1 /\ Len(samples[s]) \in Nat
        /\ \A i \in 1..Len(samples[s]) : samples'[s][i] = samples[s][i]
    BY <1>4
  <2>5. ToSet(samples[s]) \subseteq ToSet(samples'[s])
    <3>1. samples'[s] \in Seq(Rtt)
      BY <1>4
    <3> QED BY <3>1, <2>4, <1>4 DEF ToSet
  <2>6. NeverMet(s, {"ack", "open"})' =>
          (NeverMet(s, {"ack", "open"}) /\ "open" \notin RunningOn(s)')
    <3>1. NeverMet(s, {"ack", "open"})' => NeverMet(s, {"ack", "open"})
      BY <1>3 DEF NeverMet
    <3>2. ASSUME "open" \in RunningOn(s)' PROVE {"ack", "open"} \in met'[s]
      <4>1. PICK d \in Busy' : cpu'[d].sock = s /\ cpu'[d].kind = "open"
        BY <3>2 DEF RunningOn
      <4>2. d # c /\ d \in Busy /\ cpu'[d] = cpu[d]
        BY <4>1, <1>3 DEF Others, Busy
      <4> QED BY <4>1, <4>2, <1>3
    <3> QED BY <3>1, <3>2 DEF NeverMet
  <2>7. ASSUME NeverMet(s, {"ack", "open"}), NEW i \in 1..Len(samples'[s])
        PROVE  \/ node[table[s]].srtt_us_min <= samples'[s][i]
               \/ i = Len(samples'[s]) /\ ComparingOn(s)' # {}
    <3>1. CASE i = Len(samples'[s])
      BY <3>1, <2>3
    <3>2. CASE i # Len(samples'[s])
      <4>1. i \in 1..Len(samples[s])
        BY <3>2, <2>4, <2>7
      <4> QED BY <4>1, <2>1, <2>2, <2>4, <2>7, <1>1 DEF MinAt
    <3> QED BY <3>1, <3>2
  <2>8. /\ node[table[s]].srtt_us_min \in ToSet(samples'[s]) \cup {U32Max}
        /\ node[table[s]].srtt_us_last \in ToSet(samples'[s]) \cup {0}
    BY <2>1, <2>5, <1>1 DEF MinAt
  <2> QED BY <2>3, <2>6, <2>7, <2>8, <1>1 DEF MinAt
<1>8. ASSUME NEW d \in Busy', cpu'[d].kind = "close" PROVE CopyAt(d)'
  <2>1. d \in Busy /\ cpu'[d] = cpu[d] /\ cpu[d].sock \in Sock
    BY <1>2, <1>3, <1>8, BusyFacts DEF Others, Busy
  <2>2. CopyAt(d)
    BY <2>1, <1>8 DEF RaceInv
  <2>3. samples'[cpu[d].sock] = samples[cpu[d].sock] \/ {"ack", "close"} \in met'[cpu[d].sock]
    BY <2>1, <1>3, <1>4, <1>8
  <2> QED BY <2>1, <2>2, <2>3, <1>1, <1>3, CopyFrame
<1>9. EventInv'
  BY <1>1, <1>3, EventFrame DEF RaceInv
<1> QED BY <1>5, <1>6, <1>7, <1>8, <1>9 DEF SaysInv

LEMMA CloseSays ==
  ASSUME RaceInv, NEW c \in Cpu, NEW s \in Sock, Close(c, s)
  PROVE  SaysInv'
<1>1. /\ cpu[c] = Idle /\ sockState[s] = "open"
      /\ \E state \in {"closing", "closed"} : sockState' = [sockState EXCEPT ![s] = state]
      /\ UNCHANGED <<table, node, events, asked, samples, recycled, evicted>>
  BY DEF Close
<1>2. RaceTypeOK /\ StructInv /\ table[s] \in Node \cup {NoNode}
  BY DEF RaceInv, StructInv, RaceTypeOK
<1>3. /\ c \notin Busy /\ Others(c) /\ \A o \in Sock : met[o] \subseteq met'[o]
      /\ c \in Busy' => cpu'[c].kind = "close" /\ cpu'[c].pc = "copy_sent"
  <2>1. CASE table[s] = NoNode
    BY <2>1, <1>1 DEF Close, Others, Busy
  <2>2. CASE table[s] # NoNode
    <3>1. /\ Enter(c, "close", s, table[s], "copy_sent")
          /\ "close" \in Kind /\ "copy_sent" \in PcOf["close"]
      BY <2>2 DEF Close, Kind, PcOf
    <3> QED BY <3>1, <1>1, <1>2, EnterFacts
  <2> QED BY <2>1, <2>2
<1>4. ASSUME NEW o \in Sock PROVE SentAt(o)' /\ MinAt(o)'
  <2>1. /\ ~On(c, "send", o) /\ ~On(c, "send", o)' /\ ~On(c, "ack", o) /\ ~On(c, "ack", o)'
        /\ ~On(c, "open", o)' /\ SentAt(o) /\ MinAt(o)
    BY <1>3 DEF On, RaceInv
  <2> QED BY <2>1, <1>1, <1>3, SentFrame, MinFrame
<1>5. ASSUME NEW d \in Busy', cpu'[d].kind = "close" PROVE CopyAt(d)'
  <2>1. CASE d = c
    BY <2>1, <1>3 DEF CopyAt
  <2>2. CASE d # c
    <3>1. d \in Busy /\ cpu'[d] = cpu[d]
      BY <2>2, <1>3 DEF Others, Busy
    <3>2. CopyAt(d) /\ cpu[d].sock \in Sock
      BY <3>1, <1>2, <1>5, BusyFacts DEF RaceInv
    <3> QED BY <3>1, <3>2, <1>1, <1>3, CopyFrame
  <2> QED BY <2>1, <2>2
<1>6. EventInv'
  <2>1. \A o \in Sock : sockState[o] \in {"closing", "closed"} =>
          sockState'[o] \in {"closing", "closed"} /\ asked'[o] = asked[o]
    BY <1>1, <1>2 DEF RaceTypeOK
  <2> QED BY <2>1, <1>1, <1>3, EventFrame DEF RaceInv
<1> QED BY <1>4, <1>5, <1>6 DEF SaysInv

-----------------------------------------------------------------------------
(* The theorems.                                                           *)

LEMMA RaceStep ==
  ASSUME RaceInv, RaceNext
  PROVE  RaceInv'
<1>1. StructInv'
  BY StructStep DEF RaceInv
<1>2. PICK c \in Cpu :
        \/ \E s \in Sock :
             Open(c, s) \/ Send(c, s) \/ (\E rtt \in Rtt : Ack(c, s, rtt)) \/ Close(c, s)
        \/ OpenLookup(c) \/ OpenFill(c)
        \/ SendLoad(c) \/ SendStore(c)
        \/ AckCompare(c) \/ AckStore(c)
        \/ CloseCopy(c) \/ CloseSubmit(c) \/ CloseRemove(c)
  BY DEF RaceNext
<1>3. ASSUME NEW s \in Sock,
             Open(c, s) \/ Send(c, s) \/ (\E rtt \in Rtt : Ack(c, s, rtt)) \/ Close(c, s)
      PROVE  SaysInv'
  BY <1>3, OpenSays, SendSays, AckSays, CloseSays
<1>4. ASSUME OpenLookup(c) \/ OpenFill(c) \/ SendLoad(c) \/ SendStore(c)
      PROVE  SaysInv'
  BY <1>4, OpenLookupSays, OpenFillSays, SendLoadSays, SendStoreSays
<1>5. ASSUME \/ AckCompare(c) \/ AckStore(c)
             \/ CloseCopy(c) \/ CloseSubmit(c) \/ CloseRemove(c)
      PROVE  SaysInv'
  BY <1>5, AckCompareSays, AckStoreSays, CloseCopySays, CloseSubmitSays, CloseRemoveSays
<1>6. SaysInv'
  BY <1>2, <1>3, <1>4, <1>5
<1> QED BY <1>1, <1>6 DEF SaysInv, RaceInv

LEMMA RaceStutter ==
  ASSUME RaceInv, UNCHANGED raceVars
  PROVE  RaceInv'
<1>1. /\ Busy' = Busy
      /\ UNCHANGED <<sockState, table, node, cpu, events, asked, samples, met, recycled, evicted>>
  BY DEF raceVars, Busy
<1>2. StructInv'
  BY StructStutter DEF RaceInv
<1>3. ASSUME NEW s \in Sock PROVE SentAt(s)'
  BY <1>1 DEF RaceInv, SentAt, SendsUnderWay, RunningOn, Undisturbed, NeverMet
<1>4. ASSUME NEW s \in Sock PROVE MinAt(s)'
  BY <1>1 DEF RaceInv, MinAt, ComparingOn, RunningOn, RttOf, Undisturbed, NeverMet
<1>5. ASSUME NEW d \in Busy', cpu'[d].kind = "close" PROVE CopyAt(d)'
  BY <1>1, <1>5 DEF RaceInv, CopyAt, Undisturbed, NeverMet
<1>6. EventInv'
  BY <1>1, EventFrame DEF RaceInv
<1> QED BY <1>2, <1>3, <1>4, <1>5, <1>6 DEF RaceInv

LEMMA RaceStart ==
  ASSUME RaceInit
  PROVE  RaceInv
<1>1. Busy = {} /\ events = {} /\ \A s \in Sock : table[s] = NoNode
  BY DEF RaceInit, Busy
<1>2. \A s \in Sock : SentAt(s) /\ MinAt(s)
  BY <1>1 DEF SentAt, MinAt
<1>3. EventInv
  BY <1>1 DEF EventInv, EventUnlessRaced
<1> QED BY <1>1, <1>2, <1>3, StructStart DEF RaceInv

LEMMA RaceInvariant == RaceSpec => []RaceInv
<1>1. RaceInit => RaceInv
  BY RaceStart
<1>2. RaceInv /\ [RaceNext]_raceVars => RaceInv'
  BY RaceStep, RaceStutter
<1> QED BY <1>1, <1>2, PTL DEF RaceSpec

\* Every variable holds what it may hold, whatever the CPUs do: above all, no
\* node is the row of two connections.
THEOREM RaceTyped == RaceSpec => []RaceTypeOK
<1>1. RaceInv => RaceTypeOK
  BY DEF RaceInv, StructInv
<1> QED BY <1>1, RaceInvariant, PTL

\* Who can still have a pointer into a node when it is given out anew: an ACK,
\* or a handler whose row was evicted (tcp_lifecycle.rs:298).
THEOREM OnlyAcksOutlive == RaceSpec => []OnlyAcksOutliveRows
<1>1. RaceInv => OnlyAcksOutliveRows
  BY DEF RaceInv, StructInv
<1> QED BY <1>1, RaceInvariant, PTL

\* bytes_sent never counts a send twice, and counts them all, those under way
\* apart, unless two of them met, one met an open, or the node was recycled
\* under a writer (tcp_lifecycle.rs:348, 115).
THEOREM SentHolds == RaceSpec => []SentUnlessRaced
<1>1. ASSUME RaceInv, NEW s \in Tracked, Undisturbed(s, {"send", "open"})
      PROVE  /\ node[table[s]].bytes_sent <= asked[s]
             /\ (NeverMet(s, {"send"}) /\ NeverMet(s, {"send", "open"})) =>
                  node[table[s]].bytes_sent = asked[s] - (IF SendsUnderWay(s) = {} THEN 0 ELSE 1)
  <2>1. /\ s \in Sock /\ table[s] # NoNode /\ RaceTypeOK /\ SentAt(s)
    BY <1>1 DEF Tracked, RaceInv, StructInv
  <2>2. /\ Cardinality(SendsUnderWay(s)) \in Nat /\ asked[s] \in Nat
        /\ node[table[s]].bytes_sent \in Nat
    BY <2>1, SendsFacts, RowOf
  <2>3. node[table[s]].bytes_sent <= asked[s]
    BY <1>1, <2>1, <2>2 DEF SentAt
  <2>4. ASSUME NeverMet(s, {"send"}), NeverMet(s, {"send", "open"})
        PROVE  node[table[s]].bytes_sent = asked[s] - (IF SendsUnderWay(s) = {} THEN 0 ELSE 1)
    <3>1. CASE SendsUnderWay(s) = {}
      BY <1>1, <2>1, <2>2, <2>4, <3>1 DEF SentAt
    <3>2. CASE SendsUnderWay(s) # {}
      BY <1>1, <2>1, <2>2, <2>4, <3>2 DEF SentAt
    <3> QED BY <3>1, <3>2
  <2> QED BY <2>3, <2>4
<1>2. RaceInv => SentUnlessRaced
  BY <1>1 DEF SentUnlessRaced
<1> QED BY <1>2, RaceInvariant, PTL

\* srtt_us_min is a sample of the connection itself, and the least one unless
\* an ACK met the open or the node was recycled under a writer
\* (tcp_quality.rs:64, tcp_lifecycle.rs:119).
THEOREM MinHolds == RaceSpec => []MinUnlessRaced
<1>1. ASSUME RaceInv, NEW s \in Tracked, Undisturbed(s, {"ack", "open"})
      PROVE  /\ node[table[s]].srtt_us_min \in ToSet(samples[s]) \cup {U32Max}
             /\ (NeverMet(s, {"ack", "open"}) /\ "ack" \notin RunningOn(s)) =>
                  \A rtt \in ToSet(samples[s]) : node[table[s]].srtt_us_min <= rtt
  <2>1. /\ s \in Sock /\ table[s] # NoNode /\ RaceTypeOK /\ MinAt(s)
    BY <1>1 DEF Tracked, RaceInv, StructInv
  <2>2. node[table[s]].srtt_us_min \in ToSet(samples[s]) \cup {U32Max}
    BY <1>1, <2>1 DEF MinAt
  <2>3. ASSUME NeverMet(s, {"ack", "open"}), "ack" \notin RunningOn(s),
               NEW rtt \in ToSet(samples[s])
        PROVE  node[table[s]].srtt_us_min <= rtt
    <3>1. ComparingOn(s) = {}
      BY <2>3 DEF ComparingOn, RunningOn
    <3>2. samples[s] \in Seq(Rtt)
      BY <2>1 DEF RaceTypeOK
    <3>3. PICK i \in 1..Len(samples[s]) : rtt = samples[s][i]
      BY <3>2, <2>3 DEF ToSet
    <3> QED BY <1>1, <2>1, <2>3, <3>1, <3>3 DEF MinAt
  <2> QED BY <2>2, <2>3
<1>2. RaceInv => MinUnlessRaced
  BY <1>1 DEF MinUnlessRaced
<1> QED BY <1>2, RaceInvariant, PTL

\* An event of a row of its own says what was sent, and its two RTTs agree,
\* unless the handlers met that may not meet (tcp_lifecycle.rs:236-248).
THEOREM EventHolds == RaceSpec => []EventUnlessRaced
<1>1. RaceInv => EventUnlessRaced
  BY DEF RaceInv, EventInv
<1> QED BY <1>1, RaceInvariant, PTL

=============================================================================

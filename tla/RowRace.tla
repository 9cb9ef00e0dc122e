------------------------------ MODULE RowRace ------------------------------
(***************************************************************************)
(* What the atomic handlers of TcpLifecycle and TcpQuality leave out: the  *)
(* probes of several CPUs on one row of FLOW_TABLE, load by load and store *)
(* by store, without a lock.                                               *)
(*                                                                         *)
(* get_ptr_mut gives a handler a pointer into a node of the preallocated   *)
(* table.  A node that leaves the table, removed at a close or evicted, is *)
(* given out again at once, while a handler on another CPU may still have  *)
(* its pointer.                                                            *)
(*                                                                         *)
(* A row is three of its fields: one that is added to, a minimum, and one  *)
(* that is overwritten.  Every connection has a key of its own.            *)
(*                                                                         *)
(* asked, samples, met, recycled and evicted are history.                  *)
(***************************************************************************)
EXTENDS Integers, Sequences, FiniteSets, SequencesExt

CONSTANTS
  Cpu,       \* CPUs
  Sock,      \* connections
  Accepted,  \* those that are accepted, the others are connected
  Node,      \* nodes of the table
  NoNode,    \* no entry
  Idle,      \* a CPU that runs no probe
  Rtt,       \* RTTs of ACKs, in microseconds
  U32Max,    \* u32::MAX
  MaxSends,  \* bound on the sends of a connection
  MaxAcks    \* bound on its ACKs

Kind == {"open", "send", "ack", "close"}
Empty == [bytes_sent |-> 0, srtt_us_min |-> U32Max, srtt_us_last |-> 0]
Row == [DOMAIN Empty -> Nat]

\* A handler: on which connection, with a pointer to which node, how far, and
\* what it loaded.
PcOf == [open |-> {"lookup", "fill_sent", "fill_min", "fill_last"},
         send |-> {"load", "store"},
         ack |-> {"compare", "store_min", "store_last"},
         close |-> {"copy_sent", "copy_min", "copy_last", "submit", "remove"}]
Handler == [kind : Kind, sock : Sock, node : Node \cup {NoNode}, row : Row,
            pc : UNION {PcOf[k] : k \in Kind}]

ASSUME RaceAssumption ==
  /\ IsFiniteSet(Cpu)
  /\ NoNode \notin Node /\ Idle \notin Handler /\ Accepted \subseteq Sock
  /\ Rtt \subseteq 1..(U32Max - 1) /\ U32Max \in Nat
  /\ MaxSends \in Nat /\ MaxAcks \in Nat

VARIABLES
  sockState,  \* "new", "open", "closing" or "closed"
  table,      \* FLOW_TABLE: the node of a connection's key
  node,       \* the contents of the nodes
  cpu,        \* the handler a CPU is in
  events,     \* what was submitted
  asked,      \* sends of a connection that found its row
  samples,    \* RTTs of the ACKs that found its row, in order of arrival
  met,        \* kinds of handlers that ran on a connection at the same time
  recycled,   \* handlers that had a node when it was given out last, each by
              \* its kind and its connection
  evicted     \* connections whose row was evicted

raceVars == <<sockState, table, node, cpu, events, asked, samples, met, recycled, evicted>>
raceHistory == <<asked, samples, met, recycled, evicted>>

RaceInit ==
  /\ sockState = [s \in Sock |-> "new"]
  /\ table = [s \in Sock |-> NoNode]
  /\ node = [n \in Node |-> Empty]
  /\ cpu = [c \in Cpu |-> Idle]
  /\ events = {}
  /\ asked = [s \in Sock |-> 0]
  /\ samples = [s \in Sock |-> <<>>]
  /\ met = [s \in Sock |-> {}]
  /\ recycled = [n \in Node |-> {}]
  /\ evicted = {}

-----------------------------------------------------------------------------
Busy == {c \in Cpu : cpu[c] # Idle}
RunningOn(s) == {cpu[c].kind : c \in {o \in Busy : cpu[o].sock = s}}
Holding(n) == {<<cpu[c].kind, cpu[c].sock>> : c \in {o \in Busy : cpu[o].node = n}}

\* CPU c enters a handler for s: it has found the row, or goes to make it.
Enter(c, kind, s, n, pc) ==
  /\ cpu' = [cpu EXCEPT ![c] =
       [kind |-> kind, sock |-> s, node |-> n, pc |-> pc, row |-> Empty]]
  /\ met' = [met EXCEPT ![s] = @ \cup {{kind, other} : other \in RunningOn(s)}]

At(c, kind, pc) == c \in Busy /\ cpu[c].kind = kind /\ cpu[c].pc = pc
Goto(c, pc) == cpu' = [cpu EXCEPT ![c].pc = pc]
Load(c, field, pc) ==
  cpu' = [cpu EXCEPT ![c].row[field] = node[cpu[c].node][field], ![c].pc = pc]
Store(c, field, value) == node' = [node EXCEPT ![cpu[c].node][field] = value]
Leave(c) == cpu' = [cpu EXCEPT ![c] = Idle]

-----------------------------------------------------------------------------
(* init_flow_row: insert, look up, fill.                                   *)

\* FLOW_TABLE.insert takes node n, and evicts the row that has it.
MutInsertLinksNodeAsItIs(s, n) ==
  /\ table' = [o \in Sock |-> IF o = s THEN n ELSE IF table[o] = n THEN NoNode ELSE table[o]]
  /\ UNCHANGED node
  /\ recycled' = [recycled EXCEPT ![n] = Holding(n)]
  /\ evicted' = evicted \cup {o \in Sock : table[o] = n}
MutInsertSharesNode(s, n) ==
  /\ table' = [table EXCEPT ![s] = n]
  /\ node' = [node EXCEPT ![n] = Empty]
  /\ recycled' = [recycled EXCEPT ![n] = Holding(n)]
  /\ evicted' = evicted \cup {o \in Sock : table[o] = n}
Insert(s, n) ==
  /\ table' = [o \in Sock |-> IF o = s THEN n ELSE IF table[o] = n THEN NoNode ELSE table[o]]
  /\ node' = [node EXCEPT ![n] = Empty]
  /\ recycled' = [recycled EXCEPT ![n] = Holding(n)]
  /\ evicted' = evicted \cup {o \in Sock : table[o] = n}

Open(c, s) ==
  /\ cpu[c] = Idle
  /\ sockState[s] = "new"
  /\ sockState' = [sockState EXCEPT ![s] = "open"]
  /\ \E n \in Node : Insert(s, n)
  /\ Enter(c, "open", s, NoNode, "lookup")
  /\ UNCHANGED <<events, asked, samples>>

OpenLookup(c) ==
  /\ At(c, "open", "lookup")
  /\ LET n == table[cpu[c].sock] IN
       IF n = NoNode THEN Leave(c)
       ELSE cpu' = [cpu EXCEPT ![c].node = n, ![c].pc = "fill_sent"]
  /\ UNCHANGED <<sockState, table, node, events, raceHistory>>

\* fill_new_flow_state sets the counters once more.
OpenFill(c) ==
  /\ \/ At(c, "open", "fill_sent") /\ Store(c, "bytes_sent", 0) /\ Goto(c, "fill_min")
     \/ At(c, "open", "fill_min") /\ Store(c, "srtt_us_min", U32Max) /\ Goto(c, "fill_last")
     \/ At(c, "open", "fill_last") /\ Store(c, "srtt_us_last", 0) /\ Leave(c)
  /\ UNCHANGED <<sockState, table, events, raceHistory>>

-----------------------------------------------------------------------------
(* tcp_sendmsg: any number of threads may send on one connection, and on   *)
(* one that is still being connected.                                      *)

Send(c, s) ==
  /\ cpu[c] = Idle
  /\ sockState[s] = "open"
  /\ "open" \in RunningOn(s) => s \notin Accepted
  /\ asked[s] < MaxSends
  /\ table[s] # NoNode
  /\ Enter(c, "send", s, table[s], "load")
  /\ asked' = [asked EXCEPT ![s] = @ + 1]
  /\ UNCHANGED <<sockState, table, node, events, samples, recycled, evicted>>

SendLoad(c) ==
  /\ At(c, "send", "load")
  /\ Load(c, "bytes_sent", "store")
  /\ UNCHANGED <<sockState, table, node, events, raceHistory>>

MutSendStoresRow(c) ==
  /\ At(c, "send", "store")
  /\ node' = [node EXCEPT ![cpu[c].node] =
       [bytes_sent |-> cpu[c].row.bytes_sent + 1, srtt_us_min |-> U32Max, srtt_us_last |-> 0]]
  /\ Leave(c)
  /\ UNCHANGED <<sockState, table, events, raceHistory>>
SendStore(c) ==
  /\ At(c, "send", "store")
  /\ Store(c, "bytes_sent", cpu[c].row.bytes_sent + 1)
  /\ Leave(c)
  /\ UNCHANGED <<sockState, table, events, raceHistory>>

-----------------------------------------------------------------------------
(* tcp_rcv_established: the kernel handles the ACKs of a connection one    *)
(* after the other, from before accept returns until after tcp_close is    *)
(* entered.                                                                *)

Ack(c, s, rtt) ==
  /\ cpu[c] = Idle
  /\ sockState[s] \in {"open", "closing"}
  /\ "open" \in RunningOn(s) => s \in Accepted
  /\ "ack" \notin RunningOn(s)
  /\ Len(samples[s]) < MaxAcks
  /\ table[s] # NoNode
  /\ Enter(c, "ack", s, table[s], "compare")
  /\ samples' = [samples EXCEPT ![s] = Append(@, rtt)]
  /\ UNCHANGED <<sockState, table, node, events, asked, recycled, evicted>>

RttOf(c) == Last(samples[cpu[c].sock])

AckCompare(c) ==
  /\ At(c, "ack", "compare")
  /\ Goto(c, IF RttOf(c) < node[cpu[c].node].srtt_us_min THEN "store_min" ELSE "store_last")
  /\ UNCHANGED <<sockState, table, node, events, raceHistory>>

AckStore(c) ==
  /\ \/ At(c, "ack", "store_min") /\ Store(c, "srtt_us_min", RttOf(c)) /\ Goto(c, "store_last")
     \/ At(c, "ack", "store_last") /\ Store(c, "srtt_us_last", RttOf(c)) /\ Leave(c)
  /\ UNCHANGED <<sockState, table, events, raceHistory>>

-----------------------------------------------------------------------------
(* tcp_close: entered once, when no call on the connection is left.  The   *)
(* row is copied field by field, the event submitted, the row removed.     *)

MutCloseRemovesFirst(c, s) ==
  /\ cpu[c] = Idle
  /\ sockState[s] = "open"
  /\ RunningOn(s) \subseteq {"ack"}
  /\ table[s] # NoNode
  /\ sockState' = [sockState EXCEPT ![s] = "closing"]
  /\ Enter(c, "close", s, table[s], "copy_sent")
  /\ table' = [table EXCEPT ![s] = NoNode]
  /\ UNCHANGED <<node, events, asked, samples, recycled, evicted>>
Close(c, s) ==
  /\ cpu[c] = Idle
  /\ sockState[s] = "open"
  /\ RunningOn(s) \subseteq {"ack"}
  /\ IF table[s] = NoNode
     THEN /\ sockState' = [sockState EXCEPT ![s] = "closed"]
          /\ UNCHANGED <<cpu, met>>
     ELSE /\ sockState' = [sockState EXCEPT ![s] = "closing"]
          /\ Enter(c, "close", s, table[s], "copy_sent")
  /\ UNCHANGED <<table, node, events, asked, samples, recycled, evicted>>

CloseCopy(c) ==
  /\ \/ At(c, "close", "copy_sent") /\ Load(c, "bytes_sent", "copy_min")
     \/ At(c, "close", "copy_min") /\ Load(c, "srtt_us_min", "copy_last")
     \/ At(c, "close", "copy_last") /\ Load(c, "srtt_us_last", "submit")
  /\ UNCHANGED <<sockState, table, node, events, raceHistory>>

\* own: the row is still there, and no handler but a close, which only reads,
\* had the node when the row was made.
CloseSubmit(c) ==
  /\ At(c, "close", "submit")
  /\ events' = events \cup
       {[sock |-> cpu[c].sock, row |-> cpu[c].row,
         own |-> /\ cpu[c].sock \notin evicted
                 /\ \A h \in recycled[cpu[c].node] : h[1] = "close"]}
  /\ Goto(c, "remove")
  /\ UNCHANGED <<sockState, table, node, raceHistory>>

CloseRemove(c) ==
  /\ At(c, "close", "remove")
  /\ table' = [table EXCEPT ![cpu[c].sock] = NoNode]
  /\ sockState' = [sockState EXCEPT ![cpu[c].sock] = "closed"]
  /\ Leave(c)
  /\ UNCHANGED <<node, events, raceHistory>>

RaceNext ==
  \E c \in Cpu :
    \/ \E s \in Sock :
         \/ Open(c, s)
         \/ Send(c, s)
         \/ \E rtt \in Rtt : Ack(c, s, rtt)
         \/ Close(c, s)
    \/ OpenLookup(c) \/ OpenFill(c)
    \/ SendLoad(c) \/ SendStore(c)
    \/ AckCompare(c) \/ AckStore(c)
    \/ CloseCopy(c) \/ CloseSubmit(c) \/ CloseRemove(c)

RaceSpec == RaceInit /\ [][RaceNext]_raceVars

-----------------------------------------------------------------------------
(* Properties.                                                             *)

\* No node is the row of two connections.
RaceTypeOK ==
  /\ sockState \in [Sock -> {"new", "open", "closing", "closed"}]
  /\ table \in [Sock -> Node \cup {NoNode}]
  /\ \A s, o \in Sock : (s # o /\ table[s] # NoNode) => table[s] # table[o]
  /\ node \in [Node -> Row]
  /\ cpu \in [Cpu -> Handler \cup {Idle}]
  /\ \A c \in Busy : cpu[c].pc \in PcOf[cpu[c].kind]
  /\ asked \in [Sock -> 0..MaxSends]
  /\ samples \in [Sock -> Seq(Rtt)]
  /\ met \in [Sock -> SUBSET SUBSET Kind]
  /\ recycled \in [Node -> SUBSET (Kind \X Sock)] /\ evicted \subseteq Sock

\* Connections with a row that no handler of another connection has kept a
\* pointer to.
Tracked == {s \in Sock : table[s] # NoNode}
Undisturbed(s, kinds) == \A h \in recycled[table[s]] : h[1] \notin kinds
NeverMet(s, kinds) == kinds \notin met[s]
SendsUnderWay(s) == {c \in Busy : cpu[c].kind = "send" /\ cpu[c].sock = s}

\* Sends are never counted twice, and are all counted, those under way apart,
\* unless two of them ran at the same time, or one ran while tcp_connect
\* filled the row (tcp_lifecycle.rs:348, 115), or the row's node was given
\* out under a handler that writes to this field.
SentUnlessRaced ==
  \A s \in Tracked : Undisturbed(s, {"send", "open"}) =>
    /\ node[table[s]].bytes_sent <= asked[s]
    /\ (NeverMet(s, {"send"}) /\ NeverMet(s, {"send", "open"})) =>
         node[table[s]].bytes_sent = asked[s] - (IF SendsUnderWay(s) = {} THEN 0 ELSE 1)

\* The minimum is a sample of the connection itself, and the least one unless
\* an ACK came while accept filled the row (tcp_quality.rs:64,
\* tcp_lifecycle.rs:119).
MinUnlessRaced ==
  \A s \in Tracked : Undisturbed(s, {"ack", "open"}) =>
    LET min == node[table[s]].srtt_us_min
        own == ToSet(samples[s])
    IN /\ min \in own \cup {U32Max}
       /\ (NeverMet(s, {"ack", "open"}) /\ "ack" \notin RunningOn(s)) =>
            \A rtt \in own : min <= rtt

\* An event of a row that was not evicted before it was submitted says what
\* was sent, and its final RTT is not below its least one unless an ACK was
\* handled while the fields were copied (tcp_lifecycle.rs:236-248).
EventUnlessRaced ==
  \A e \in events : e.own =>
    /\ (NeverMet(e.sock, {"send"}) /\ NeverMet(e.sock, {"send", "open"})) =>
         e.row.bytes_sent = asked[e.sock]
    /\ (NeverMet(e.sock, {"ack", "close"}) /\ NeverMet(e.sock, {"ack", "open"})) =>
         e.row.srtt_us_last = 0 \/ e.row.srtt_us_min <= e.row.srtt_us_last

\* A handler that still has a node when it is given out anew is an ACK, unless
\* its connection's row was evicted: a close does not wait for ACKs, but for
\* every send and connect, and is done with the node itself
\* (tcp_lifecycle.rs:298).
OnlyAcksOutliveRows ==
  \A n \in Node : \A h \in recycled[n] : h[1] = "ack" \/ h[2] \in evicted
=============================================================================

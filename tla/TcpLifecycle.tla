---------------------------- MODULE TcpLifecycle ----------------------------
(***************************************************************************)
(* The probes of flow-sensor-ebpf/src/tcp_lifecycle.rs: a row of           *)
(* FLOW_TABLE is made when a connection is connected or accepted, counts   *)
(* its traffic, and becomes an event in FLOW_EVENTS when it is closed.     *)
(* Threads come and go as in CausalChain, whose map gives a row its chain. *)
(*                                                                         *)
(* A Sock is one connection of one struct sock.  A handler is atomic: it   *)
(* runs to its end between two steps of anyone else.                       *)
(*                                                                         *)
(* owner, asked, recvd, misread, tracked, stranded, reported, reset and    *)
(* overlaps are history: no probe reads them.                              *)
(***************************************************************************)
EXTENDS CausalChain, FlowTypes, Sequences

CONSTANTS
  Sock,        \* connections
  NoSock,      \* no entry
  NoRow,       \* no entry
  NoKey,       \* no entry
  MaxFlows,    \* max_entries of FLOW_TABLE
  MaxThreads,  \* max_entries of TLS_THREAD_FLOW
  MaxRecving,  \* max_entries of RECVMSG_SOCK
  RingCap,     \* events that FLOW_EVENTS can hold
  SendSize,    \* sizes of a tcp_sendmsg
  RecvSize,    \* positive results of a tcp_recvmsg
  Errno,       \* its errors: it returns one of them negated, as an int
  MaxBytes,    \* bound on the bytes one connection sends or receives
  MaxMisread   \* bound on the bytes that errors of one connection are taken for

ASSUME NoneAssumption ==
  NoSock \notin Sock /\ NoKey \notin FlowKey /\ NoRow \notin FlowState
ASSUME CapacityAssumption ==
  /\ MaxFlows \in Nat /\ MaxThreads \in Nat /\ MaxRecving \in Nat
  /\ RingCap \in Nat /\ MaxBytes \in Nat /\ MaxMisread \in Nat
  /\ SendSize \subseteq Nat /\ RecvSize \subseteq (Nat \ {0})
  /\ Errno \subseteq 1..(U32Size - 1)
  /\ U32Max = U32Size - 1

VARIABLES
  sockState,      \* what the process has done with the connection
  hashed,         \* connections that the kernel's table of sockets holds
  tuple,          \* its four-tuple, once it has one
  recving,        \* the connection a thread is inside tcp_recvmsg with
  flowTable,      \* FLOW_TABLE
  tlsThreadFlow,  \* TLS_THREAD_FLOW
  recvmsgSock,    \* RECVMSG_SOCK
  flowEvents,     \* FLOW_EVENTS: submitted, not yet consumed
  owner,          \* the connection a row was made for
  asked,          \* bytes passed to tcp_sendmsg
  recvd,          \* bytes returned by tcp_recvmsg
  misread,        \* bytes that its errors were taken for
  tracked,        \* connections that a row was made for
  stranded,       \* connections that are gone while their row stayed
  reported,       \* connections whose row became an event
  reset,          \* connections that sent a RST while open
  overlaps        \* pairs of one four-tuple that a process held at one time

kernelVars == <<sockState, hashed, tuple, recving>>
mapVars == <<flowTable, tlsThreadFlow, recvmsgSock, flowEvents>>
historyVars ==
  <<owner, asked, recvd, misread, tracked, stranded, reported, reset, overlaps>>
flowVars == <<kernelVars, mapVars, historyVars>>
lifecycleVars == <<causalVars, flowVars>>

SockState == {"new", "queued", "open", "closed"}

\* An event in the ring, with the connection whose close made it and the one
\* whose row it is.
RingItem == [key : FlowKey, event : [FlowEventField -> Nat], closer : Sock, owner : Sock]

LifecycleInit ==
  /\ CausalInit
  /\ sockState = [s \in Sock |-> "new"]
  /\ hashed = {}
  /\ tuple \in [Sock -> Tuple]
  /\ recving = [t \in Task |-> NoSock]
  /\ flowTable = [k \in FlowKey |-> NoRow]
  /\ tlsThreadFlow = [t \in Task |-> NoKey]
  /\ recvmsgSock = [t \in Task |-> NoSock]
  /\ flowEvents = <<>>
  /\ owner = [k \in FlowKey |-> NoSock]
  /\ asked = [s \in Sock |-> 0]
  /\ recvd = [s \in Sock |-> 0]
  /\ misread = [s \in Sock |-> 0]
  /\ tracked = {}
  /\ stranded = {}
  /\ reported = {}
  /\ reset = {}
  /\ overlaps = {}

-----------------------------------------------------------------------------
(* The kernel, and the maps.                                               *)

Key(s) == KeyFromSock(tuple[s])

\* Not closed yet by its process.
InUse(s) == sockState[s] \in {"queued", "open"}

\* A four-tuple names at most one hashed connection.  One that its peer ended
\* is no longer hashed while its process still holds it.
TupleFree(s) == \A o \in hashed \ {s} : tuple[o] # tuple[s]

\* The connections of the four-tuple of s that are not closed when s comes up.
Overlapping(s) == {{o, s} : o \in {o \in Sock \ {s} : InUse(o) /\ tuple[o] = tuple[s]}}

\* No connection with other addresses or ports has the key of s, and none
\* with the same ones was held while s was.
Unshared(s) ==
  \A o \in Sock :
    Key(o) = Key(s) => tuple[o] = tuple[s] /\ {o, s} \notin overlaps

\* A thread in user space: it may call connect, accept, recv, clone or exit.
Idle(t) == t \in alive /\ recving[t] = NoSock

Rows == {k \in FlowKey : flowTable[k] # NoRow}

\* get_ptr_mut: the row of key k becomes st, if there is one.
UpdateRow(k, st) ==
  IF flowTable[k] # NoRow
  THEN flowTable' = [flowTable EXCEPT ![k] = st]
  ELSE UNCHANGED flowTable

\* LRU insertion: it may evict, it must when no node is free, and it may find
\* no node at all.
MayEvict(V, k) ==
  /\ V \subseteq Rows \ {k}
  /\ Cardinality(Rows \ (V \cup {k})) < MaxFlows

\* Insertion into a hash map of Task keys: an existing key always fits.
Fits(map, none, max, t) ==
  map[t] # none \/ Cardinality({u \in Task : map[u] # none}) < max

-----------------------------------------------------------------------------
(* init_flow_row and fill_new_flow_state.                                  *)

\* EMPTY_FLOW_STATE, filled by thread t.  The groups of counters that
\* fill_new_flow_state sets once more have their EMPTY_FLOW_STATE values.
FilledRow(t, dir) ==
  [EMPTY_FLOW_STATE EXCEPT
     !.pid = t[1], !.direction = dir, !.connect_ts_ns = now,
     !.chain_id        = IF causalMap[t] # NoCtx THEN causalMap[t].chain_id ELSE now,
     !.parent_chain_id = IF causalMap[t] # NoCtx THEN causalMap[t].parent_chain_id ELSE 0,
     !.chain_depth     = IF causalMap[t] # NoCtx THEN causalMap[t].depth ELSE 0]

\* The row replaces whatever the key had; V is evicted for it.
MutInsertKeepsOldRow(t, s, dir, V) ==
  /\ IF flowTable[Key(s)] # NoRow
     THEN UNCHANGED <<flowTable, owner>>
     ELSE /\ flowTable' = [flowTable EXCEPT ![Key(s)] = FilledRow(t, dir)]
          /\ owner' = [owner EXCEPT ![Key(s)] = s]
  /\ tracked' = tracked \cup {s}
  /\ UNCHANGED tlsThreadFlow
MutFlowOfAccepted(t, s, dir, V) ==
  /\ flowTable' = [k \in FlowKey |-> IF k = Key(s) THEN FilledRow(t, dir)
                                     ELSE IF k \in V THEN NoRow ELSE flowTable[k]]
  /\ owner' = [k \in FlowKey |-> IF k = Key(s) THEN s
                                 ELSE IF k \in V THEN NoSock ELSE owner[k]]
  /\ tracked' = tracked \cup {s}
  /\ IF Fits(tlsThreadFlow, NoKey, MaxThreads, t)
     THEN tlsThreadFlow' = [tlsThreadFlow EXCEPT ![t] = Key(s)]
     ELSE UNCHANGED tlsThreadFlow
InsertRow(t, s, dir, V) ==
  /\ flowTable' = [k \in FlowKey |-> IF k = Key(s) THEN FilledRow(t, dir)
                                     ELSE IF k \in V THEN NoRow ELSE flowTable[k]]
  /\ owner' = [k \in FlowKey |-> IF k = Key(s) THEN s
                                 ELSE IF k \in V THEN NoSock ELSE owner[k]]
  /\ tracked' = tracked \cup {s}
  /\ IF dir = Outbound /\ Fits(tlsThreadFlow, NoKey, MaxThreads, t)
     THEN tlsThreadFlow' = [tlsThreadFlow EXCEPT ![t] = Key(s)]
     ELSE UNCHANGED tlsThreadFlow

\* The row is evicted again before get_ptr_mut finds it.
InsertRowThenLose(s, V) ==
  /\ flowTable' = [k \in FlowKey |-> IF k \in V \cup {Key(s)} THEN NoRow ELSE flowTable[k]]
  /\ owner' = [k \in FlowKey |-> IF k \in V \cup {Key(s)} THEN NoSock ELSE owner[k]]
  /\ tracked' = tracked \cup {s}
  /\ UNCHANGED tlsThreadFlow

\* The insert itself fails: what the key had stays.
InsertFails == UNCHANGED <<flowTable, owner, tracked, tlsThreadFlow>>

InitFlowRow(t, s, dir) ==
  /\ \/ \E V \in SUBSET (Rows \ {Key(s)}) :
          /\ MayEvict(V, Key(s))
          /\ InsertRow(t, s, dir, V) \/ InsertRowThenLose(s, V)
     \/ InsertFails
  /\ UNCHANGED <<recvmsgSock, flowEvents, asked, recvd, misread, stranded, reported, reset>>

-----------------------------------------------------------------------------
(* The handlers.                                                           *)

\* tcp_connect: thread t opens s.
TcpConnect(t, s) ==
  /\ Idle(t)
  /\ sockState[s] = "new"
  /\ TupleFree(s)
  /\ sockState' = [sockState EXCEPT ![s] = "open"]
  /\ hashed' = hashed \cup {s}
  /\ overlaps' = overlaps \cup Overlapping(s)
  /\ InitFlowRow(t, s, Outbound)
  /\ UNCHANGED <<tuple, recving, causalVars>>

\* A peer's connection completes its handshake and waits to be accepted.
Establish(s) ==
  /\ sockState[s] = "new"
  /\ TupleFree(s)
  /\ sockState' = [sockState EXCEPT ![s] = "queued"]
  /\ hashed' = hashed \cup {s}
  /\ overlaps' = overlaps \cup Overlapping(s)
  /\ UNCHANGED <<tuple, recving, mapVars, causalVars,
                 owner, asked, recvd, misread, tracked, stranded, reported, reset>>

\* The kernel is done with s: its peer reset it, it timed out, or what was left
\* to do after its close is done.  The words of the socket that a key is made
\* of stay.
Finish(s) ==
  /\ s \in hashed
  /\ hashed' = hashed \ {s}
  /\ UNCHANGED <<sockState, tuple, recving, mapVars, historyVars, causalVars>>

\* The return of inet_csk_accept in thread t.
InetCskAccept(t, s) ==
  /\ Idle(t)
  /\ sockState[s] = "queued"
  /\ sockState' = [sockState EXCEPT ![s] = "open"]
  /\ InitFlowRow(t, s, Inbound)
  /\ UNCHANGED <<hashed, tuple, recving, causalVars, overlaps>>

\* The same return when every kretprobe instance is taken by a thread blocked
\* in accept: the handler does not run.
InetCskAcceptMissed(t, s) ==
  /\ Idle(t)
  /\ sockState[s] = "queued"
  /\ sockState' = [sockState EXCEPT ![s] = "open"]
  /\ UNCHANGED <<hashed, tuple, recving, mapVars, historyVars, causalVars>>

\* A row when size bytes are sent: the counters saturate, the time of the
\* first byte is set once.
MutSentWraps(st, size) ==
  [st EXCEPT !.bytes_sent = (@ + size) % (U64Max + 1),
             !.pkts_sent = SaturatingAdd(U64Max, @, 1),
             !.first_byte_ts_ns = IF @ = 0 THEN now ELSE @]
MutSentRestamps(st, size) ==
  [st EXCEPT !.bytes_sent = SaturatingAdd(U64Max, @, size),
             !.pkts_sent = SaturatingAdd(U64Max, @, 1),
             !.first_byte_ts_ns = now]
RowSent(st, size) ==
  [st EXCEPT !.bytes_sent = SaturatingAdd(U64Max, @, size),
             !.pkts_sent = SaturatingAdd(U64Max, @, 1),
             !.first_byte_ts_ns = IF @ = 0 THEN now ELSE @]

\* tcp_sendmsg: size is what the caller asked to send.
TcpSendmsg(s, size) ==
  /\ sockState[s] = "open"
  /\ asked[s] + size <= MaxBytes
  /\ asked' = [asked EXCEPT ![s] = @ + size]
  /\ UpdateRow(Key(s), RowSent(flowTable[Key(s)], size))
  /\ UNCHANGED <<kernelVars, causalVars, tlsThreadFlow, recvmsgSock, flowEvents,
                 owner, recvd, misread, tracked, stranded, reported, reset, overlaps>>

\* tcp_recvmsg entry: thread t leaves the socket for the return probe.
MutRecvmsgEntryKeepsOld(t, s) ==
  /\ Idle(t)
  /\ sockState[s] = "open"
  /\ recving' = [recving EXCEPT ![t] = s]
  /\ IF recvmsgSock[t] = NoSock /\ Fits(recvmsgSock, NoSock, MaxRecving, t)
     THEN recvmsgSock' = [recvmsgSock EXCEPT ![t] = s]
     ELSE UNCHANGED recvmsgSock
  /\ UNCHANGED <<sockState, hashed, tuple, flowTable, tlsThreadFlow, flowEvents,
                 historyVars, causalVars>>
TcpRecvmsgEntry(t, s) ==
  /\ Idle(t)
  /\ sockState[s] = "open"
  /\ recving' = [recving EXCEPT ![t] = s]
  /\ IF Fits(recvmsgSock, NoSock, MaxRecving, t)
     THEN recvmsgSock' = [recvmsgSock EXCEPT ![t] = s]
     ELSE UNCHANGED recvmsgSock
  /\ UNCHANGED <<sockState, hashed, tuple, flowTable, tlsThreadFlow, flowEvents,
                 historyVars, causalVars>>

\* tcp_recvmsg return with the end of the stream, or with an error that the
\* compiler happened to extend with its sign to the 64 bits of the register.
TcpRecvmsgReturnNothing(t) ==
  /\ recving[t] # NoSock
  /\ recving' = [recving EXCEPT ![t] = NoSock]
  /\ recvmsgSock' = [recvmsgSock EXCEPT ![t] = NoSock]
  /\ UNCHANGED <<sockState, hashed, tuple, flowTable, tlsThreadFlow, flowEvents,
                 historyVars, causalVars>>

\* A row when bytes are received.
RowReceived(st, bytes) ==
  [st EXCEPT !.bytes_recv = SaturatingAdd(U64Max, @, bytes),
             !.pkts_recv = SaturatingAdd(U64Max, @, 1),
             !.first_recv_ts_ns = IF @ = 0 THEN now ELSE @]

\* The return probe reads a positive result: the bytes go to the row of the
\* socket that the entry probe left, if it left one.
CountReceived(t, bytes) ==
  /\ recving[t] # NoSock
  /\ recving' = [recving EXCEPT ![t] = NoSock]
  /\ recvmsgSock' = [recvmsgSock EXCEPT ![t] = NoSock]
  /\ LET k == Key(recvmsgSock[t]) IN
       IF recvmsgSock[t] # NoSock
       THEN UpdateRow(k, RowReceived(flowTable[k], bytes))
       ELSE UNCHANGED flowTable
  /\ UNCHANGED <<sockState, hashed, tuple, tlsThreadFlow, flowEvents, causalVars,
                 owner, asked, tracked, stranded, reported, reset, overlaps>>

\* tcp_recvmsg return with bytes.
TcpRecvmsgReturn(t, bytes) ==
  /\ CountReceived(t, bytes)
  /\ recvd[recving[t]] + bytes <= MaxBytes
  /\ recvd' = [recvd EXCEPT ![recving[t]] = @ + bytes]
  /\ UNCHANGED misread

\* tcp_recvmsg return with error e in the lower half of the register and zero
\* in its upper half: the i64 that the probe reads is positive.
MisreadError(e) == U32Size - e
TcpRecvmsgReturnError(t, e) ==
  /\ CountReceived(t, MisreadError(e))
  /\ misread[recving[t]] + MisreadError(e) <= MaxMisread
  /\ misread' = [misread EXCEPT ![recving[t]] = @ + MisreadError(e)]
  /\ UNCHANGED recvd

\* The same return when no kretprobe instance was free at the entry: the
\* handler does not run and the entry of RECVMSG_SOCK stays.
TcpRecvmsgReturnMissed(t, bytes) ==
  /\ recving[t] # NoSock
  /\ recvd[recving[t]] + bytes <= MaxBytes
  /\ recving' = [recving EXCEPT ![t] = NoSock]
  /\ recvd' = [recvd EXCEPT ![recving[t]] = @ + bytes]
  /\ UNCHANGED <<sockState, hashed, tuple, mapVars, causalVars,
                 owner, asked, misread, tracked, stranded, reported, reset, overlaps>>

\* tcp_send_active_reset, before the close or, from the kernel's own
\* teardown, after it, where the connection is no longer hashed.
TcpSendActiveReset(s) ==
  /\ \/ sockState[s] = "open" /\ s \in hashed
     \/ sockState[s] = "closed"
  /\ reset' = IF sockState[s] = "open" THEN reset \cup {s} ELSE reset
  /\ UpdateRow(Key(s), [flowTable[Key(s)] EXCEPT !.congestion_state_final = ReasonReset])
  /\ UNCHANGED <<kernelVars, causalVars, tlsThreadFlow, recvmsgSock, flowEvents,
                 owner, asked, recvd, misread, tracked, stranded, reported, overlaps>>

-----------------------------------------------------------------------------
(* tcp_close.                                                              *)

Closable(s) ==
  sockState[s] = "open" /\ \A t \in Task : recving[t] # s

\* No row: nothing to report.
CloseUntracked(s) ==
  /\ flowTable[Key(s)] = NoRow
  /\ UNCHANGED <<mapVars, historyVars>>

\* No room for the event: the handler returns and the row stays.
CloseDropsEvent(s) ==
  /\ flowTable[Key(s)] # NoRow
  /\ Len(flowEvents) >= RingCap
  /\ stranded' = stranded \cup {owner[Key(s)]}
  /\ UNCHANGED <<mapVars, owner, asked, recvd, misread, tracked, reported, reset, overlaps>>

\* The event is submitted and the row removed.
MutCloseIgnoresFullRing(s) ==
  /\ flowTable[Key(s)] # NoRow
  /\ flowEvents' = Append(flowEvents,
       [key |-> Key(s), event |-> FlowEventOf(flowTable[Key(s)], now),
        closer |-> s, owner |-> owner[Key(s)]])
  /\ flowTable' = [flowTable EXCEPT ![Key(s)] = NoRow]
  /\ owner' = [owner EXCEPT ![Key(s)] = NoSock]
  /\ reported' = reported \cup {owner[Key(s)]}
  /\ UNCHANGED <<tlsThreadFlow, recvmsgSock,
                 asked, recvd, misread, tracked, stranded, reset, overlaps>>
MutCloseKeepsRow(s) ==
  /\ flowTable[Key(s)] # NoRow
  /\ Len(flowEvents) < RingCap
  /\ flowEvents' = Append(flowEvents,
       [key |-> Key(s), event |-> FlowEventOf(flowTable[Key(s)], now),
        closer |-> s, owner |-> owner[Key(s)]])
  /\ reported' = reported \cup {owner[Key(s)]}
  /\ UNCHANGED <<flowTable, tlsThreadFlow, recvmsgSock,
                 owner, asked, recvd, misread, tracked, stranded, reset, overlaps>>
CloseReports(s) ==
  /\ flowTable[Key(s)] # NoRow
  /\ Len(flowEvents) < RingCap
  /\ flowEvents' = Append(flowEvents,
       [key |-> Key(s), event |-> FlowEventOf(flowTable[Key(s)], now),
        closer |-> s, owner |-> owner[Key(s)]])
  /\ flowTable' = [flowTable EXCEPT ![Key(s)] = NoRow]
  /\ owner' = [owner EXCEPT ![Key(s)] = NoSock]
  /\ reported' = reported \cup {owner[Key(s)]}
  /\ UNCHANGED <<tlsThreadFlow, recvmsgSock,
                 asked, recvd, misread, tracked, stranded, reset, overlaps>>

TcpClose(s) ==
  /\ Closable(s)
  /\ sockState' = [sockState EXCEPT ![s] = "closed"]
  /\ CloseUntracked(s) \/ CloseDropsEvent(s) \/ CloseReports(s)
  /\ UNCHANGED <<hashed, tuple, recving, causalVars>>

\* The connection ends without tcp_close: the caller connects its socket
\* anew after a failure, or disconnects it.
Abandon(s) ==
  /\ Closable(s)
  /\ sockState' = [sockState EXCEPT ![s] = "closed"]
  /\ hashed' = hashed \ {s}
  /\ stranded' = IF owner[Key(s)] = s THEN stranded \cup {s} ELSE stranded
  /\ UNCHANGED <<tuple, recving, mapVars, causalVars,
                 owner, asked, recvd, misread, tracked, reported, reset, overlaps>>

\* Userspace takes an event out of the ring.
RingNext ==
  /\ flowEvents # <<>>
  /\ flowEvents' = Tail(flowEvents)
  /\ UNCHANGED <<kernelVars, flowTable, tlsThreadFlow, recvmsgSock, historyVars,
                 causalVars>>

-----------------------------------------------------------------------------
\* The clock and the threads.  A thread leaves tcp_recvmsg before it exits.
TaskStep ==
  /\ \/ Tick
     \/ \E p, c \in Task : Idle(p) /\ NewTask(p, c)
     \/ \E t \in Task : Idle(t) /\ Exit(t)
  /\ UNCHANGED flowVars

FlowStep ==
  \/ \E t \in Task, s \in Sock :
       \/ TcpConnect(t, s)
       \/ InetCskAccept(t, s)
       \/ InetCskAcceptMissed(t, s)
       \/ TcpRecvmsgEntry(t, s)
  \/ \E t \in Task : TcpRecvmsgReturnNothing(t)
  \/ \E t \in Task, bytes \in RecvSize :
       TcpRecvmsgReturn(t, bytes)
  \/ \E t \in Task, e \in Errno : TcpRecvmsgReturnError(t, e)
  \/ \E t \in Task, bytes \in RecvSize \cup {0} : TcpRecvmsgReturnMissed(t, bytes)
  \/ \E s \in Sock :
       \/ Establish(s)
       \/ Finish(s)
       \/ \E size \in SendSize : TcpSendmsg(s, size)
       \/ TcpSendActiveReset(s)
       \/ TcpClose(s)
       \/ Abandon(s)
  \/ RingNext

LifecycleNext == TaskStep \/ FlowStep

LifecycleSpec == LifecycleInit /\ [][LifecycleNext]_lifecycleVars

-----------------------------------------------------------------------------
(* Properties.                                                             *)

\* The row and the owner of a key come and go together.
FlowTypeOK ==
  /\ sockState \in [Sock -> SockState]
  /\ hashed \subseteq Sock
  /\ tuple \in [Sock -> Tuple]
  /\ recving \in [Task -> Sock \cup {NoSock}]
  /\ flowTable \in [FlowKey -> FlowState \cup {NoRow}]
  /\ tlsThreadFlow \in [Task -> FlowKey \cup {NoKey}]
  /\ recvmsgSock \in [Task -> Sock \cup {NoSock}]
  /\ owner \in [FlowKey -> Sock \cup {NoSock}]
  /\ \A k \in FlowKey : flowTable[k] = NoRow <=> owner[k] = NoSock
  /\ asked \in [Sock -> 0..MaxBytes]
  /\ recvd \in [Sock -> 0..MaxBytes]
  /\ misread \in [Sock -> 0..MaxMisread]
  /\ tracked \subseteq Sock /\ stranded \subseteq Sock
  /\ reported \subseteq Sock /\ reset \subseteq Sock
  /\ overlaps \subseteq SUBSET Sock
  /\ flowEvents \in Seq(RingItem) /\ Len(flowEvents) <= RingCap

LifecycleTypeOK == CausalTypeOK /\ FlowTypeOK

\* A row is the row of the connection that made it, and of an open one unless
\* the connection went away without taking its row along: its event found no
\* room (tcp_lifecycle.rs:221) or it never reached tcp_close.
RowsOfOpenConnections ==
  \A k \in Rows :
    /\ owner[k] \in Sock /\ k = Key(owner[k]) /\ owner[k] \in tracked
    /\ owner[k] \in stranded \/ sockState[owner[k]] = "open"

\* The event of a connection's own row, which no other one could write to.
OwnRow(item) == item.owner = item.closer /\ Unshared(item.owner)

\* bytes_sent is what was passed to tcp_sendmsg over the whole life of the
\* connection, saturated: in the row while the connection is open, and in the
\* event when the row that is reported is the closing connection's own
\* (tcp_lifecycle.rs:347-353), whatever other connections with the same
\* four-tuple came before.  Connections of two four-tuples with one key, and
\* of one four-tuple that were held at one time because the peer of the first
\* was done with it, are left out: their traffic is added up.
SentExact ==
  /\ \A k \in Rows : (Unshared(owner[k]) /\ owner[k] \notin stranded) =>
       flowTable[k].bytes_sent = SaturatingAdd(U64Max, 0, asked[owner[k]])
  /\ \A i \in DOMAIN flowEvents : OwnRow(flowEvents[i]) =>
       flowEvents[i].event.bytes_sent =
         SaturatingAdd(U64Max, 0, asked[flowEvents[i].owner])

\* bytes_recv never exceeds what tcp_recvmsg returned on the connection and
\* what its errors there were misread for, 2^32 less the error each
\* (tcp_lifecycle.rs:387, 413-419): no byte and no error of another connection
\* is in it, although the row is found through an entry of RECVMSG_SOCK that
\* an earlier call may have left.
RecvNeverOvercounted ==
  /\ \A k \in Rows : (Unshared(owner[k]) /\ owner[k] \notin stranded) =>
       flowTable[k].bytes_recv <= recvd[owner[k]] + misread[owner[k]]
  /\ \A i \in DOMAIN flowEvents : OwnRow(flowEvents[i]) =>
       LET o == flowEvents[i].owner IN
         flowEvents[i].event.bytes_recv <= recvd[o] + misread[o]

\* While a thread is inside tcp_recvmsg, the entry of RECVMSG_SOCK under its
\* name, if there is one, is the socket of this very call: no entry that a
\* missed return, or an earlier thread of the same name, left there
\* (tcp_lifecycle.rs:372 against tcp_lifecycle.rs:400-403).
RecvCreditsOwnSocket ==
  \A t \in Task :
    (recving[t] # NoSock /\ recvmsgSock[t] # NoSock) => recvmsgSock[t] = recving[t]

\* An event carries the row of another connection for one of two reasons only.
\* Either two things failed: that connection left its row behind, and the
\* insertion for the closing one failed (tcp_lifecycle.rs:83 and
\* tcp_lifecycle.rs:221).  Or a process still held one of the two when the
\* other one came up on its four-tuple, and closed it late
\* (tcp_lifecycle.rs:205-213).  Connections with one key for two four-tuples
\* are left out: they take each other's rows.
WrongRowsExplained ==
  \A i \in DOMAIN flowEvents :
    LET o == flowEvents[i].owner
        s == flowEvents[i].closer
    IN (o # s /\ tuple[o] = tuple[s]) =>
         (o \in stranded /\ s \notin tracked) \/ {o, s} \in overlaps

\* The times of an event are in order, and what is computed from them does
\* not exceed the duration (tcp_lifecycle.rs:216-217, 270-289).
EventTimesOrdered ==
  \A i \in DOMAIN flowEvents :
    LET e == flowEvents[i].event IN
    /\ 0 < e.connect_ts_ns /\ e.connect_ts_ns <= e.close_ts_ns
    /\ e.duration_ns = e.close_ts_ns - e.connect_ts_ns
    /\ \A ts \in {e.first_byte_ts_ns, e.first_recv_ts_ns} :
         ts # 0 => e.connect_ts_ns <= ts /\ ts <= e.close_ts_ns
    /\ 0 <= e.time_to_first_byte_ns /\ e.time_to_first_byte_ns <= e.duration_ns

\* While a row belongs to one connection no step changes who made it, when,
\* and in which chain, its counters never go down, and the time of the first
\* byte is set once.
RowMonotone ==
  [][\A k \in FlowKey : (owner[k] # NoSock /\ owner'[k] = owner[k]) =>
       /\ \A f \in {"pid", "direction", "connect_ts_ns", "chain_id",
                     "parent_chain_id", "chain_depth"} :
            flowTable'[k][f] = flowTable[k][f]
       /\ \A f \in {"bytes_sent", "bytes_recv", "pkts_sent", "pkts_recv"} :
            flowTable'[k][f] >= flowTable[k][f]
       /\ \A f \in {"first_byte_ts_ns", "first_recv_ts_ns"} :
            flowTable[k][f] # 0 => flowTable'[k][f] = flowTable[k][f]]_lifecycleVars

\* README.md:9: "single structured event per connection".  The event
\* that a close submits is its own, rows that were left behind apart.
EventIsOwn ==
  \A i \in DOMAIN flowEvents :
    \/ flowEvents[i].owner = flowEvents[i].closer
    \/ flowEvents[i].owner \in stranded

-----------------------------------------------------------------------------
(* The inductive invariant behind RowsOfOpenConnections and SentExact.     *)

\* A connection that is held has its four-tuple for itself, apart from those
\* that it is known to overlap with.
SharersOverlap ==
  \A s, o \in Sock :
    (InUse(o) /\ (InUse(s) \/ s \in hashed) /\ s # o /\ tuple[s] = tuple[o])
      => {s, o} \in overlaps

\* Before it is open a connection sends nothing and has no row.
OpenFirst ==
  \A s \in Sock : sockState[s] \in {"new", "queued"} => asked[s] = 0 /\ s \notin tracked

\* A connection whose key is its own is over when its row is left behind.
StrandedClosed == \A s \in stranded : Unshared(s) => sockState[s] = "closed"

\* An event is submitted by a connection that is closed.
EventsOfClosed == \A i \in DOMAIN flowEvents : sockState[flowEvents[i].closer] = "closed"

LifecycleInv ==
  /\ LifecycleTypeOK
  /\ RowsOfOpenConnections
  /\ SharersOverlap
  /\ OpenFirst
  /\ StrandedClosed
  /\ EventsOfClosed
  /\ SentExact

-----------------------------------------------------------------------------
(* What became of the row of a connection: the abstract specification.     *)

Fate(s) ==
  IF s \in reported THEN "reported"
  ELSE IF \E k \in FlowKey : owner[k] = s
       THEN (IF s \in stranded THEN "stranded" ELSE "live")
       ELSE (IF s \in tracked THEN "lost" ELSE "untracked")

FlowFate == [s \in Sock |-> Fate(s)]
FlowOutbox == [i \in DOMAIN flowEvents |-> flowEvents[i].owner]

Report == INSTANCE FlowReport WITH fate <- FlowFate, outbox <- FlowOutbox

\* What the refinement rests on besides LifecycleInv: a connection is reported
\* or left behind only after it had a row, and a reported one has none left.
FatesFinal ==
  /\ reported \subseteq tracked /\ stranded \subseteq tracked
  /\ \A s \in reported : \A k \in FlowKey : owner[k] # s

\* The rows of FLOW_TABLE and the events of FLOW_EVENTS implement the life of
\* a flow: at most one event for each connection, none for one that was lost,
\* delivered in the order of the closes.
ImplementsFlowReport == Report!FlowReportSpec

\* No connection has two events in the ring, and a connection with an event
\* has no row any more (tcp_lifecycle.rs:296-298).
EventsReportedOnce == Report!ReportedOnce
=============================================================================

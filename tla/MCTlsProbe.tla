----------------------------- MODULE MCTlsProbe -----------------------------
(* The two processes and the connections of MCTcpLifecycle, each with room  *)
(* for one entry in the maps that are named by thread.                      *)
EXTENDS TlsProbe, TLC

Leader(n) == <<n, n>>
MCTask == {Leader(1), Leader(2)}
MCBoot == {Leader(1)}

Conn(octet, local) ==
  [daddr |-> <<10, 0, 0, octet>>, rcv_saddr |-> 1, hash_hi |-> 5,
   dport |-> 443, num |-> local]
MCTuple == {Conn(6, 1), Conn(6, 2), Conn(7, 1)}

\* The second has that four-tuple too, another one with its key, or another key.
TupleBound == tuple[1] = Conn(6, 1)

MCText == [s \in Sock |-> s]

NoReset == reset = {} /\ \A k \in Rows : flowTable[k].congestion_state_final = 0

\* One connection writes its hello and reads its response, the other one
\* writes its request.
BufferOf(s) == IF s = 1 THEN "hello" ELSE "request"
OneBufferEach ==
  \A t \in Task : \A i \in DOMAIN sslCalls[t] :
    LET call == sslCalls[t][i] IN
      IF call.op = "write" THEN call.buf = BufferOf(call.sock) ELSE call.sock = 1

\* Who is done with a connection matters to another one of its four-tuple, and
\* nothing new comes when that one is over too.
FinishBound ==
  /\ \A s, o \in Sock :
       sockState[s] = "new" \/ s \in hashed \/ (tuple[s] = tuple[o] /\ sockState[s] # "queued")
  /\ \E s \in Sock : sockState[s] = "new" \/ (InUse(s) /\ s \in hashed)

CallDepth(n) == \A t \in Task : Len(sslCalls[t]) <= n

\* One process starts the other, which opens connections and makes SSL calls.
OneCaller ==
  /\ now = 1 /\ opened[Leader(1)] = {} /\ sslUsed[Leader(1)] = {}
  /\ \A k \in Rows : flowTable[k].pid # 1
  /\ CallDepth(1)

\* Both make SSL calls, one inside the other, over one connection.
TwoCallers ==
  /\ now = 1 /\ killed = {} /\ \E s \in Sock : sockState[s] = "new"
  /\ CallDepth(2)

\* Time passes for one thread, which opens connections and writes over one.
SlowCaller ==
  /\ alive = MCBoot /\ \A t \in Task : inherited[t] = NoCtx
  /\ \A s \in Sock : sockState[s] # "queued"
  /\ Cardinality(sslUsed[Leader(1)]) <= 1
  /\ CallDepth(1) /\ \A t \in Task : ~ InCall(t, "read")

Callers ==
  /\ OneCaller \/ TwoCallers \/ SlowCaller
  /\ FinishBound /\ flowEvents = <<>> /\ \A t \in Task : recving[t] = NoSock
=============================================================================

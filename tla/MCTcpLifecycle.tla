-------------------------- MODULE MCTcpLifecycle --------------------------
(* Two connections, and processes 1 and 2, of which the first may have a   *)
(* second thread, with the tid that process 2 is given before or later.    *)
(* The connections have one four-tuple, two four-tuples with one key, or   *)
(* two keys.  The table has one row, RECVMSG_SOCK one entry, the ring one  *)
(* event and CAUSAL_MAP one context, so that each of them overflows.       *)
EXTENDS TcpLifecycle, TLC

Leader(n) == <<n, n>>
MCTask == {Leader(n) : n \in 1..3} \cup {<<1, 2>>}
MCBoot == {Leader(1)}

Conn(octet, local) ==
  [daddr |-> <<10, 0, 0, octet>>, rcv_saddr |-> 1, hash_hi |-> 5,
   dport |-> 443, num |-> local]
MCTuple == {Conn(6, 1), Conn(6, 2), Conn(7, 1)}

\* One of the two is Conn(6, 1).
TupleBound == \E s \in Sock : tuple[s] = Conn(6, 1)

\* A RST changes one field that the properties do not look at: it is a step,
\* and nothing follows it.
NoReset == reset = {} /\ \A k \in Rows : flowTable[k].congestion_state_final = 0

\* Threads start threads and processes, exit, and get ids that were used.
OnlyThreads ==
  /\ \A s \in Sock : sockState[s] = "new" /\ tuple[s] = Conn(6, 1)
  /\ Cardinality(alive) <= 2

\* Who is done with a connection matters to another one of its four-tuple.
FinishBound ==
  \A s, o \in Sock : (InUse(s) /\ s \notin hashed) => tuple[s] = tuple[o]

\* Process 1 connects, accepts, sends or receives, and closes.
OneProcess ==
  /\ alive = MCBoot /\ \A t \in Task : inherited[t] = NoCtx
  /\ \A s, o \in Sock : asked[s] = 0 \/ recvd[o] = 0
  /\ \E s \in Sock : recvd[s] = 0
  /\ \A s \in Sock : misread[s] = 0
  /\ \A t \in Task : recvmsgSock[t] = recving[t]

\* Processes 1 and 2 start each other, exit, connect, accept and receive.
TwoProcesses ==
  /\ now = 1 /\ \A t \in Task \ {Leader(1), Leader(2)} : inherited[t] = NoCtx
  /\ dropped = {} /\ \A t \in Task : inherited[t] # NoCtx => inherited[t].depth = 1
  /\ \A s \in Sock : asked[s] = 0 /\ sockState[s] # "queued"
  /\ \A s, o \in Sock : (s = o) = (Key(s) = Key(o))
  /\ \E s \in Sock : recvd[s] + misread[s] = 0
  /\ flowEvents = <<>>

ThreadsOrFlows == OnlyThreads \/ OneProcess \/ TwoProcesses

SockSymmetry == Permutations(Sock)
=============================================================================

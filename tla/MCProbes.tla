------------------------------ MODULE MCProbes ------------------------------
(* Two connections to a destination that the quality probes reach or to one *)
(* they do not; an ACK before the first full microsecond of RTT, and two    *)
(* more with the window and the RTT moving in opposite ways; counters that  *)
(* saturate at three, and sequence numbers that wrap.                       *)
EXTENDS Retransmit, TLC

Leader(n) == <<n, n>>
MCTask == {Leader(1)}

Remote(octet) == [daddr |-> <<10, 0, 0, octet>>, rcv_saddr |-> 1, hash_hi |-> 5,
                  dport |-> 443, num |-> 1]
MCTuple == {Remote(IPPROTO_TCP), Remote(7)}

Ack(srtt, rttvar, cwnd) == [srtt |-> srtt, rttvar |-> rttvar, cwnd |-> cwnd, ca |-> 0]
MCSample == {Ack(4, 3, 2), Ack(8, 4, 2), Ack(16, 0, 1)}

MCFlight == {<<2, 1>>}

Resent(s) == fastSent[s] + tlpSent[s] + timedOut[s]

\* ACKs are seen, with one kind of congestion signal for a row ...
Acknowledged ==
  /\ \A s \in Sock : Resent(s) = 0 /\ (Reachable(s) \/ seen[s] = {})
  /\ \E s \in Sock : Cardinality(seen[s]) <= 1
  /\ \A k \in Rows : /\ flowTable[k].retransmit_count = 0 /\ flowTable[k].ecn_signals <= 1
                     /\ flowTable[k].ecn_signals = 0 \/ flowTable[k].congestion_state_final = 0
                     /\ flowTable[k].sack_blocks_received = 0

\* ... or segments are sent again, most of them on one reachable connection.
SentAgain ==
  /\ \A s \in Sock : seen[s] = {} /\ Reachable(s)
  /\ \E s \in Sock : Resent(s) <= 1
  /\ \A k \in Rows : /\ flowTable[k].ecn_signals = 0 /\ flowTable[k].cwnd_max = 0
                     /\ flowTable[k].sack_blocks_received = 0
                     /\ flowTable[k].congestion_state_final = 0

\* Who is done with a connection matters to another one of its four-tuple, and
\* nothing happens to a row when both are over.
FinishBound ==
  /\ \A s, o \in Sock : (InUse(s) /\ s \notin hashed) => tuple[s] = tuple[o] /\ sockState[s] = "open"
  /\ \E s \in Sock : sockState[s] = "new" \/ (InUse(s) /\ s \in hashed)

\* The thread stays, and no connection is reset.
ProbesBound == alive = MCTask /\ reset = {} /\ FinishBound /\ (Acknowledged \/ SentAgain)

SockSymmetry == Permutations(Sock)
=============================================================================

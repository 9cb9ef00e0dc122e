----------------------------- MODULE TcpQuality -----------------------------
(***************************************************************************)
(* The probes of flow-sensor-ebpf/src/tcp_quality.rs, on the rows that     *)
(* TcpLifecycle keeps.  They run when the network stack does, for any      *)
(* connection that can receive or time out, and find the row by the key    *)
(* of flow_key_from_sk.                                                    *)
(*                                                                         *)
(* seen and latest are history.                                            *)
(***************************************************************************)
EXTENDS TcpLifecycle

CONSTANTS
  Sample,   \* [srtt, rttvar, cwnd, ca]: the words of struct tcp_sock an ACK leaves
  NoSample  \* no ACK yet

\* The words are u32s, and an eighth of one is less than u32::MAX.
ASSUME SampleAssumption ==
  \A q \in Sample : /\ q = [srtt |-> q.srtt, rttvar |-> q.rttvar, cwnd |-> q.cwnd, ca |-> q.ca]
                    /\ q.srtt \in Nat /\ q.rttvar \in Nat /\ q.cwnd \in Nat /\ q.ca \in Nat
                    /\ q.srtt \div 8 < U32Max /\ q.cwnd <= U32Max

VARIABLES
  seen,   \* the samples of the connection's ACKs while it has a row
  latest  \* the last one with an srtt of a microsecond or more

qualityVars == <<lifecycleVars, seen, latest>>

QualityInit ==
  /\ LifecycleInit
  /\ seen = [s \in Sock |-> {}]
  /\ latest = [s \in Sock |-> NoSample]

-----------------------------------------------------------------------------
SkKey(s) == KeyFromSk(tuple[s])

\* srtt_us is kept times eight, rttvar_us times four.
SrttUs(q) == q.srtt \div 8
RttvarUs(q) == q.rttvar \div 4

Lesser(a, b) == IF a < b THEN a ELSE b
Greater(a, b) == IF a > b THEN a ELSE b

\* The timers of a closed connection still run until the kernel is done with
\* it, and those of one that its peer ended no longer do.
InNetwork(s) == s \in hashed

\* What these probes take for the row of s.
SkRow(s) == flowTable[SkKey(s)]

QualityFrame ==
  UNCHANGED <<kernelVars, causalVars, tlsThreadFlow, recvmsgSock, flowEvents, historyVars>>

\* What an ACK with sample q makes of a row.
MutObserveZeroRtt(st, q) ==
  [st EXCEPT
     !.srtt_us_min = Lesser(SrttUs(q), @),
     !.srtt_us_max = Greater(SrttUs(q), @),
     !.srtt_us_last = SrttUs(q),
     !.rttvar_us_max = Greater(RttvarUs(q), @),
     !.cwnd_min = Lesser(q.cwnd, @),
     !.cwnd_max = Greater(q.cwnd, @),
     !.congestion_state_final = q.ca]
Observe(st, q) ==
  [st EXCEPT
     !.srtt_us_min = IF SrttUs(q) > 0 THEN Lesser(SrttUs(q), @) ELSE @,
     !.srtt_us_max = IF SrttUs(q) > 0 THEN Greater(SrttUs(q), @) ELSE @,
     !.srtt_us_last = IF SrttUs(q) > 0 THEN SrttUs(q) ELSE @,
     !.rttvar_us_max = Greater(RttvarUs(q), @),
     !.cwnd_min = Lesser(q.cwnd, @),
     !.cwnd_max = Greater(q.cwnd, @),
     !.congestion_state_final = q.ca]

\* tcp_rcv_established: queued or open, since a closed connection is no
\* longer in that state.
TcpRcvEstablished(s, q) ==
  /\ InUse(s) /\ InNetwork(s)
  /\ UpdateRow(SkKey(s), Observe(SkRow(s), q))
  /\ IF owner[Key(s)] = s
     THEN /\ seen' = [seen EXCEPT ![s] = @ \cup {q}]
          /\ latest' = [latest EXCEPT ![s] = IF SrttUs(q) > 0 THEN q ELSE @]
     ELSE UNCHANGED <<seen, latest>>
  /\ QualityFrame

CaRecovery == 3
CaLoss == 4

\* tcp_enter_cwr
TcpEnterCwr(s) ==
  /\ InNetwork(s)
  /\ UpdateRow(SkKey(s), [SkRow(s) EXCEPT !.ecn_signals = SaturatingAdd(U32Max, @, 1)])
  /\ UNCHANGED <<seen, latest>>
  /\ QualityFrame

\* tcp_enter_loss
TcpEnterLoss(s) ==
  /\ InNetwork(s)
  /\ UpdateRow(SkKey(s), [SkRow(s) EXCEPT !.congestion_state_final = CaLoss])
  /\ UNCHANGED <<seen, latest>>
  /\ QualityFrame

\* tcp_enter_recovery
TcpEnterRecovery(s) ==
  /\ InNetwork(s)
  /\ UpdateRow(SkKey(s), [SkRow(s) EXCEPT !.congestion_state_final = CaRecovery])
  /\ UNCHANGED <<seen, latest>>
  /\ QualityFrame

QualityStep ==
  \E s \in Sock :
    \/ \E q \in Sample : TcpRcvEstablished(s, q)
    \/ TcpEnterCwr(s)
    \/ TcpEnterLoss(s)
    \/ TcpEnterRecovery(s)

QualityNext ==
  \/ LifecycleNext /\ UNCHANGED <<seen, latest>>
  \/ QualityStep

QualitySpec == QualityInit /\ [][QualityNext]_qualityVars

-----------------------------------------------------------------------------
(* Properties.                                                             *)

\* The one place where the two ways of building a key agree: a destination
\* whose last octet is the number of TCP (tcp_quality.rs:28).
Reachable(s) == tuple[s].daddr[4] = IPPROTO_TCP

IsLeast(m, S) == m \in S /\ \A x \in S : m <= x
IsGreatest(m, S) == m \in S /\ \A x \in S : m >= x

\* The RTT and window of a row are exactly the least, the greatest and the
\* last of the ACKs of its own connection, zero RTTs left out, for every
\* destination the probes reach (tcp_quality.rs:62-74): no sample of an
\* earlier connection with the same four-tuple, of a queued one or of a
\* closed one is in it.  Rows that two connections may write are left out, as
\* in SentExact.
QualityExact ==
  \A k \in Rows : (owner[k] \notin stranded /\ Unshared(owner[k]) /\ Reachable(owner[k])) =>
    LET st == flowTable[k]
        rtts == {SrttUs(q) : q \in seen[owner[k]]} \ {0}
        cwnds == {q.cwnd : q \in seen[owner[k]]}
    IN /\ IF rtts = {}
          THEN st.srtt_us_min = U32Max /\ st.srtt_us_max = 0 /\ st.srtt_us_last = 0
          ELSE /\ IsLeast(st.srtt_us_min, rtts) /\ IsGreatest(st.srtt_us_max, rtts)
               /\ st.srtt_us_last = SrttUs(latest[owner[k]])
       /\ cwnds # {} => IsLeast(st.cwnd_min, cwnds) /\ IsGreatest(st.cwnd_max, cwnds)

\* In every event the final RTT lies between the least and the greatest, all
\* three being zero when none was seen (tcp_lifecycle.rs:242-248).
EventRttOrdered ==
  \A i \in DOMAIN flowEvents :
    LET e == flowEvents[i].event IN
    /\ e.srtt_us_min <= e.srtt_us_final /\ e.srtt_us_final <= e.srtt_us_max
    /\ e.srtt_us_min = 0 => e.srtt_us_max = 0

\* tcp_quality.rs:2: "Fires on every ACK received, updating per-flow quality
\* metrics in-place".
EveryAckUpdates ==
  \A k \in Rows : (owner[k] \notin stranded /\ seen[owner[k]] # {}) =>
    flowTable[k].cwnd_max > 0
=============================================================================

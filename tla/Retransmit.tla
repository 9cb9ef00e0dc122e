----------------------------- MODULE Retransmit -----------------------------
(***************************************************************************)
(* The probes of flow-sensor-ebpf/src/retransmit.rs, beside those of       *)
(* TcpQuality and TcpLifecycle: all the probes on the kernel's TCP.        *)
(*                                                                         *)
(* The kernel's own steps are external: a fast retransmission and each     *)
(* segment resent after a timeout go through tcp_retransmit_skb, a timeout *)
(* first through tcp_retransmit_timer, and a loss probe through            *)
(* tcp_send_loss_probe.                                                    *)
(*                                                                         *)
(* fastSent, tlpSent and timedOut are history.                             *)
(***************************************************************************)
EXTENDS TcpQuality

CONSTANTS
  Flight,         \* <<snd_una, snd_nxt>>, u32 sequence numbers
  MaxRetransmits  \* bound on what one connection retransmits

ASSUME FlightAssumption ==
  /\ Flight \subseteq (0..U32Max) \X (0..U32Max)
  /\ MaxRetransmits \in Nat

VARIABLES
  fastSent,  \* fast retransmissions of a connection with a row
  tlpSent,   \* its loss probes
  timedOut   \* its timeouts

retransmitVars == <<qualityVars, fastSent, tlpSent, timedOut>>

RetransmitInit ==
  /\ QualityInit
  /\ fastSent = [s \in Sock |-> 0]
  /\ tlpSent = [s \in Sock |-> 0]
  /\ timedOut = [s \in Sock |-> 0]

-----------------------------------------------------------------------------
\* Bytes in flight, of sequence numbers that wrap.
InFlight(f) == (f[2] - f[1]) % U32Size

\* handle_retransmit: reason names the counter beside the total.
MutCountOnlyReason(st, reason, f) ==
  [st EXCEPT ![reason] = SaturatingAdd(U32Max, @, 1)]
MutCountAllAsTimeouts(st, reason, f) ==
  [st EXCEPT !.retransmit_count = SaturatingAdd(U32Max, @, 1),
             !.retransmit_bytes = SaturatingAdd(U64Max, @, InFlight(f)),
             !.retransmit_rto_count = SaturatingAdd(U32Max, @, 1)]
CountRetransmit(st, reason, f) ==
  [st EXCEPT !.retransmit_count = SaturatingAdd(U32Max, @, 1),
             !.retransmit_bytes = SaturatingAdd(U64Max, @, InFlight(f)),
             ![reason] = SaturatingAdd(U32Max, @, 1)]

Rto == "retransmit_rto_count"
Fast == "retransmit_fast_count"
Tlp == "retransmit_tlp_count"

HandleRetransmit(s, reason) ==
  /\ InNetwork(s)
  /\ \E f \in Flight : UpdateRow(SkKey(s), CountRetransmit(SkRow(s), reason, f))
  /\ QualityFrame
  /\ UNCHANGED <<seen, latest>>

\* One more in a history counter of s, within the bound.
Counted(counter, s) ==
  /\ fastSent[s] + tlpSent[s] + timedOut[s] < MaxRetransmits
  /\ counter' = IF owner[Key(s)] = s THEN [counter EXCEPT ![s] = @ + 1] ELSE counter

\* Three duplicate ACKs: tcp_retransmit_skb.
FastRetransmission(s) ==
  /\ HandleRetransmit(s, Rto)
  /\ Counted(fastSent, s)
  /\ UNCHANGED <<tlpSent, timedOut>>

\* The retransmission timer: tcp_retransmit_timer.
TimerExpires(s) ==
  /\ HandleRetransmit(s, Fast)
  /\ Counted(timedOut, s)
  /\ UNCHANGED <<fastSent, tlpSent>>

\* A segment resent after a timeout: tcp_retransmit_skb.
TimeoutRetransmission(s) ==
  /\ timedOut[s] > 0
  /\ HandleRetransmit(s, Rto)
  /\ UNCHANGED <<fastSent, tlpSent, timedOut>>

\* A tail loss probe: tcp_send_loss_probe.
LossProbe(s) ==
  /\ HandleRetransmit(s, Tlp)
  /\ Counted(tlpSent, s)
  /\ UNCHANGED <<fastSent, timedOut>>

\* tcp_sacktag_write_queue
TcpSacktag(s) ==
  /\ InNetwork(s)
  /\ UpdateRow(SkKey(s), [SkRow(s) EXCEPT !.sack_blocks_received = SaturatingAdd(U32Max, @, 1)])
  /\ QualityFrame
  /\ UNCHANGED <<seen, latest, fastSent, tlpSent, timedOut>>

RetransmitStep ==
  \E s \in Sock :
    \/ FastRetransmission(s)
    \/ TimerExpires(s)
    \/ TimeoutRetransmission(s)
    \/ LossProbe(s)
    \/ TcpSacktag(s)

RetransmitNext ==
  \/ QualityNext /\ UNCHANGED <<fastSent, tlpSent, timedOut>>
  \/ RetransmitStep

RetransmitSpec == RetransmitInit /\ [][RetransmitNext]_retransmitVars

-----------------------------------------------------------------------------
(* Properties.                                                             *)

\* The total of an event is the sum of its three causes, saturated, however
\* the counters saturated one by one (retransmit.rs:69-83).
LossAddsUp ==
  \A i \in DOMAIN flowEvents :
    LET e == flowEvents[i].event IN
    e.retransmit_count =
      Lesser(U32Max, e.retransmit_rto_count + e.retransmit_fast_count + e.retransmit_tlp_count)

\* The loss probes of an event are those of its own connection, and none of
\* those of an earlier connection with the same four-tuple
\* (retransmit.rs:79-81).
ProbesExact ==
  \A k \in Rows : (owner[k] \notin stranded /\ Unshared(owner[k]) /\ Reachable(owner[k])) =>
    flowTable[k].retransmit_tlp_count = Lesser(U32Max, tlpSent[owner[k]])

=============================================================================

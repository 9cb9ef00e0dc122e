------------------------------ MODULE MCSensor ------------------------------
(* Systems on which start-up fails at each of its steps, and one on which   *)
(* it does not, since the process it is to probe maps a libssl of its own   *)
(* container; two processes that have one pid, one after the other, of      *)
(* which one has what cannot be cut; events that pass, and that fail by     *)
(* their duration, their ports and the sampling.                            *)
EXTENDS Sensor

CONSTANTS P1, P2

Good == [root |-> TRUE, object |-> TRUE, tls_object |-> TRUE, libssl |-> TRUE,
         missing |-> {}, tls_pids |-> <<>>, users |-> {7},
         hidden |-> {}]
Skips(pids) == [Good EXCEPT !.tls_pids = pids]
MCSystems ==
  {Good, [Good EXCEPT !.root = FALSE], [Good EXCEPT !.object = FALSE],
   [Good EXCEPT !.tls_object = FALSE], [Good EXCEPT !.libssl = FALSE],
   [Skips(<<8>>) EXCEPT !.missing = {"tcp_retransmit_timer"}],
   Skips(<<8, 7>>), [Skips(<<8, 7>>) EXCEPT !.hidden = {7}]}

MCPidOf == [p \in Process |-> 1]

Event(p, duration, src, dst, retransmits, chain) ==
  [owner |-> p, pid |-> MCPidOf[p], duration_ns |-> duration, src_port |-> src,
   dst_port |-> dst, retransmit_count |-> retransmits, chain_id |-> chain]
MCFlow ==
  {Event(P1, 20, 1, 443, 1, 2), Event(P1, 19, 443, 1, 1, 2), Event(P1, 20, 1, 2, 1, 2),
   Event(P2, 20, 443, 1, 1, 0), Event(P2, 20, 443, 1, 1, 3)}
MCPorts == {443}
=============================================================================

----------------------------- MODULE FlowTypes -----------------------------
(***************************************************************************)
(* The values the probes share: keys, rows of FLOW_TABLE and the event     *)
(* made of a row at close (flow-sensor-ebpf/src/maps.rs, tcp_lifecycle.rs, *)
(* tcp_quality.rs, flow-sensor-common/src/lib.rs).                         *)
(*                                                                         *)
(* Left out of rows and events: uid, gid and comm, copied and never        *)
(* compared, ppid and cgroup, which no probe fills.  Texts are numbered,   *)
(* and 0 is the empty one.                                                 *)
(***************************************************************************)
EXTENDS Integers

CONSTANTS
  Tuple,    \* IPv4 connections, as the first words of struct sock name them
  U32Max,   \* u32::MAX
  U64Max    \* u64::MAX

\* skc_daddr (in octets, at offset 0), skc_rcv_saddr (4), the upper half of
\* skc_hash (10), skc_dport (12) and skc_num (14).  The hash is a function of
\* the four others.
ASSUME TupleAssumption ==
  \A a \in Tuple :
    /\ a = [daddr |-> a.daddr, rcv_saddr |-> a.rcv_saddr, hash_hi |-> a.hash_hi,
            dport |-> a.dport, num |-> a.num]
    /\ a.daddr[4] \in 0..255
    /\ \A b \in Tuple : (a.daddr = b.daddr /\ a.rcv_saddr = b.rcv_saddr
                         /\ a.dport = b.dport /\ a.num = b.num) => a = b

ASSUME WidthAssumption == U32Max \in Nat \ {0} /\ U64Max \in Nat \ {0}

-----------------------------------------------------------------------------
(* Saturating arithmetic of u32 and u64.                                   *)

SaturatingAdd(max, a, b) == IF a + b > max THEN max ELSE a + b
SaturatingSub(a, b) == IF a < b THEN 0 ELSE a - b

-----------------------------------------------------------------------------
(* Keys.                                                                   *)

IPPROTO_TCP == 6

\* flow_key_from_sock: the ports are the two words at 0xC and 0xA, the remote
\* port and half of a hash; the protocol is a constant.
KeyFromSock(a) ==
  [src_ip |-> a.rcv_saddr, dst_ip |-> a.daddr, src_port |-> a.dport,
   dst_port |-> a.hash_hi, protocol |-> IPPROTO_TCP]

\* flow_key_from_sk: the same words, but the protocol is the byte at 0x3, the
\* last octet of skc_daddr.
KeyFromSk(a) == [KeyFromSock(a) EXCEPT !.protocol = a.daddr[4]]

FlowKey == {KeyFromSock(a) : a \in Tuple} \cup {KeyFromSk(a) : a \in Tuple}

-----------------------------------------------------------------------------
(* Rows and events.                                                        *)

Outbound == 1
Inbound == 2

ReasonReset == 2
ReasonLocalClose == 4

EMPTY_FLOW_STATE ==
  [pid |-> 0, direction |-> 0,
   bytes_sent |-> 0, bytes_recv |-> 0, pkts_sent |-> 0, pkts_recv |-> 0,
   srtt_us_min |-> U32Max, srtt_us_max |-> 0, srtt_us_last |-> 0,
   rttvar_us_max |-> 0, cwnd_min |-> U32Max, cwnd_max |-> 0, ecn_signals |-> 0,
   retransmit_count |-> 0, retransmit_bytes |-> 0, retransmit_rto_count |-> 0,
   retransmit_fast_count |-> 0, retransmit_tlp_count |-> 0,
   sack_blocks_received |-> 0,
   tls_sni |-> 0, http_host |-> 0, http_method |-> 0, http_path |-> 0,
   http_status |-> 0, has_tls |-> 0, has_http |-> 0, ssl_write_ts_ns |-> 0,
   connect_ts_ns |-> 0, first_byte_ts_ns |-> 0, first_recv_ts_ns |-> 0,
   tls_ready_ts_ns |-> 0,
   chain_id |-> 0, parent_chain_id |-> 0, chain_depth |-> 0,
   congestion_state_final |-> 0]

FlowState == [DOMAIN EMPTY_FLOW_STATE -> Nat]

\* A row's fields that are copied as they are.
CopiedFields ==
  {"pid", "direction", "bytes_sent", "bytes_recv", "pkts_sent", "pkts_recv",
   "srtt_us_max", "rttvar_us_max", "cwnd_max", "ecn_signals",
   "retransmit_count", "retransmit_bytes", "retransmit_rto_count",
   "retransmit_fast_count", "retransmit_tlp_count", "sack_blocks_received",
   "tls_sni", "http_host", "http_method", "http_path", "http_status",
   "has_tls", "has_http", "connect_ts_ns", "first_byte_ts_ns",
   "first_recv_ts_ns", "chain_id", "parent_chain_id", "chain_depth",
   "congestion_state_final"}

\* The initial u32::MAX of a minimum is reported as 0.
MutMinAsItIs(m) == m
MinOrZero(m) == IF m = U32Max THEN 0 ELSE m

\* The fields handle_tcp_close computes for the event of a row at time now.
MutNoSaturation(st, now) ==
  [close_ts_ns |-> now,
   duration_ns |-> SaturatingSub(now, st.connect_ts_ns),
   time_to_first_byte_ns |-> st.first_byte_ts_ns - st.connect_ts_ns,
   tls_handshake_ns |-> SaturatingSub(st.tls_ready_ts_ns, st.connect_ts_ns),
   app_response_time_ns |-> 0,
   srtt_us_min |-> st.srtt_us_min, cwnd_min |-> st.cwnd_min,
   srtt_us_final |-> st.srtt_us_last,
   close_reason |-> ReasonLocalClose]
DerivedFields(st, now) ==
  [close_ts_ns |-> now,
   duration_ns |-> SaturatingSub(now, st.connect_ts_ns),
   time_to_first_byte_ns |-> SaturatingSub(st.first_byte_ts_ns, st.connect_ts_ns),
   tls_handshake_ns |->
     IF st.tls_ready_ts_ns > 0
     THEN SaturatingSub(st.tls_ready_ts_ns, st.connect_ts_ns) ELSE 0,
   app_response_time_ns |->
     IF st.first_recv_ts_ns > 0 /\ st.ssl_write_ts_ns > 0
     THEN SaturatingSub(st.first_recv_ts_ns, st.ssl_write_ts_ns) ELSE 0,
   srtt_us_min |-> MinOrZero(st.srtt_us_min),
   cwnd_min |-> MinOrZero(st.cwnd_min),
   srtt_us_final |-> st.srtt_us_last,
   close_reason |-> ReasonLocalClose]

FlowEventField == CopiedFields \cup DOMAIN DerivedFields(EMPTY_FLOW_STATE, 0)

\* The event, less the key: the copied fields and the computed ones.
FlowEventOf(st, now) ==
  LET d == DerivedFields(st, now) IN
  [f \in FlowEventField |-> IF f \in DOMAIN d THEN d[f] ELSE st[f]]
=============================================================================

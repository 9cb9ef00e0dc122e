---------------------------- MODULE EventFilter ----------------------------
(* The filter of the command line: EventFilter of flow-sensor/src/main.rs. *)
EXTENDS Integers, Sequences, FiniteSets

CONSTANTS
  Flow,             \* events: records with at least the fields read here
  MinDurationMs,    \* --min-duration-ms
  Ports,            \* --ports
  RetransmitsOnly,  \* --retransmits-only
  SampleRate,       \* --sample-rate
  NsPerMs           \* 1_000_000

ASSUME FilterAssumption ==
  /\ MinDurationMs \in Nat /\ SampleRate \in Nat /\ NsPerMs \in Nat \ {0}
  /\ RetransmitsOnly \in BOOLEAN
  /\ \A e \in Flow : e.duration_ns \in Nat /\ e.chain_id \in Nat

\* EventFilter::matches
MutMatchesAnyPort(e) ==
  /\ MinDurationMs > 0 => e.duration_ns \div NsPerMs >= MinDurationMs
  /\ Ports # {} => e.src_port \in Ports
  /\ RetransmitsOnly => e.retransmit_count # 0
  /\ SampleRate > 1 => e.chain_id % SampleRate = 0
Matches(e) ==
  /\ MinDurationMs > 0 => e.duration_ns \div NsPerMs >= MinDurationMs
  /\ Ports # {} => e.src_port \in Ports \/ e.dst_port \in Ports
  /\ RetransmitsOnly => e.retransmit_count # 0
  /\ SampleRate > 1 => e.chain_id % SampleRate = 0

\* What the filters of the command line ask for: a port selects the flows that
\* have it on either side, a duration is compared in whole milliseconds, and
\* each filter alone can reject (main.rs:31-48).
Asked(e) ==
  ~ \/ MinDurationMs > 0 /\ e.duration_ns < MinDurationMs * NsPerMs
    \/ Ports # {} /\ {e.src_port, e.dst_port} \cap Ports = {}
    \/ RetransmitsOnly /\ e.retransmit_count = 0
    \/ SampleRate > 1 /\ \A q \in 0..e.chain_id : e.chain_id # q * SampleRate

\* p is t without what the filters reject: as many events as t has of those
\* asked for, the k-th of them at k.
AskedUpTo(t, n) == {i \in 1..n : Asked(t[i])}
IsFiltered(p, t) ==
  /\ Len(p) = Cardinality(AskedUpTo(t, Len(t)))
  /\ \A i \in AskedUpTo(t, Len(t)) : p[Cardinality(AskedUpTo(t, i))] = t[i]
=============================================================================

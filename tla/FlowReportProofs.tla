------------------------- MODULE FlowReportProofs -------------------------
(***************************************************************************)
(* What follows from FlowReport alone, for every set of connections.       *)
(***************************************************************************)
EXTENDS FlowReport, TLAPS

FlowReportTypeOK ==
  /\ fate \in [Sock -> Fates]
  /\ outbox \in Seq(Sock)

FlowReportInv == FlowReportTypeOK /\ ReportedOnce

LEMMA FlowReportInitInv == FlowReportInit => FlowReportInv
  BY DEF FlowReportInit, FlowReportInv, FlowReportTypeOK, Fates, ReportedOnce

\* Admitting, stranding and emitting never take a connection out of
\* "reported", and only a connection that is not there yet enters it.
LEMMA FlowReportStepInv ==
  ASSUME FlowReportInv, [FlowReportNext]_<<fate, outbox>>
  PROVE  FlowReportInv'
<1>1. /\ fate \in [Sock -> Fates] /\ outbox \in Seq(Sock)
      /\ \A i \in DOMAIN outbox : fate[outbox[i]] = "reported"
      /\ \A i, j \in DOMAIN outbox : outbox[i] = outbox[j] => i = j
  BY DEF FlowReportInv, FlowReportTypeOK, ReportedOnce
<1>2. ASSUME outbox' = outbox, fate' \in [Sock -> Fates],
             \A s \in Sock : fate[s] = "reported" => fate'[s] = "reported"
      PROVE  FlowReportInv'
  BY <1>1, <1>2 DEF FlowReportInv, FlowReportTypeOK, ReportedOnce
<1>3. ASSUME NEW s \in Sock, NEW L \in SUBSET Sock, Admit(s, L)
      PROVE  FlowReportInv'
  BY <1>1, <1>2, <1>3 DEF Admit, Fates
<1>4. ASSUME NEW s \in Sock, Strand(s)
      PROVE  FlowReportInv'
  BY <1>1, <1>2, <1>4 DEF Strand, Fates
<1>5. ASSUME NEW s \in Sock, Emit(s)
      PROVE  FlowReportInv'
  <2>1. /\ fate[s] # "reported" /\ outbox' = Append(outbox, s)
        /\ fate' = [fate EXCEPT ![s] = "reported"]
    BY <1>5 DEF Emit
  <2>2. fate' \in [Sock -> Fates] /\ outbox' \in Seq(Sock)
    BY <1>1, <2>1 DEF Fates
  <2>3. /\ DOMAIN outbox' = DOMAIN outbox \cup {Len(outbox) + 1}
        /\ outbox'[Len(outbox) + 1] = s
        /\ \A i \in DOMAIN outbox : outbox'[i] = outbox[i] /\ outbox[i] # s
    BY <1>1, <2>1
  <2>4. ReportedOnce'
    BY <1>1, <2>1, <2>3 DEF ReportedOnce
  <2> QED BY <2>2, <2>4 DEF FlowReportInv, FlowReportTypeOK
<1>6. CASE Deliver
  <2>1. /\ fate' = fate /\ outbox' \in Seq(Sock)
        /\ \A i \in DOMAIN outbox' : i + 1 \in DOMAIN outbox /\ outbox'[i] = outbox[i + 1]
    BY <1>1, <1>6 DEF Deliver
  <2>2. \A i \in DOMAIN outbox' : i \in Nat
    BY <2>1
  <2>3. ReportedOnce'
    BY <1>1, <2>1, <2>2 DEF ReportedOnce
  <2> QED BY <1>1, <2>1, <2>3 DEF FlowReportInv, FlowReportTypeOK
<1>7. CASE UNCHANGED <<fate, outbox>>
  BY <1>2, <1>1, <1>7
<1> QED BY <1>3, <1>4, <1>5, <1>6, <1>7 DEF FlowReportNext

\* The outbox holds each connection at most once, and only reported ones.
THEOREM FlowReportedOnce == FlowReportSpec => []ReportedOnce
<1>1. FlowReportInv => ReportedOnce
  BY DEF FlowReportInv
<1> QED BY FlowReportInitInv, FlowReportStepInv, <1>1, PTL DEF FlowReportSpec
=============================================================================

---------------------------- MODULE ProbesProofs ----------------------------
(***************************************************************************)
(* Proofs about TcpQuality and Retransmit, beside TcpLifecycle: what their *)
(* probes leave in a row, and what of it is in the event, for every set of *)
(* connections, samples and sequence numbers, and every width of counters. *)
(***************************************************************************)
EXTENDS Retransmit, TcpRowProofs

-----------------------------------------------------------------------------
(* The probes, on one row.                                                 *)

Reasons == {Rto, Fast, Tlp}

\* The row st after one of the probes found it.
ProbeRows(st) ==
  {Observe(st, q) : q \in Sample}
  \cup {[st EXCEPT !.ecn_signals = SaturatingAdd(U32Max, @, 1)],
        [st EXCEPT !.sack_blocks_received = SaturatingAdd(U32Max, @, 1)],
        [st EXCEPT !.congestion_state_final = CaLoss],
        [st EXCEPT !.congestion_state_final = CaRecovery]}
  \cup {CountRetransmit(st, reason, f) : reason \in Reasons, f \in Flight}

ProbeStep == QualityStep \/ RetransmitStep

LEMMA ProbeEffect ==
  ASSUME ProbeStep
  PROVE  /\ \E s \in Sock : \E new \in ProbeRows(SkRow(s)) : UpdateRow(SkKey(s), new)
         /\ QualityFrame
<1>1. ASSUME NEW s \in Sock, NEW q \in Sample, TcpRcvEstablished(s, q)
      PROVE  (\E new \in ProbeRows(SkRow(s)) : UpdateRow(SkKey(s), new)) /\ QualityFrame
  BY <1>1 DEF TcpRcvEstablished, ProbeRows
<1>2. ASSUME NEW s \in Sock, TcpEnterCwr(s) \/ TcpEnterLoss(s) \/ TcpEnterRecovery(s) \/ TcpSacktag(s)
      PROVE  (\E new \in ProbeRows(SkRow(s)) : UpdateRow(SkKey(s), new)) /\ QualityFrame
  BY <1>2 DEF TcpEnterCwr, TcpEnterLoss, TcpEnterRecovery, TcpSacktag, ProbeRows
<1>3. ASSUME NEW s \in Sock, NEW reason \in Reasons, HandleRetransmit(s, reason)
      PROVE  (\E new \in ProbeRows(SkRow(s)) : UpdateRow(SkKey(s), new)) /\ QualityFrame
  BY <1>3 DEF HandleRetransmit, ProbeRows
<1>4. ASSUME NEW s \in Sock,
             FastRetransmission(s) \/ TimerExpires(s) \/ TimeoutRetransmission(s) \/ LossProbe(s)
      PROVE  (\E new \in ProbeRows(SkRow(s)) : UpdateRow(SkKey(s), new)) /\ QualityFrame
  BY <1>3, <1>4 DEF FastRetransmission, TimerExpires, TimeoutRetransmission, LossProbe, Reasons
<1> QED BY <1>1, <1>2, <1>4 DEF ProbeStep, QualityStep, RetransmitStep

LEMMA SkKeyType ==
  ASSUME tuple \in [Sock -> Tuple], NEW s \in Sock
  PROVE  SkKey(s) \in FlowKey
  BY DEF SkKey, FlowKey

LEMMA SampleTypes ==
  ASSUME NEW q \in Sample
  PROVE  /\ SrttUs(q) \in Nat /\ SrttUs(q) < U32Max /\ RttvarUs(q) \in Nat
         /\ q.cwnd \in Nat /\ q.cwnd <= U32Max /\ q.ca \in Nat
<1>1. q.srtt \in Nat /\ q.rttvar \in Nat /\ q.srtt \div 8 < U32Max
  BY SampleAssumption
<1>2. \A n \in Nat : n \div 8 \in Nat /\ n \div 4 \in Nat
  OBVIOUS
<1> QED BY <1>1, <1>2, SampleAssumption DEF SrttUs, RttvarUs

LEMMA InFlightType ==
  ASSUME NEW f \in Flight
  PROVE  InFlight(f) \in Nat
<1>1. f[1] \in Nat /\ f[2] \in Nat
  BY FlightAssumption, WidthAssumption
<1>2. \A a \in Int, n \in Nat \ {0} : a % n \in Nat
  OBVIOUS
<1> QED BY <1>1, <1>2, BoundAssumption DEF InFlight

LEMMA ProbeRowType ==
  ASSUME NEW st \in FlowState, NEW new \in ProbeRows(st)
  PROVE  new \in FlowState /\ new.bytes_sent = st.bytes_sent
<1>1. \A f \in DOMAIN EMPTY_FLOW_STATE : st[f] \in Nat
  BY DEF FlowState
<1>2. {"srtt_us_min", "srtt_us_max", "srtt_us_last", "rttvar_us_max", "cwnd_min", "cwnd_max",
       "congestion_state_final", "ecn_signals", "sack_blocks_received", "retransmit_count",
       "retransmit_bytes", Rto, Fast, Tlp, "bytes_sent"} \subseteq DOMAIN EMPTY_FLOW_STATE
  BY DEF EMPTY_FLOW_STATE, Rto, Fast, Tlp
<1>3. /\ \A a, b \in Nat : SaturatingAdd(U32Max, a, b) \in Nat /\ SaturatingAdd(U64Max, a, b) \in Nat
      /\ \A a, b \in Nat : Lesser(a, b) \in Nat /\ Greater(a, b) \in Nat
  BY WidthAssumption DEF SaturatingAdd, Lesser, Greater
<1>4. ASSUME NEW q \in Sample, new = Observe(st, q)
      PROVE  new \in FlowState /\ new.bytes_sent = st.bytes_sent
  <2>1. /\ SrttUs(q) \in Nat /\ RttvarUs(q) \in Nat /\ q.cwnd \in Nat /\ q.ca \in Nat
        /\ st.srtt_us_min \in Nat /\ st.srtt_us_max \in Nat /\ st.srtt_us_last \in Nat
        /\ st.rttvar_us_max \in Nat /\ st.cwnd_min \in Nat /\ st.cwnd_max \in Nat
    BY <1>1, <1>2, SampleTypes
  <2>2. /\ Lesser(SrttUs(q), st.srtt_us_min) \in Nat /\ Greater(SrttUs(q), st.srtt_us_max) \in Nat
        /\ Greater(RttvarUs(q), st.rttvar_us_max) \in Nat
        /\ Lesser(q.cwnd, st.cwnd_min) \in Nat /\ Greater(q.cwnd, st.cwnd_max) \in Nat
    BY <1>3, <2>1
  <2> QED BY <1>2, <1>4, <2>1, <2>2 DEF Observe, FlowState
<1>5. CASE \/ new = [st EXCEPT !.ecn_signals = SaturatingAdd(U32Max, @, 1)]
           \/ new = [st EXCEPT !.sack_blocks_received = SaturatingAdd(U32Max, @, 1)]
           \/ new = [st EXCEPT !.congestion_state_final = CaLoss]
           \/ new = [st EXCEPT !.congestion_state_final = CaRecovery]
  <2>1. /\ SaturatingAdd(U32Max, st.ecn_signals, 1) \in Nat
        /\ SaturatingAdd(U32Max, st.sack_blocks_received, 1) \in Nat
        /\ CaLoss \in Nat /\ CaRecovery \in Nat
    BY <1>1, <1>2, <1>3 DEF CaLoss, CaRecovery
  <2> QED BY <1>2, <1>5, <2>1, UpdatedRow DEF FlowState
<1>6. ASSUME NEW reason \in Reasons, NEW f \in Flight, new = CountRetransmit(st, reason, f)
      PROVE  new \in FlowState /\ new.bytes_sent = st.bytes_sent
  <2>1. /\ SaturatingAdd(U32Max, st.retransmit_count, 1) \in Nat
        /\ SaturatingAdd(U64Max, st.retransmit_bytes, InFlight(f)) \in Nat
        /\ \A r \in Reasons : SaturatingAdd(U32Max, st[r], 1) \in Nat
    BY <1>1, <1>2, <1>3, InFlightType DEF Reasons
  <2>2. reason \notin {"retransmit_count", "retransmit_bytes", "bytes_sent"}
    BY DEF Reasons, Rto, Fast, Tlp
  <2> QED BY <1>2, <1>6, <2>1, <2>2 DEF CountRetransmit, FlowState
<1> QED BY <1>4, <1>5, <1>6 DEF ProbeRows

-----------------------------------------------------------------------------
(* The invariants of CausalChain and TcpLifecycle, under all the probes.   *)

ProbesBase == CausalInv /\ LifecycleInv

historyOfProbes == <<seen, latest, fastSent, tlpSent, timedOut>>

LEMMA ProbesCases ==
  ASSUME [RetransmitNext]_retransmitVars
  PROVE  \/ [LifecycleNext]_lifecycleVars /\ UNCHANGED historyOfProbes
         \/ QualityStep /\ UNCHANGED <<fastSent, tlpSent, timedOut>>
         \/ RetransmitStep /\ UNCHANGED <<seen, latest>>
<1>1. ASSUME NEW s \in Sock,
             \/ FastRetransmission(s) \/ TimerExpires(s) \/ TimeoutRetransmission(s)
             \/ LossProbe(s) \/ TcpSacktag(s)
      PROVE  UNCHANGED <<seen, latest>>
  BY <1>1 DEF FastRetransmission, TimerExpires, TimeoutRetransmission, LossProbe, TcpSacktag,
              HandleRetransmit
<1>2. RetransmitStep => UNCHANGED <<seen, latest>>
  BY <1>1 DEF RetransmitStep
<1> QED BY <1>2 DEF RetransmitNext, QualityNext, retransmitVars, qualityVars, historyOfProbes

\* A probe writes to one row and leaves the others where they are.
LEMMA ProbeRowChange ==
  ASSUME FlowTypeOK, ProbeStep
  PROVE  /\ QualityFrame
         /\ flowTable' \in [FlowKey -> FlowState \cup {NoRow}]
         /\ \A k \in FlowKey :
              /\ flowTable'[k] = NoRow <=> flowTable[k] = NoRow
              /\ flowTable[k] # NoRow =>
                   /\ flowTable'[k] \in {flowTable[k]} \cup ProbeRows(flowTable[k])
                   /\ flowTable'[k].bytes_sent = flowTable[k].bytes_sent
<1>1. PICK s \in Sock : \E new \in ProbeRows(SkRow(s)) : UpdateRow(SkKey(s), new)
  BY ProbeEffect
<1>2. PICK new \in ProbeRows(SkRow(s)) : UpdateRow(SkKey(s), new)
  BY <1>1
<1>3. SkKey(s) \in FlowKey /\ QualityFrame
  BY SkKeyType, ProbeEffect DEF FlowTypeOK
<1>4. flowTable[SkKey(s)] # NoRow => new \in FlowState /\ new.bytes_sent = SkRow(s).bytes_sent
  BY <1>3, ProbeRowType DEF FlowTypeOK, SkRow
<1>5. /\ flowTable' \in [FlowKey -> FlowState \cup {NoRow}]
      /\ \A j \in FlowKey : flowTable'[j] = NoRow <=> flowTable[j] = NoRow
      /\ \A j \in FlowKey : j # SkKey(s) => flowTable'[j] = flowTable[j]
      /\ flowTable[SkKey(s)] # NoRow => flowTable'[SkKey(s)] = new
  BY <1>2, <1>3, <1>4, UpdateRowType
<1> QED BY <1>2, <1>3, <1>4, <1>5 DEF SkRow

LEMMA ProbeStepBase ==
  ASSUME ProbesBase, ProbeStep
  PROVE  ProbesBase'
<1>1. /\ FlowTypeOK /\ CausalTypeOK /\ QualityFrame
      /\ UNCHANGED <<sockState, hashed, tuple, flowEvents, owner, asked, tracked, stranded,
                     overlaps>>
  BY ProbeEffect DEF ProbesBase, LifecycleInv, LifecycleTypeOK, QualityFrame, kernelVars, historyVars
<1>2. CausalInv'
  <2>1. UNCHANGED causalVars
    BY <1>1 DEF QualityFrame
  <2> QED BY <2>1, CausalNextInv DEF ProbesBase
<1>3. LifecycleTypeOK'
  <2>1. FlowTypeOK'
    <3>1. /\ flowTable' \in [FlowKey -> FlowState \cup {NoRow}]
          /\ \A k \in FlowKey : flowTable'[k] = NoRow <=> flowTable[k] = NoRow
      BY <1>1, ProbeRowChange DEF FlowTypeOK
    <3> QED BY <1>1, <3>1 DEF FlowTypeOK, QualityFrame, kernelVars, historyVars
  <2> QED BY <1>2, <2>1 DEF LifecycleTypeOK, CausalInv
<1>4. LifecycleInv'
  BY <1>1, <1>3, ProbeRowChange, RowTouched DEF ProbesBase
<1> QED BY <1>2, <1>4 DEF ProbesBase

LEMMA ProbesBaseStep ==
  ASSUME ProbesBase, [RetransmitNext]_retransmitVars
  PROVE  ProbesBase'
<1>1. CASE [LifecycleNext]_lifecycleVars
  <2>1. CausalInv' /\ LifecycleTypeOK'
    BY <1>1, LifecycleStepCausal, CausalNextInv, LifecycleTypeStep DEF ProbesBase, LifecycleInv
  <2> QED BY <1>1, <2>1, LifecycleInvStep DEF ProbesBase
<1> QED BY <1>1, ProbesCases, ProbeStepBase DEF ProbeStep

LEMMA ProbesBaseInvariant == RetransmitSpec => []ProbesBase
<1>1. RetransmitInit => ProbesBase
  BY CausalInitInv, LifecycleInvInit DEF RetransmitInit, QualityInit, LifecycleInit, ProbesBase
<1>2. ProbesBase /\ [RetransmitNext]_retransmitVars => ProbesBase'
  BY ProbesBaseStep
<1> QED BY <1>1, <1>2, PTL DEF RetransmitSpec

\* Types, rows and bytes sent are what TcpLifecycle says, under all probes.
THEOREM ProbesKeepLifecycle == RetransmitSpec => [](LifecycleTypeOK /\ SentExact)
<1>1. ProbesBase => LifecycleTypeOK /\ SentExact
  BY DEF ProbesBase, LifecycleInv
<1> QED BY <1>1, ProbesBaseInvariant, PTL

-----------------------------------------------------------------------------
(* What the events say of RTTs and retransmissions.                        *)

ProbeFields ==
  {"srtt_us_min", "srtt_us_max", "srtt_us_last", "cwnd_min", "cwnd_max",
   "retransmit_count", Rto, Fast, Tlp}

LEMMA ProbeFieldsOfRows ==
  /\ ProbeFields \subseteq DOMAIN EMPTY_FLOW_STATE
  /\ \A st \in FlowState : \A f \in ProbeFields : f \in DOMAIN st /\ st[f] \in Nat
  /\ \A f \in ProbeFields : f \notin {"bytes_sent", "pkts_sent", "first_byte_ts_ns", "bytes_recv",
                                     "pkts_recv", "first_recv_ts_ns", "congestion_state_final"}
<1>1. ProbeFields \subseteq DOMAIN EMPTY_FLOW_STATE
  BY DEF ProbeFields, Rto, Fast, Tlp, EMPTY_FLOW_STATE
<1> QED BY <1>1 DEF ProbeFields, Rto, Fast, Tlp, FlowState

\* The probes of TcpLifecycle leave them as they are,
LEMMA ProbeFieldsKept ==
  ASSUME NEW st \in FlowState, NEW new \in RowsAfter(st), NEW f \in ProbeFields
  PROVE  new[f] = st[f]
  BY ProbeFieldsOfRows DEF RowsAfter, RowsUnread, RowSent, RowReceived

\* and start with those of an empty row.
LEMMA ProbeFieldsFresh ==
  ASSUME NEW t, NEW dir, NEW f \in ProbeFields
  PROVE  FilledRow(t, dir)[f] = EMPTY_FLOW_STATE[f]
<1>1. f \in DOMAIN EMPTY_FLOW_STATE
  BY ProbeFieldsOfRows
<1>2. f \notin {"pid", "direction", "connect_ts_ns", "chain_id", "parent_chain_id", "chain_depth"}
  BY DEF ProbeFields, Rto, Fast, Tlp
<1> QED BY <1>1, <1>2 DEF FilledRow

RttOrdered(st) ==
  \/ st.srtt_us_min = U32Max /\ st.srtt_us_max = 0 /\ st.srtt_us_last = 0
  \/ /\ 0 < st.srtt_us_min /\ st.srtt_us_min < U32Max
     /\ st.srtt_us_min <= st.srtt_us_last /\ st.srtt_us_last <= st.srtt_us_max

LossSum(st) ==
  /\ st[Rto] <= U32Max /\ st[Fast] <= U32Max /\ st[Tlp] <= U32Max
  /\ st.retransmit_count = Lesser(U32Max, st[Rto] + st[Fast] + st[Tlp])

\* Rows with the same fields say the same.
LEMMA SameProbeFields ==
  ASSUME NEW st, NEW new, \A f \in ProbeFields : new[f] = st[f], RttOrdered(st), LossSum(st)
  PROVE  RttOrdered(new) /\ LossSum(new)
  BY DEF ProbeFields, RttOrdered, LossSum

LEMMA ProbeRowsOrdered ==
  ASSUME NEW st \in FlowState, RttOrdered(st), LossSum(st), NEW new \in ProbeRows(st)
  PROVE  RttOrdered(new) /\ LossSum(new)
<1>1. \A f \in ProbeFields : f \in DOMAIN st /\ st[f] \in Nat
  BY ProbeFieldsOfRows
<1>2. ASSUME NEW q \in Sample, new = Observe(st, q)
      PROVE  RttOrdered(new) /\ LossSum(new)
  <2>1. /\ new.srtt_us_min = IF SrttUs(q) > 0 THEN Lesser(SrttUs(q), st.srtt_us_min) ELSE st.srtt_us_min
        /\ new.srtt_us_max = IF SrttUs(q) > 0 THEN Greater(SrttUs(q), st.srtt_us_max) ELSE st.srtt_us_max
        /\ new.srtt_us_last = IF SrttUs(q) > 0 THEN SrttUs(q) ELSE st.srtt_us_last
        /\ new.retransmit_count = st.retransmit_count
        /\ new[Rto] = st[Rto] /\ new[Fast] = st[Fast] /\ new[Tlp] = st[Tlp]
    BY <1>1, <1>2 DEF Observe, ProbeFields, Rto, Fast, Tlp
  <2>2. LossSum(new)
    BY <2>1 DEF LossSum
  <2>3. /\ SrttUs(q) \in Nat /\ SrttUs(q) < U32Max /\ U32Max \in Nat
        /\ st.srtt_us_min \in Nat /\ st.srtt_us_max \in Nat /\ st.srtt_us_last \in Nat
    BY <1>1, SampleTypes, WidthAssumption DEF ProbeFields
  <2>4. RttOrdered(new)
    BY <2>1, <2>3 DEF RttOrdered, Lesser, Greater
  <2> QED BY <2>2, <2>4
<1>3. CASE \/ new = [st EXCEPT !.ecn_signals = SaturatingAdd(U32Max, @, 1)]
           \/ new = [st EXCEPT !.sack_blocks_received = SaturatingAdd(U32Max, @, 1)]
           \/ new = [st EXCEPT !.congestion_state_final = CaLoss]
           \/ new = [st EXCEPT !.congestion_state_final = CaRecovery]
  <2>1. \A f \in ProbeFields : new[f] = st[f]
    BY <1>1, <1>3 DEF ProbeFields, Rto, Fast, Tlp
  <2> QED BY <2>1, SameProbeFields
<1>4. ASSUME NEW reason \in Reasons, NEW f \in Flight, new = CountRetransmit(st, reason, f)
      PROVE  RttOrdered(new) /\ LossSum(new)
  <2>1. /\ new.srtt_us_min = st.srtt_us_min /\ new.srtt_us_max = st.srtt_us_max
        /\ new.srtt_us_last = st.srtt_us_last
        /\ new.retransmit_count = SaturatingAdd(U32Max, st.retransmit_count, 1)
        /\ \A r \in Reasons : new[r] = IF r = reason THEN SaturatingAdd(U32Max, st[r], 1) ELSE st[r]
    BY <1>1, <1>4 DEF CountRetransmit, Reasons, ProbeFields, Rto, Fast, Tlp
  <2>2. RttOrdered(new)
    BY <2>1 DEF RttOrdered
  <2>3. /\ st.retransmit_count \in Nat /\ st[Rto] \in Nat /\ st[Fast] \in Nat /\ st[Tlp] \in Nat
        /\ U32Max \in Nat \ {0}
    BY <1>1, WidthAssumption DEF ProbeFields
  <2>4. Rto # Fast /\ Rto # Tlp /\ Fast # Tlp
    BY DEF Rto, Fast, Tlp
  <2>5. LossSum(new)
    BY <2>1, <2>3, <2>4 DEF LossSum, Reasons, SaturatingAdd, Lesser
  <2> QED BY <2>2, <2>5
<1> QED BY <1>2, <1>3, <1>4 DEF ProbeRows

RttOrderedEvent(e) ==
  /\ e.srtt_us_min <= e.srtt_us_final /\ e.srtt_us_final <= e.srtt_us_max
  /\ e.srtt_us_min = 0 => e.srtt_us_max = 0

LossSumEvent(e) ==
  e.retransmit_count =
    Lesser(U32Max, e.retransmit_rto_count + e.retransmit_fast_count + e.retransmit_tlp_count)

LEMMA EventOfOrderedRow ==
  ASSUME NEW st \in FlowState, RttOrdered(st), LossSum(st)
  PROVE  RttOrderedEvent(FlowEventOf(st, now)) /\ LossSumEvent(FlowEventOf(st, now))
<1> DEFINE e == FlowEventOf(st, now)
<1>1. \A f \in ProbeFields : st[f] \in Nat
  BY ProbeFieldsOfRows
<1>2. /\ e.srtt_us_min = MinOrZero(st.srtt_us_min) /\ e.srtt_us_final = st.srtt_us_last
      /\ e.srtt_us_max = st.srtt_us_max /\ e.retransmit_count = st.retransmit_count
      /\ e.retransmit_rto_count = st[Rto] /\ e.retransmit_fast_count = st[Fast]
      /\ e.retransmit_tlp_count = st[Tlp]
  <2> DEFINE d == DerivedFields(st, now)
  <2>1. /\ DOMAIN d = {"close_ts_ns", "duration_ns", "time_to_first_byte_ns",
                       "tls_handshake_ns", "app_response_time_ns", "srtt_us_min",
                       "cwnd_min", "srtt_us_final", "close_reason"}
        /\ DOMAIN DerivedFields(EMPTY_FLOW_STATE, 0) = DOMAIN d
        /\ d.srtt_us_min = MinOrZero(st.srtt_us_min) /\ d.srtt_us_final = st.srtt_us_last
    BY DEF DerivedFields
  <2>2. {"srtt_us_max", "retransmit_count", "retransmit_rto_count", "retransmit_fast_count",
         "retransmit_tlp_count"} \subseteq CopiedFields
    BY DEF CopiedFields
  <2> HIDE DEF d
  <2>3. \A f \in FlowEventField : e[f] = IF f \in DOMAIN d THEN d[f] ELSE st[f]
    BY DEF FlowEventOf, d
  <2> HIDE DEF e
  <2> QED BY <2>1, <2>2, <2>3 DEF FlowEventField, Rto, Fast, Tlp
<1>3. /\ st.srtt_us_min \in Nat /\ st.srtt_us_last \in Nat /\ st.srtt_us_max \in Nat
      /\ U32Max \in Nat \ {0}
  BY <1>1, WidthAssumption DEF ProbeFields
<1> HIDE DEF e
<1>4. RttOrderedEvent(e)
  BY <1>2, <1>3 DEF RttOrdered, RttOrderedEvent, MinOrZero
<1>5. LossSumEvent(e)
  BY <1>2 DEF LossSum, LossSumEvent
<1> QED BY <1>4, <1>5 DEF e

OrderInv ==
  /\ \A k \in Rows : RttOrdered(flowTable[k]) /\ LossSum(flowTable[k])
  /\ \A i \in DOMAIN flowEvents :
       RttOrderedEvent(flowEvents[i].event) /\ LossSumEvent(flowEvents[i].event)

LEMMA EmptyRowOrdered ==
  ASSUME NEW t, NEW dir
  PROVE  RttOrdered(FilledRow(t, dir)) /\ LossSum(FilledRow(t, dir))
<1>1. RttOrdered(EMPTY_FLOW_STATE)
  BY DEF RttOrdered, EMPTY_FLOW_STATE
<1>2. LossSum(EMPTY_FLOW_STATE)
  BY WidthAssumption DEF LossSum, EMPTY_FLOW_STATE, Lesser, Rto, Fast, Tlp
<1> QED BY <1>1, <1>2, ProbeFieldsFresh, SameProbeFields

LEMMA OrderStep ==
  ASSUME ProbesBase, OrderInv, [RetransmitNext]_retransmitVars
  PROVE  OrderInv'
<1>1. LifecycleTypeOK /\ FlowTypeOK /\ flowEvents \in Seq(RingItem)
  BY DEF ProbesBase, LifecycleInv, LifecycleTypeOK, FlowTypeOK
<1>2. \A k \in Rows : flowTable[k] \in FlowState
  BY <1>1 DEF FlowTypeOK, Rows
<1>3. CASE [LifecycleNext]_lifecycleVars
  <2>1. ASSUME NEW k \in FlowKey, flowTable'[k] # NoRow
        PROVE  RttOrdered(flowTable'[k]) /\ LossSum(flowTable'[k])
    <3>1. RowChange(k, RowsAfter(flowTable[k]))
      BY <1>1, <1>3, RowStep
    <3>2. ASSUME flowTable[k] # NoRow, flowTable'[k] \in RowsAfter(flowTable[k])
          PROVE  RttOrdered(flowTable'[k]) /\ LossSum(flowTable'[k])
      BY <1>2, <3>2, ProbeFieldsKept, SameProbeFields DEF OrderInv, Rows
    <3> QED BY <2>1, <3>1, <3>2, EmptyRowOrdered DEF RowChange
  <2>2. ASSUME NEW i \in DOMAIN flowEvents'
        PROVE  RttOrderedEvent(flowEvents'[i].event) /\ LossSumEvent(flowEvents'[i].event)
    <3>1. CASE flowEvents' = flowEvents
      BY <2>2, <3>1 DEF OrderInv
    <3>2. CASE flowEvents # <<>> /\ flowEvents' = Tail(flowEvents)
      BY <1>1, <2>2, <3>2, TailEvents DEF OrderInv
    <3>3. ASSUME NEW k \in Rows, NEW s \in Sock,
                 flowEvents' = Append(flowEvents,
                   [key |-> k, event |-> FlowEventOf(flowTable[k], now), closer |-> s, owner |-> owner[k]])
          PROVE  RttOrderedEvent(flowEvents'[i].event) /\ LossSumEvent(flowEvents'[i].event)
      <4>1. CASE i \in DOMAIN flowEvents /\ flowEvents'[i] = flowEvents[i]
        BY <4>1 DEF OrderInv
      <4>2. CASE flowEvents'[i].event = FlowEventOf(flowTable[k], now)
        BY <1>2, <4>2, EventOfOrderedRow DEF OrderInv
      <4> QED BY <1>1, <2>2, <3>3, <4>1, <4>2, AppendedEvents
    <3> QED BY <1>1, <1>3, <3>1, <3>2, <3>3, EventStep
  <2> QED BY <2>1, <2>2 DEF OrderInv, Rows
<1>4. CASE ProbeStep
  <2>1. flowEvents' = flowEvents
    BY <1>4, ProbeEffect DEF QualityFrame
  <2>2. ASSUME NEW k \in FlowKey, flowTable'[k] # NoRow
        PROVE  RttOrdered(flowTable'[k]) /\ LossSum(flowTable'[k])
    <3>1. /\ flowTable[k] # NoRow
          /\ flowTable'[k] \in {flowTable[k]} \cup ProbeRows(flowTable[k])
      BY <1>1, <1>4, <2>2, ProbeRowChange
    <3> QED BY <1>2, <3>1, ProbeRowsOrdered DEF OrderInv, Rows
  <2> QED BY <2>1, <2>2 DEF OrderInv, Rows
<1> QED BY <1>3, <1>4, ProbesCases DEF ProbeStep

LEMMA OrderInvariant == RetransmitSpec => []OrderInv
<1>1. RetransmitInit => OrderInv
  BY DEF RetransmitInit, QualityInit, LifecycleInit, OrderInv, Rows
<1>2. ProbesBase /\ OrderInv /\ [RetransmitNext]_retransmitVars => OrderInv'
  BY OrderStep
<1> QED BY <1>1, <1>2, ProbesBaseInvariant, PTL DEF RetransmitSpec

\* The final RTT of an event lies between the least and the greatest.
THEOREM ProbesRttOrdered == RetransmitSpec => []EventRttOrdered
<1>1. OrderInv => EventRttOrdered
  BY DEF OrderInv, RttOrderedEvent, EventRttOrdered
<1> QED BY <1>1, OrderInvariant, PTL

\* The retransmissions of an event are the sum of their causes, though each
\* counter saturates by itself.
THEOREM ProbesLossAddsUp == RetransmitSpec => []LossAddsUp
<1>1. OrderInv => LossAddsUp
  BY DEF OrderInv, LossSumEvent, LossAddsUp
<1> QED BY <1>1, OrderInvariant, PTL

-----------------------------------------------------------------------------
(* Whose ACKs and loss probes are in a row.                                *)

\* The least, greatest and last of the samples S, the last of which is q.
QualityOf(st, S, q) ==
  LET rtts == {SrttUs(a) : a \in S} \ {0}
      cwnds == {a.cwnd : a \in S}
  IN /\ IF rtts = {}
        THEN st.srtt_us_min = U32Max /\ st.srtt_us_max = 0 /\ st.srtt_us_last = 0
        ELSE /\ IsLeast(st.srtt_us_min, rtts) /\ IsGreatest(st.srtt_us_max, rtts)
             /\ st.srtt_us_last = SrttUs(q)
     /\ cwnds # {} => IsLeast(st.cwnd_min, cwnds) /\ IsGreatest(st.cwnd_max, cwnds)
     /\ cwnds = {} => st.cwnd_min = U32Max /\ st.cwnd_max = 0

\* Rows whose connection is the only one that writes to them.
OwnRows == {k \in Rows : owner[k] \notin stranded /\ Unshared(owner[k]) /\ Reachable(owner[k])}

ExactInv ==
  /\ RecvingOpen
  /\ tlpSent \in [Sock -> Nat] /\ seen \in [Sock -> SUBSET Sample]
  /\ latest \in [Sock -> Sample \cup {NoSample}]
  /\ \A s \in Sock \ tracked : tlpSent[s] = 0 /\ seen[s] = {}
  /\ \A k \in OwnRows :
       /\ flowTable[k].retransmit_tlp_count = Lesser(U32Max, tlpSent[owner[k]])
       /\ QualityOf(flowTable[k], seen[owner[k]], latest[owner[k]])

\* One more sample.
LEMMA LeastOfMore ==
  ASSUME NEW S \in SUBSET Nat, NEW m \in Nat, IsLeast(m, S), NEW x \in Nat
  PROVE  IsLeast(Lesser(x, m), S \cup {x})
  BY DEF IsLeast, Lesser

LEMMA GreatestOfMore ==
  ASSUME NEW S \in SUBSET Nat, NEW m \in Nat, IsGreatest(m, S), NEW x \in Nat
  PROVE  IsGreatest(Greater(x, m), S \cup {x})
  BY DEF IsGreatest, Greater

LEMMA ObservedQuality ==
  ASSUME NEW st \in FlowState, NEW S \in SUBSET Sample, NEW last, QualityOf(st, S, last),
         NEW q \in Sample
  PROVE  QualityOf(Observe(st, q), S \cup {q}, IF SrttUs(q) > 0 THEN q ELSE last)
<1> DEFINE new == Observe(st, q)
           rtts == {SrttUs(a) : a \in S} \ {0}
           cwnds == {a.cwnd : a \in S}
           x == SrttUs(q)
<1>1. /\ x \in Nat /\ x < U32Max /\ q.cwnd \in Nat /\ q.cwnd <= U32Max /\ U32Max \in Nat
      /\ rtts \in SUBSET Nat /\ cwnds \in SUBSET Nat
  BY SampleTypes, WidthAssumption
<1>2. /\ st.srtt_us_min \in Nat /\ st.srtt_us_max \in Nat /\ st.srtt_us_last \in Nat
      /\ st.cwnd_min \in Nat /\ st.cwnd_max \in Nat
      /\ {"srtt_us_min", "srtt_us_max", "srtt_us_last", "cwnd_min", "cwnd_max"} \subseteq DOMAIN st
  BY ProbeFieldsOfRows DEF ProbeFields
<1>3. /\ new.srtt_us_min = IF x > 0 THEN Lesser(x, st.srtt_us_min) ELSE st.srtt_us_min
      /\ new.srtt_us_max = IF x > 0 THEN Greater(x, st.srtt_us_max) ELSE st.srtt_us_max
      /\ new.srtt_us_last = IF x > 0 THEN x ELSE st.srtt_us_last
      /\ new.cwnd_min = Lesser(q.cwnd, st.cwnd_min) /\ new.cwnd_max = Greater(q.cwnd, st.cwnd_max)
  BY <1>2 DEF Observe
<1>4. /\ {SrttUs(a) : a \in S \cup {q}} \ {0} = IF x > 0 THEN rtts \cup {x} ELSE rtts
      /\ {a.cwnd : a \in S \cup {q}} = cwnds \cup {q.cwnd}
  BY <1>1
<1>5. /\ IF rtts = {}
         THEN st.srtt_us_min = U32Max /\ st.srtt_us_max = 0 /\ st.srtt_us_last = 0
         ELSE /\ IsLeast(st.srtt_us_min, rtts) /\ IsGreatest(st.srtt_us_max, rtts)
              /\ st.srtt_us_last = SrttUs(last)
      /\ cwnds # {} => IsLeast(st.cwnd_min, cwnds) /\ IsGreatest(st.cwnd_max, cwnds)
      /\ cwnds = {} => st.cwnd_min = U32Max /\ st.cwnd_max = 0
  BY DEF QualityOf
<1> HIDE DEF new, rtts, cwnds, x
<1>6. IsLeast(new.cwnd_min, cwnds \cup {q.cwnd}) /\ IsGreatest(new.cwnd_max, cwnds \cup {q.cwnd})
  <2>1. CASE cwnds = {}
    BY <1>1, <1>3, <1>5, <2>1 DEF IsLeast, IsGreatest, Lesser, Greater
  <2>2. CASE cwnds # {}
    BY <1>1, <1>2, <1>3, <1>5, <2>2, LeastOfMore, GreatestOfMore
  <2> QED BY <2>1, <2>2
<1>7. CASE x > 0
  <2>1. /\ IsLeast(new.srtt_us_min, rtts \cup {x}) /\ IsGreatest(new.srtt_us_max, rtts \cup {x})
        /\ new.srtt_us_last = x
    <3>1. CASE rtts = {}
      BY <1>1, <1>3, <1>5, <1>7, <3>1 DEF IsLeast, IsGreatest, Lesser, Greater
    <3>2. CASE rtts # {}
      BY <1>1, <1>2, <1>3, <1>5, <1>7, <3>2, LeastOfMore, GreatestOfMore
    <3> QED BY <3>1, <3>2
  <2> QED BY <1>4, <1>6, <1>7, <2>1 DEF QualityOf, new, x
<1>8. CASE ~ x > 0
  <2>1. /\ new.srtt_us_min = st.srtt_us_min /\ new.srtt_us_max = st.srtt_us_max
        /\ new.srtt_us_last = st.srtt_us_last
    BY <1>3, <1>8
  <2> QED BY <1>4, <1>5, <1>6, <1>8, <2>1 DEF QualityOf, new, x
<1> QED BY <1>7, <1>8

\* A probe that finds such a row runs for its connection.
LEMMA OnlyOwnProbes ==
  ASSUME LifecycleInv, NEW k \in OwnRows, NEW s \in Sock, k = SkKey(s),
         InUse(s) \/ InNetwork(s)
  PROVE  s = owner[k] /\ owner[Key(s)] = s
<1>1. /\ owner[k] \in Sock /\ k = Key(owner[k]) /\ sockState[owner[k]] = "open"
  BY DEF LifecycleInv, RowsOfOpenConnections, OwnRows
<1>2. Key(s) = Key(owner[k])
  <2>1. SkKey(s).protocol = IPPROTO_TCP
    BY <1>1 DEF Key, KeyFromSock
  <2> QED BY <1>1, <2>1 DEF SkKey, Key, KeyFromSk, KeyFromSock
<1>3. tuple[s] = tuple[owner[k]] /\ {s, owner[k]} \notin overlaps
  BY <1>2 DEF OwnRows, Unshared
<1>4. s = owner[k]
  <2>1. InUse(owner[k]) /\ (InUse(s) \/ s \in hashed)
    BY <1>1 DEF InUse, InNetwork
  <2> QED BY <1>1, <1>3, <2>1 DEF LifecycleInv, SharersOverlap
<1> QED BY <1>1, <1>4

LEMMA ReachableKey ==
  ASSUME NEW s \in Sock, Reachable(s)
  PROVE  SkKey(s) = Key(s)
  BY DEF Reachable, SkKey, Key, KeyFromSk, KeyFromSock

LEMMA SameQuality ==
  ASSUME NEW st, NEW new, NEW S, NEW q, \A f \in ProbeFields \ {Tlp} : new[f] = st[f],
         QualityOf(st, S, q)
  PROVE  QualityOf(new, S, q)
<1>1. /\ new.srtt_us_min = st.srtt_us_min /\ new.srtt_us_max = st.srtt_us_max
      /\ new.srtt_us_last = st.srtt_us_last
      /\ new.cwnd_min = st.cwnd_min /\ new.cwnd_max = st.cwnd_max
  BY DEF ProbeFields, Rto, Fast, Tlp
<1> QED BY <1>1 DEF QualityOf

LEMMA ExactLifecycleStep ==
  ASSUME ProbesBase, ProbesBase', ExactInv, [LifecycleNext]_lifecycleVars, UNCHANGED historyOfProbes
  PROVE  ExactInv'
<1>1. /\ LifecycleTypeOK /\ FlowTypeOK /\ FlowTypeOK' /\ RecvingOpen' /\ SockChange
      /\ UNCHANGED <<seen, latest, tlpSent>>
  BY SockStep DEF ProbesBase, LifecycleInv, LifecycleTypeOK, ExactInv, historyOfProbes
<1>2. \A s \in Sock : (Unshared(s)' => Unshared(s)) /\ Reachable(s)' = Reachable(s)
  BY <1>1, KeysFixed DEF SockChange, Reachable
<1>3. ASSUME NEW k \in FlowKey, k \in OwnRows'
      PROVE  /\ flowTable'[k].retransmit_tlp_count = Lesser(U32Max, tlpSent[owner'[k]])
             /\ QualityOf(flowTable'[k], seen[owner'[k]], latest[owner'[k]])
  <2>1. /\ owner'[k] \in Sock /\ owner'[k] \notin stranded' /\ flowTable'[k] # NoRow
        /\ Unshared(owner'[k]) /\ Reachable(owner'[k])
    BY <1>1, <1>2, <1>3 DEF OwnRows, Rows, FlowTypeOK, Unshared, Key, Reachable, SockChange
  <2>2. RowChange(k, RowsAfter(flowTable[k]))
    BY <1>1, <1>3, RowStep
  <2>3. ASSUME flowTable[k] # NoRow, flowTable'[k] \in RowsAfter(flowTable[k]), owner'[k] = owner[k]
        PROVE  /\ flowTable'[k].retransmit_tlp_count = Lesser(U32Max, tlpSent[owner'[k]])
               /\ QualityOf(flowTable'[k], seen[owner'[k]], latest[owner'[k]])
    <3>1. k \in OwnRows
      BY <1>1, <1>3, <2>1, <2>3 DEF OwnRows, Rows, SockChange
    <3>2. flowTable[k] \in FlowState
      BY <1>1, <2>3 DEF FlowTypeOK
    <3>3. \A f \in ProbeFields : flowTable'[k][f] = flowTable[k][f]
      BY <2>3, <3>2, ProbeFieldsKept
    <3>4. flowTable'[k].retransmit_tlp_count = flowTable[k].retransmit_tlp_count
      BY <3>3 DEF ProbeFields, Tlp
    <3> QED BY <2>3, <3>1, <3>3, <3>4, SameQuality DEF ExactInv
  <2>4. ASSUME NEW t \in Task, NEW dir, NEW s \in Sock, flowTable'[k] = FilledRow(t, dir),
               owner'[k] = s, sockState[s] \in {"new", "queued"}
        PROVE  /\ flowTable'[k].retransmit_tlp_count = Lesser(U32Max, tlpSent[owner'[k]])
               /\ QualityOf(flowTable'[k], seen[owner'[k]], latest[owner'[k]])
    <3>1. tlpSent[s] = 0 /\ seen[s] = {}
      BY <2>4 DEF ExactInv, ProbesBase, LifecycleInv, OpenFirst
    <3>2. \A f \in ProbeFields : flowTable'[k][f] = EMPTY_FLOW_STATE[f]
      BY <2>4, ProbeFieldsFresh
    <3>3. flowTable'[k].retransmit_tlp_count = 0 /\ Lesser(U32Max, 0) = 0
      BY <3>2, WidthAssumption DEF ProbeFields, Tlp, EMPTY_FLOW_STATE, Lesser
    <3>4. QualityOf(EMPTY_FLOW_STATE, {}, latest[s])
      BY DEF QualityOf, EMPTY_FLOW_STATE
    <3> QED BY <2>4, <3>1, <3>2, <3>3, <3>4, SameQuality
  <2> QED BY <2>1, <2>2, <2>3, <2>4 DEF RowChange
<1>4. OwnRows' \subseteq FlowKey
  BY DEF OwnRows, Rows
<1>5. \A s \in Sock \ tracked' : s \in Sock \ tracked
  BY <1>1 DEF SockChange
<1> QED BY <1>1, <1>3, <1>4, <1>5 DEF ExactInv

\* A probe other than those of ACKs and loss probes touches neither.
OtherRows(st) ==
  {[st EXCEPT !.ecn_signals = SaturatingAdd(U32Max, @, 1)],
   [st EXCEPT !.sack_blocks_received = SaturatingAdd(U32Max, @, 1)],
   [st EXCEPT !.congestion_state_final = CaLoss],
   [st EXCEPT !.congestion_state_final = CaRecovery]}
  \cup {CountRetransmit(st, reason, f) : reason \in {Rto, Fast}, f \in Flight}

LEMMA OtherProbeRows ==
  ASSUME NEW st \in FlowState, NEW new \in OtherRows(st)
  PROVE  /\ \A f \in {"srtt_us_min", "srtt_us_max", "srtt_us_last", "cwnd_min", "cwnd_max"} :
              new[f] = st[f]
         /\ new.retransmit_tlp_count = st.retransmit_tlp_count
<1>1. \A f \in {"srtt_us_min", "srtt_us_max", "srtt_us_last", "cwnd_min", "cwnd_max",
                "retransmit_tlp_count"} : f \in DOMAIN st
  BY ProbeFieldsOfRows DEF ProbeFields, Tlp
<1>2. ASSUME NEW reason \in {Rto, Fast}, NEW f \in Flight, new = CountRetransmit(st, reason, f)
      PROVE  /\ \A g \in {"srtt_us_min", "srtt_us_max", "srtt_us_last", "cwnd_min", "cwnd_max"} :
                  new[g] = st[g]
             /\ new.retransmit_tlp_count = st.retransmit_tlp_count
  <2>1. /\ new.srtt_us_min = st.srtt_us_min /\ new.srtt_us_max = st.srtt_us_max
        /\ new.srtt_us_last = st.srtt_us_last
        /\ new.cwnd_min = st.cwnd_min /\ new.cwnd_max = st.cwnd_max
        /\ new.retransmit_tlp_count = st.retransmit_tlp_count
    BY <1>1, <1>2 DEF CountRetransmit, Rto, Fast
  <2> QED BY <2>1
<1>3. CASE \/ new = [st EXCEPT !.ecn_signals = SaturatingAdd(U32Max, @, 1)]
           \/ new = [st EXCEPT !.sack_blocks_received = SaturatingAdd(U32Max, @, 1)]
           \/ new = [st EXCEPT !.congestion_state_final = CaLoss]
           \/ new = [st EXCEPT !.congestion_state_final = CaRecovery]
  BY <1>1, <1>3
<1> QED BY <1>2, <1>3 DEF OtherRows

ExactRow(k) ==
  /\ flowTable[k].retransmit_tlp_count = Lesser(U32Max, tlpSent[owner[k]])
  /\ QualityOf(flowTable[k], seen[owner[k]], latest[owner[k]])

LEMMA AckRow ==
  ASSUME ProbesBase, ExactInv, NEW s \in Sock, NEW q \in Sample, TcpRcvEstablished(s, q),
         UNCHANGED tlpSent, NEW k \in OwnRows
  PROVE  /\ flowTable'[k].retransmit_tlp_count = Lesser(U32Max, tlpSent'[owner[k]])
         /\ QualityOf(flowTable'[k], seen'[owner[k]], latest'[owner[k]])
<1>1. /\ FlowTypeOK /\ k \in FlowKey /\ flowTable[k] \in FlowState /\ flowTable[k] # NoRow
      /\ owner[k] \in Sock /\ k = Key(owner[k]) /\ Reachable(owner[k]) /\ ExactRow(k)
  BY DEF ProbesBase, LifecycleInv, LifecycleTypeOK, FlowTypeOK, RowsOfOpenConnections, OwnRows,
         Rows, ExactInv, ExactRow
<1>2. /\ UpdateRow(SkKey(s), Observe(SkRow(s), q)) /\ InUse(s) /\ SkKey(s) \in FlowKey
      /\ seen \in [Sock -> SUBSET Sample] /\ latest \in [Sock -> Sample \cup {NoSample}]
  BY <1>1, SkKeyType DEF TcpRcvEstablished, InUse, FlowTypeOK, ExactInv
<1>3. CASE k = SkKey(s)
  <2>1. s = owner[k] /\ owner[Key(s)] = s
    BY <1>2, <1>3, OnlyOwnProbes DEF ProbesBase
  <2>2. flowTable'[k] = Observe(flowTable[k], q)
    BY <1>1, <1>2, <1>3 DEF UpdateRow, FlowTypeOK, SkRow
  <2>3. /\ seen'[s] = seen[s] \cup {q} /\ latest'[s] = IF SrttUs(q) > 0 THEN q ELSE latest[s]
        /\ seen[s] \subseteq Sample
    BY <1>2, <2>1 DEF TcpRcvEstablished
  <2>4. QualityOf(flowTable'[k], seen'[s], latest'[s])
    BY <1>1, <2>1, <2>2, <2>3, ObservedQuality DEF ExactRow
  <2>5. flowTable'[k].retransmit_tlp_count = flowTable[k].retransmit_tlp_count
    BY <1>1, <2>2 DEF Observe
  <2> QED BY <1>1, <2>1, <2>4, <2>5 DEF ExactRow
<1>4. CASE k # SkKey(s)
  <2>1. flowTable'[k] = flowTable[k]
    BY <1>1, <1>2, <1>4 DEF UpdateRow, FlowTypeOK
  <2>2. owner[Key(s)] = s => s # owner[k]
    BY <1>1, <1>4, ReachableKey
  <2>3. seen'[owner[k]] = seen[owner[k]] /\ latest'[owner[k]] = latest[owner[k]]
    BY <1>1, <1>2, <1>4, <2>2, ReachableKey DEF TcpRcvEstablished
  <2> QED BY <1>1, <2>1, <2>3 DEF ExactRow
<1> QED BY <1>3, <1>4

\* The other probes of TcpQuality, and those of Retransmit but a loss probe.
LEMMA OtherProbeRow ==
  ASSUME ProbesBase, ExactInv, NEW s \in Sock, NEW new,
         UpdateRow(SkKey(s), new), UNCHANGED <<tlpSent, seen, latest>>,
         new \in OtherRows(SkRow(s)), NEW k \in OwnRows
  PROVE  /\ flowTable'[k].retransmit_tlp_count = Lesser(U32Max, tlpSent'[owner[k]])
         /\ QualityOf(flowTable'[k], seen'[owner[k]], latest'[owner[k]])
<1>1. /\ FlowTypeOK /\ k \in FlowKey /\ flowTable[k] \in FlowState /\ flowTable[k] # NoRow
      /\ ExactRow(k)
  BY DEF ProbesBase, LifecycleInv, LifecycleTypeOK, FlowTypeOK, OwnRows, Rows, ExactInv, ExactRow
<1>2. CASE flowTable'[k] = flowTable[k]
  BY <1>1, <1>2 DEF ExactRow
<1>3. CASE k = SkKey(s) /\ flowTable'[k] = new
  <2>1. SkRow(s) = flowTable[k]
    BY <1>3 DEF SkRow
  <2>2. /\ \A f \in {"srtt_us_min", "srtt_us_max", "srtt_us_last", "cwnd_min", "cwnd_max"} :
             new[f] = flowTable[k][f]
        /\ new.retransmit_tlp_count = flowTable[k].retransmit_tlp_count
    BY <1>1, <2>1, OtherProbeRows
  <2>3. QualityOf(new, seen[owner[k]], latest[owner[k]])
    BY <1>1, <2>2 DEF ExactRow, QualityOf
  <2> QED BY <1>1, <1>3, <2>2, <2>3 DEF ExactRow
<1> QED BY <1>1, <1>2, <1>3 DEF UpdateRow, FlowTypeOK

LEMMA LossProbeRow ==
  ASSUME ProbesBase, ExactInv, NEW s \in Sock, LossProbe(s), NEW k \in OwnRows
  PROVE  /\ flowTable'[k].retransmit_tlp_count = Lesser(U32Max, tlpSent'[owner[k]])
         /\ QualityOf(flowTable'[k], seen'[owner[k]], latest'[owner[k]])
<1>1. /\ FlowTypeOK /\ k \in FlowKey /\ flowTable[k] \in FlowState /\ flowTable[k] # NoRow
      /\ owner[k] \in Sock /\ k = Key(owner[k]) /\ Reachable(owner[k]) /\ ExactRow(k)
  BY DEF ProbesBase, LifecycleInv, LifecycleTypeOK, FlowTypeOK, RowsOfOpenConnections, OwnRows,
         Rows, ExactInv, ExactRow
<1>2. /\ InNetwork(s) /\ tlpSent \in [Sock -> Nat] /\ UNCHANGED <<seen, latest>>
      /\ tlpSent' = IF owner[Key(s)] = s THEN [tlpSent EXCEPT ![s] = @ + 1] ELSE tlpSent
  BY DEF LossProbe, HandleRetransmit, Counted, ExactInv
<1>3. PICK f \in Flight : UpdateRow(SkKey(s), CountRetransmit(SkRow(s), Tlp, f))
  BY DEF LossProbe, HandleRetransmit
<1>4. SkKey(s) \in FlowKey
  BY <1>1, SkKeyType DEF FlowTypeOK
<1>5. CASE k = SkKey(s)
  <2>1. s = owner[k] /\ owner[Key(s)] = s
    BY <1>2, <1>5, OnlyOwnProbes DEF ProbesBase
  <2>2. flowTable'[k] = CountRetransmit(flowTable[k], Tlp, f)
    BY <1>1, <1>3, <1>5 DEF UpdateRow, FlowTypeOK, SkRow
  <2>3. \A g \in ProbeFields : g \in DOMAIN flowTable[k] /\ flowTable[k][g] \in Nat
    BY <1>1, ProbeFieldsOfRows
  <2>4. /\ flowTable'[k].srtt_us_min = flowTable[k].srtt_us_min
        /\ flowTable'[k].srtt_us_max = flowTable[k].srtt_us_max
        /\ flowTable'[k].srtt_us_last = flowTable[k].srtt_us_last
        /\ flowTable'[k].cwnd_min = flowTable[k].cwnd_min
        /\ flowTable'[k].cwnd_max = flowTable[k].cwnd_max
        /\ flowTable'[k].retransmit_tlp_count
             = SaturatingAdd(U32Max, flowTable[k].retransmit_tlp_count, 1)
    BY <2>2, <2>3 DEF CountRetransmit, ProbeFields, Tlp
  <2>5. QualityOf(flowTable'[k], seen[owner[k]], latest[owner[k]])
    BY <1>1, <2>4 DEF ExactRow, QualityOf
  <2>6. tlpSent'[s] = tlpSent[s] + 1 /\ tlpSent[s] \in Nat
    BY <1>2, <2>1
  <2>7. flowTable[k].retransmit_tlp_count = Lesser(U32Max, tlpSent[s])
    BY <1>1, <2>1 DEF ExactRow
  <2>8. SaturatingAdd(U32Max, Lesser(U32Max, tlpSent[s]), 1) = Lesser(U32Max, tlpSent[s] + 1)
    BY <2>6, WidthAssumption DEF SaturatingAdd, Lesser
  <2> QED BY <1>2, <2>1, <2>4, <2>5, <2>6, <2>7, <2>8
<1>6. CASE k # SkKey(s)
  <2>1. flowTable'[k] = flowTable[k]
    BY <1>1, <1>3, <1>4, <1>6 DEF UpdateRow, FlowTypeOK
  <2>2. owner[Key(s)] = s => s # owner[k]
    BY <1>1, <1>6, ReachableKey
  <2>3. tlpSent'[owner[k]] = tlpSent[owner[k]]
    BY <1>1, <1>2, <2>2
  <2> QED BY <1>1, <1>2, <2>1, <2>3 DEF ExactRow
<1> QED BY <1>5, <1>6

\* Samples and loss probes are those of connections with a row.
LEMMA CountsOfTracked ==
  ASSUME ProbesBase, ExactInv,
         \/ QualityStep /\ UNCHANGED <<fastSent, tlpSent, timedOut>>
         \/ RetransmitStep /\ UNCHANGED <<seen, latest>>
  PROVE  /\ tlpSent' \in [Sock -> Nat] /\ seen' \in [Sock -> SUBSET Sample]
         /\ latest' \in [Sock -> Sample \cup {NoSample}]
         /\ \A s \in Sock \ tracked : tlpSent'[s] = 0 /\ seen'[s] = {}
<1>1. ASSUME NEW s \in Sock, owner[Key(s)] = s
      PROVE  s \in tracked
  <2>1. Key(s) \in Rows
    BY <1>1, KeyType, NoneAssumption DEF ProbesBase, LifecycleInv, LifecycleTypeOK, FlowTypeOK, Rows
  <2> QED BY <1>1, <2>1 DEF ProbesBase, LifecycleInv, RowsOfOpenConnections
<1>2. ASSUME NEW s \in Sock, NEW q \in Sample, TcpRcvEstablished(s, q), UNCHANGED tlpSent
      PROVE  /\ tlpSent' \in [Sock -> Nat] /\ seen' \in [Sock -> SUBSET Sample]
             /\ latest' \in [Sock -> Sample \cup {NoSample}]
             /\ \A o \in Sock \ tracked : tlpSent'[o] = 0 /\ seen'[o] = {}
  BY <1>1, <1>2 DEF TcpRcvEstablished, ExactInv
<1>3. ASSUME NEW s \in Sock, LossProbe(s), UNCHANGED <<seen, latest>>
      PROVE  /\ tlpSent' \in [Sock -> Nat] /\ seen' \in [Sock -> SUBSET Sample]
             /\ latest' \in [Sock -> Sample \cup {NoSample}]
             /\ \A o \in Sock \ tracked : tlpSent'[o] = 0 /\ seen'[o] = {}
  BY <1>1, <1>3 DEF LossProbe, Counted, ExactInv
<1>4. ASSUME UNCHANGED <<tlpSent, seen, latest>>
      PROVE  /\ tlpSent' \in [Sock -> Nat] /\ seen' \in [Sock -> SUBSET Sample]
             /\ latest' \in [Sock -> Sample \cup {NoSample}]
             /\ \A o \in Sock \ tracked : tlpSent'[o] = 0 /\ seen'[o] = {}
  BY <1>4 DEF ExactInv
<1>5. ASSUME NEW s \in Sock,
             \/ TcpEnterCwr(s) \/ TcpEnterLoss(s) \/ TcpEnterRecovery(s)
      PROVE  UNCHANGED <<seen, latest>>
  BY <1>5 DEF TcpEnterCwr, TcpEnterLoss, TcpEnterRecovery
<1>6. ASSUME NEW s \in Sock,
             FastRetransmission(s) \/ TimerExpires(s) \/ TimeoutRetransmission(s) \/ TcpSacktag(s)
      PROVE  tlpSent' = tlpSent
  BY <1>6 DEF FastRetransmission, TimerExpires, TimeoutRetransmission, TcpSacktag
<1> QED BY <1>2, <1>3, <1>4, <1>5, <1>6 DEF QualityStep, RetransmitStep

LEMMA ExactProbeStep ==
  ASSUME ProbesBase, ExactInv,
         \/ QualityStep /\ UNCHANGED <<fastSent, tlpSent, timedOut>>
         \/ RetransmitStep /\ UNCHANGED <<seen, latest>>
  PROVE  ExactInv'
<1>1. /\ FlowTypeOK /\ QualityFrame
      /\ \A k \in FlowKey : flowTable'[k] = NoRow <=> flowTable[k] = NoRow
  BY ProbeRowChange DEF ProbeStep, ProbesBase, LifecycleInv, LifecycleTypeOK
<1>2. UNCHANGED <<sockState, tuple, recving, owner, stranded, tracked, overlaps>>
  BY <1>1 DEF QualityFrame, kernelVars, historyVars
<1>3. OwnRows' = OwnRows /\ RecvingOpen'
  BY <1>1, <1>2 DEF OwnRows, Rows, Unshared, Key, Reachable, RecvingOpen, ExactInv
<1>4. ASSUME NEW k \in OwnRows
      PROVE  /\ flowTable'[k].retransmit_tlp_count = Lesser(U32Max, tlpSent'[owner[k]])
             /\ QualityOf(flowTable'[k], seen'[owner[k]], latest'[owner[k]])
  <2>1. ASSUME NEW s \in Sock, NEW q \in Sample, TcpRcvEstablished(s, q), UNCHANGED tlpSent
        PROVE  /\ flowTable'[k].retransmit_tlp_count = Lesser(U32Max, tlpSent'[owner[k]])
               /\ QualityOf(flowTable'[k], seen'[owner[k]], latest'[owner[k]])
    BY <2>1, AckRow
  <2>2. ASSUME NEW s \in Sock, UNCHANGED tlpSent,
               TcpEnterCwr(s) \/ TcpEnterLoss(s) \/ TcpEnterRecovery(s)
        PROVE  /\ flowTable'[k].retransmit_tlp_count = Lesser(U32Max, tlpSent'[owner[k]])
               /\ QualityOf(flowTable'[k], seen'[owner[k]], latest'[owner[k]])
    <3>1. UNCHANGED <<seen, latest>>
      BY <2>2 DEF TcpEnterCwr, TcpEnterLoss, TcpEnterRecovery
    <3>2. \/ UpdateRow(SkKey(s), [SkRow(s) EXCEPT !.ecn_signals = SaturatingAdd(U32Max, @, 1)])
          \/ UpdateRow(SkKey(s), [SkRow(s) EXCEPT !.congestion_state_final = CaLoss])
          \/ UpdateRow(SkKey(s), [SkRow(s) EXCEPT !.congestion_state_final = CaRecovery])
      BY <2>2 DEF TcpEnterCwr, TcpEnterLoss, TcpEnterRecovery
    <3> QED BY <2>2, <3>1, <3>2, OtherProbeRow DEF OtherRows
  <2>3. ASSUME NEW s \in Sock, TcpSacktag(s), UNCHANGED <<seen, latest>>
        PROVE  /\ flowTable'[k].retransmit_tlp_count = Lesser(U32Max, tlpSent'[owner[k]])
               /\ QualityOf(flowTable'[k], seen'[owner[k]], latest'[owner[k]])
    <3>1. /\ UNCHANGED <<tlpSent, seen, latest>>
          /\ UpdateRow(SkKey(s), [SkRow(s) EXCEPT !.sack_blocks_received = SaturatingAdd(U32Max, @, 1)])
      BY <2>3 DEF TcpSacktag
    <3> QED BY <3>1, OtherProbeRow DEF OtherRows
  <2>4. ASSUME NEW s \in Sock, UNCHANGED <<seen, latest>>,
               FastRetransmission(s) \/ TimerExpires(s) \/ TimeoutRetransmission(s)
        PROVE  /\ flowTable'[k].retransmit_tlp_count = Lesser(U32Max, tlpSent'[owner[k]])
               /\ QualityOf(flowTable'[k], seen'[owner[k]], latest'[owner[k]])
    <3>1. UNCHANGED tlpSent
      BY <2>4 DEF FastRetransmission, TimerExpires, TimeoutRetransmission
    <3>2. PICK reason \in {Rto, Fast} : HandleRetransmit(s, reason)
      BY <2>4 DEF FastRetransmission, TimerExpires, TimeoutRetransmission
    <3>3. PICK f \in Flight : UpdateRow(SkKey(s), CountRetransmit(SkRow(s), reason, f))
      BY <3>2 DEF HandleRetransmit
    <3> QED BY <2>4, <3>1, <3>3, OtherProbeRow DEF OtherRows
  <2>5. ASSUME NEW s \in Sock, LossProbe(s)
        PROVE  /\ flowTable'[k].retransmit_tlp_count = Lesser(U32Max, tlpSent'[owner[k]])
               /\ QualityOf(flowTable'[k], seen'[owner[k]], latest'[owner[k]])
    BY <2>5, LossProbeRow
  <2> QED BY <2>1, <2>2, <2>3, <2>4, <2>5 DEF QualityStep, RetransmitStep
<1> QED BY <1>2, <1>3, <1>4, CountsOfTracked DEF ExactInv

LEMMA ExactInvariant == RetransmitSpec => []ExactInv
<1>1. RetransmitInit => ExactInv
  BY DEF RetransmitInit, QualityInit, LifecycleInit, ExactInv, OwnRows, Rows, RecvingOpen
<1>2. ProbesBase /\ ProbesBase' /\ ExactInv /\ [RetransmitNext]_retransmitVars => ExactInv'
  BY ProbesCases, ExactLifecycleStep, ExactProbeStep
<1> QED BY <1>1, <1>2, ProbesBaseInvariant, PTL DEF RetransmitSpec

\* The loss probes of a row are those of its connection.
THEOREM ProbesAreExact == RetransmitSpec => []ProbesExact
<1>1. ExactInv => ProbesExact
  BY DEF ExactInv, OwnRows, ProbesExact
<1> QED BY <1>1, ExactInvariant, PTL

\* RTTs and windows of a row are those of the ACKs of its connection.
THEOREM ProbesQualityExact == RetransmitSpec => []QualityExact
<1>1. ExactInv => QualityExact
  BY DEF ExactInv, OwnRows, QualityOf, QualityExact
<1> QED BY <1>1, ExactInvariant, PTL
=============================================================================

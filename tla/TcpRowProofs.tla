---------------------------- MODULE TcpRowProofs ----------------------------
(***************************************************************************)
(* Proofs about the rows of TcpLifecycle: how a step may change a row, the *)
(* order of the times in rows and events, counters that only grow, what it *)
(* takes for a close to report another connection's row, and that what is  *)
(* reported of the rows is what FlowReport allows.                         *)
(***************************************************************************)
EXTENDS TcpLifecycleProofs, SequenceTheorems

-----------------------------------------------------------------------------
(* What the handlers make of a row.                                        *)

\* The row st of a connection, after a handler found it.
RowsUnread(st) ==
  {st, [st EXCEPT !.congestion_state_final = ReasonReset]} \cup {RowSent(st, n) : n \in Nat}
RowsAfter(st) == RowsUnread(st) \cup {RowReceived(st, n) : n \in Nat}

\* A step keeps a row, lets a handler write to it, puts a fresh one in its
\* place for a connection that is opened, or takes it away.
RowChange(k, S) ==
  \/ flowTable'[k] = NoRow
  \/ flowTable[k] # NoRow /\ flowTable'[k] \in S /\ owner'[k] = owner[k]
  \/ \E t \in Task, dir \in {Outbound, Inbound}, s \in Sock :
       /\ flowTable'[k] = FilledRow(t, dir)
       /\ owner'[k] = s /\ sockState[s] \in {"new", "queued"} /\ sockState'[s] = "open"

\* A return of tcp_recvmsg in thread t that is counted as n bytes: they were
\* received, or an error was misread for them.
Counts(t, n) ==
  /\ CountReceived(t, n)
  /\ LET s == recving[t] IN recvd'[s] + misread'[s] = recvd[s] + misread[s] + n
  /\ \A s \in Sock : recvd[s] <= recvd'[s] /\ misread[s] <= misread'[s]

\* Such a return, for the row of key k.
RowReads(k) ==
  \E t \in Task, n \in Nat :
    /\ Counts(t, n) /\ recvmsgSock[t] # NoSock /\ k = Key(recvmsgSock[t])
    /\ flowTable[k] # NoRow /\ flowTable'[k] = RowReceived(flowTable[k], n)
    /\ owner'[k] = owner[k]

LEMMA ReturnCounts ==
  ASSUME LifecycleTypeOK, NEW t \in Task,
         \/ \E n \in RecvSize : TcpRecvmsgReturn(t, n)
         \/ \E e \in Errno : TcpRecvmsgReturnError(t, e)
  PROVE  \E n \in Nat : Counts(t, n)
<1>1. /\ recvd \in [Sock -> 0..MaxBytes] /\ misread \in [Sock -> 0..MaxMisread]
      /\ RecvSize \subseteq Nat /\ MaxBytes \in Nat /\ MaxMisread \in Nat
  BY CapacityAssumption DEF LifecycleTypeOK, FlowTypeOK
<1>2. ASSUME NEW n \in RecvSize, TcpRecvmsgReturn(t, n)
      PROVE  Counts(t, n)
  <2>1. n \in Nat /\ CountReceived(t, n) /\ misread' = misread
    BY <1>1, <1>2 DEF TcpRecvmsgReturn
  <2>2. recving[t] \in Sock /\ recvd' = [recvd EXCEPT ![recving[t]] = @ + n]
    BY <1>2, <2>1, CountReceivedType DEF TcpRecvmsgReturn
  <2> QED BY <1>1, <2>1, <2>2 DEF Counts
<1>3. ASSUME NEW e \in Errno, TcpRecvmsgReturnError(t, e)
      PROVE  Counts(t, MisreadError(e))
  <2> DEFINE n == MisreadError(e)
  <2>1. n \in Nat /\ CountReceived(t, n) /\ recvd' = recvd
    BY <1>3, MisreadType DEF TcpRecvmsgReturnError
  <2>2. recving[t] \in Sock /\ misread' = [misread EXCEPT ![recving[t]] = @ + n]
    BY <1>3, <2>1, CountReceivedType DEF TcpRecvmsgReturnError
  <2> HIDE DEF n
  <2>3. Counts(t, n)
    BY <1>1, <2>1, <2>2 DEF Counts
  <2> QED BY <2>3 DEF n
<1> QED BY <1>1, <1>2, <1>3, MisreadType

LEMMA UpdateChange ==
  ASSUME FlowTypeOK, NEW j \in FlowKey, NEW st, st \in RowsUnread(flowTable[j]),
         UpdateRow(j, st), owner' = owner, NEW k \in FlowKey
  PROVE  RowChange(k, RowsUnread(flowTable[k]))
  BY DEF UpdateRow, RowChange, RowsUnread, FlowTypeOK

LEMMA OpenChange ==
  ASSUME FlowTypeOK, NEW t \in Task, NEW s \in Sock, NEW dir \in {Outbound, Inbound},
         sockState[s] \in {"new", "queued"}, sockState'[s] = "open",
         InitFlowRow(t, s, dir), NEW k \in FlowKey
  PROVE  RowChange(k, RowsUnread(flowTable[k]))
<1>1. CASE InsertFails
  BY <1>1 DEF InsertFails, RowChange, RowsUnread
<1>2. ASSUME NEW V \in SUBSET (Rows \ {Key(s)}), InsertRow(t, s, dir, V)
      PROVE  RowChange(k, RowsUnread(flowTable[k]))
  <2>1. /\ flowTable'[k] = IF k = Key(s) THEN FilledRow(t, dir)
                           ELSE IF k \in V THEN NoRow ELSE flowTable[k]
        /\ owner'[k] = IF k = Key(s) THEN s ELSE IF k \in V THEN NoSock ELSE owner[k]
    BY <1>2 DEF InsertRow
  <2>2. CASE k = Key(s)
    BY <2>1, <2>2 DEF RowChange
  <2>3. CASE k # Key(s) /\ k \in V
    BY <2>1, <2>3 DEF RowChange
  <2>4. CASE k # Key(s) /\ k \notin V
    BY <2>1, <2>4 DEF RowChange, RowsUnread
  <2> QED BY <2>2, <2>3, <2>4
<1>3. ASSUME NEW V \in SUBSET (Rows \ {Key(s)}), InsertRowThenLose(s, V)
      PROVE  RowChange(k, RowsUnread(flowTable[k]))
  <2>1. /\ flowTable'[k] = IF k \in V \cup {Key(s)} THEN NoRow ELSE flowTable[k]
        /\ owner'[k] = IF k \in V \cup {Key(s)} THEN NoSock ELSE owner[k]
    BY <1>3 DEF InsertRowThenLose
  <2> QED BY <2>1 DEF RowChange, RowsUnread
<1> QED BY <1>1, <1>2, <1>3 DEF InitFlowRow

LEMMA RowStepInFull ==
  ASSUME LifecycleTypeOK, [LifecycleNext]_lifecycleVars, NEW k \in FlowKey
  PROVE  RowChange(k, RowsUnread(flowTable[k])) \/ RowReads(k)
<1>0. FlowTypeOK /\ RecvSize \subseteq Nat /\ SendSize \subseteq Nat
  BY CapacityAssumption DEF LifecycleTypeOK
<1>1. ASSUME UNCHANGED <<flowTable, owner>>
      PROVE  RowChange(k, RowsUnread(flowTable[k]))
  BY <1>1 DEF RowChange, RowsUnread
<1>2. CASE TaskStep \/ UNCHANGED lifecycleVars
  BY <1>1, <1>2 DEF TaskStep, lifecycleVars, flowVars, mapVars, historyVars
<1>3. ASSUME NEW t \in Task, NEW s \in Sock, TcpConnect(t, s) \/ InetCskAccept(t, s)
      PROVE  RowChange(k, RowsUnread(flowTable[k]))
  BY <1>0, <1>3, OpenChange DEF TcpConnect, InetCskAccept, FlowTypeOK
<1>4. ASSUME NEW s \in Sock, NEW size \in SendSize, TcpSendmsg(s, size)
      PROVE  RowChange(k, RowsUnread(flowTable[k]))
  <2>1. /\ UpdateRow(Key(s), RowSent(flowTable[Key(s)], size)) /\ owner' = owner
        /\ Key(s) \in FlowKey
    BY <1>0, <1>4, KeyType DEF TcpSendmsg, FlowTypeOK
  <2>2. RowSent(flowTable[Key(s)], size) \in RowsUnread(flowTable[Key(s)])
    BY <1>0 DEF RowsUnread
  <2> QED BY <1>0, <2>1, <2>2, UpdateChange
<1>5. ASSUME NEW s \in Sock, TcpSendActiveReset(s)
      PROVE  RowChange(k, RowsUnread(flowTable[k]))
  <2> DEFINE st == [flowTable[Key(s)] EXCEPT !.congestion_state_final = ReasonReset]
  <2>1. UpdateRow(Key(s), st) /\ owner' = owner /\ Key(s) \in FlowKey
    BY <1>0, <1>5, KeyType DEF TcpSendActiveReset, FlowTypeOK
  <2>2. st \in RowsUnread(flowTable[Key(s)])
    BY DEF RowsUnread
  <2> HIDE DEF st
  <2> QED BY <1>0, <2>1, <2>2, UpdateChange
<1>6. ASSUME NEW t \in Task, NEW n \in Nat, Counts(t, n)
      PROVE  RowChange(k, RowsUnread(flowTable[k])) \/ RowReads(k)
  <2> DEFINE j == Key(recvmsgSock[t])
  <2>1. CASE recvmsgSock[t] # NoSock
    <3>1. UpdateRow(j, RowReceived(flowTable[j], n)) /\ owner' = owner /\ j \in FlowKey
      BY <1>0, <1>6, <2>1, KeyType DEF Counts, CountReceived, FlowTypeOK
    <3>2. CASE k = j /\ flowTable[j] # NoRow
      <4>1. flowTable'[k] = RowReceived(flowTable[k], n)
        BY <1>0, <3>1, <3>2 DEF UpdateRow, FlowTypeOK
      <4> QED BY <1>6, <2>1, <3>1, <3>2, <4>1 DEF RowReads
    <3>3. CASE ~ (k = j /\ flowTable[j] # NoRow)
      <4>1. flowTable'[k] = flowTable[k]
        BY <1>0, <3>1, <3>3 DEF UpdateRow, FlowTypeOK
      <4> HIDE DEF j
      <4> QED BY <3>1, <4>1 DEF RowChange, RowsUnread
    <3> QED BY <3>2, <3>3
  <2>2. CASE recvmsgSock[t] = NoSock
    BY <1>1, <1>6, <2>2 DEF Counts, CountReceived
  <2> QED BY <2>1, <2>2
<1>7. ASSUME NEW s \in Sock, TcpClose(s)
      PROVE  RowChange(k, RowsUnread(flowTable[k]))
  <2>1. \/ UNCHANGED <<flowTable, owner>>
        \/ flowTable' = [flowTable EXCEPT ![Key(s)] = NoRow]
             /\ owner' = [owner EXCEPT ![Key(s)] = NoSock]
    BY <1>7 DEF TcpClose, CloseUntracked, CloseDropsEvent, CloseReports, mapVars, historyVars
  <2> QED BY <1>0, <1>1, <2>1 DEF RowChange, RowsUnread, FlowTypeOK
<1>8. ASSUME NEW t \in Task, NEW s \in Sock, InetCskAcceptMissed(t, s) \/ TcpRecvmsgEntry(t, s)
      PROVE  RowChange(k, RowsUnread(flowTable[k]))
  BY <1>1, <1>8 DEF InetCskAcceptMissed, TcpRecvmsgEntry, mapVars, historyVars
<1>9. ASSUME NEW t \in Task, NEW n,
             TcpRecvmsgReturnNothing(t) \/ TcpRecvmsgReturnMissed(t, n)
      PROVE  RowChange(k, RowsUnread(flowTable[k]))
  BY <1>1, <1>9 DEF TcpRecvmsgReturnNothing, TcpRecvmsgReturnMissed, mapVars, historyVars
<1>10. ASSUME NEW s \in Sock, Establish(s) \/ Finish(s) \/ Abandon(s)
       PROVE  RowChange(k, RowsUnread(flowTable[k]))
  BY <1>1, <1>10 DEF Establish, Finish, Abandon, mapVars, historyVars
<1>11. CASE RingNext
  BY <1>1, <1>11 DEF RingNext, historyVars
<1> QED BY <1>2, <1>3, <1>4, <1>5, <1>6, <1>7, <1>8, <1>9, <1>10, <1>11, ReturnCounts
        DEF LifecycleNext, FlowStep

LEMMA RowStep ==
  ASSUME LifecycleTypeOK, [LifecycleNext]_lifecycleVars, NEW k \in FlowKey
  PROVE  RowChange(k, RowsAfter(flowTable[k]))
<1>1. CASE RowChange(k, RowsUnread(flowTable[k]))
  BY <1>1 DEF RowChange, RowsAfter
<1>2. CASE RowReads(k)
  BY <1>2 DEF RowReads, RowChange, RowsAfter
<1> QED BY <1>1, <1>2, RowStepInFull

\* A step appends the event of a row to the ring, or takes the first one out.
LEMMA EventStep ==
  ASSUME LifecycleTypeOK, [LifecycleNext]_lifecycleVars
  PROVE  \/ flowEvents' = flowEvents
         \/ flowEvents # <<>> /\ flowEvents' = Tail(flowEvents)
         \/ \E k \in Rows, s \in Sock :
              /\ flowEvents' = Append(flowEvents,
                   [key |-> k, event |-> FlowEventOf(flowTable[k], now), closer |-> s, owner |-> owner[k]])
              /\ k = Key(s) /\ sockState[s] = "open" /\ UNCHANGED <<tuple, tracked, overlaps>>
<1>0. FlowTypeOK
  BY DEF LifecycleTypeOK
<1>1. CASE TaskStep \/ UNCHANGED lifecycleVars
  BY <1>1 DEF TaskStep, lifecycleVars, flowVars, mapVars
<1>2. ASSUME NEW s \in Sock, TcpClose(s)
      PROVE  \/ flowEvents' = flowEvents
             \/ \E k \in Rows, o \in Sock :
                  /\ flowEvents' = Append(flowEvents,
                       [key |-> k, event |-> FlowEventOf(flowTable[k], now), closer |-> o, owner |-> owner[k]])
                  /\ k = Key(o) /\ sockState[o] = "open" /\ UNCHANGED <<tuple, tracked, overlaps>>
  <2>1. CASE CloseReports(s)
    <3>1. Key(s) \in Rows
      BY <1>0, <2>1, KeyType DEF CloseReports, Rows, FlowTypeOK
    <3> QED BY <1>2, <2>1, <3>1 DEF CloseReports, TcpClose, Closable
  <2>2. CASE CloseUntracked(s) \/ CloseDropsEvent(s)
    BY <2>2 DEF CloseUntracked, CloseDropsEvent, mapVars
  <2> QED BY <1>2, <2>1, <2>2 DEF TcpClose
<1>3. ASSUME NEW t \in Task, NEW s \in Sock,
             \/ TcpConnect(t, s) \/ InetCskAccept(t, s) \/ InetCskAcceptMissed(t, s)
             \/ TcpRecvmsgEntry(t, s)
      PROVE  flowEvents' = flowEvents
  BY <1>3 DEF TcpConnect, InetCskAccept, InetCskAcceptMissed, TcpRecvmsgEntry, InitFlowRow, mapVars
<1>4. ASSUME NEW t \in Task, NEW n,
             \/ TcpRecvmsgReturnNothing(t) \/ TcpRecvmsgReturn(t, n)
             \/ TcpRecvmsgReturnError(t, n) \/ TcpRecvmsgReturnMissed(t, n)
      PROVE  flowEvents' = flowEvents
  BY <1>4 DEF TcpRecvmsgReturnNothing, TcpRecvmsgReturn, TcpRecvmsgReturnError, CountReceived,
              TcpRecvmsgReturnMissed, mapVars
<1>5. ASSUME NEW s \in Sock, NEW n,
             \/ Establish(s) \/ Finish(s) \/ TcpSendmsg(s, n) \/ TcpSendActiveReset(s)
             \/ Abandon(s)
      PROVE  flowEvents' = flowEvents
  BY <1>5 DEF Establish, Finish, TcpSendmsg, TcpSendActiveReset, Abandon, mapVars
<1>6. CASE RingNext
  BY <1>6 DEF RingNext
<1> QED BY <1>1, <1>2, <1>3, <1>4, <1>5, <1>6 DEF LifecycleNext, FlowStep

\* What holds of every event holds after the ring grew by one, or shrank.
LEMMA TailEvents ==
  ASSUME flowEvents \in Seq(RingItem), flowEvents # <<>>, flowEvents' = Tail(flowEvents)
  PROVE  \A i \in DOMAIN flowEvents' : i + 1 \in DOMAIN flowEvents /\ flowEvents'[i] = flowEvents[i + 1]
  OBVIOUS

LEMMA AppendedEvents ==
  ASSUME flowEvents \in Seq(RingItem), NEW item, flowEvents' = Append(flowEvents, item)
  PROVE  \A i \in DOMAIN flowEvents' : \/ i \in DOMAIN flowEvents /\ flowEvents'[i] = flowEvents[i]
                                       \/ flowEvents'[i] = item
  OBVIOUS

-----------------------------------------------------------------------------
(* Times.                                                                  *)

\* The times in a row lie between its connect and the clock.
RowTimes(st, time) ==
  /\ 0 < st.connect_ts_ns /\ st.connect_ts_ns <= time
  /\ \A ts \in {st.first_byte_ts_ns, st.first_recv_ts_ns, st.tls_ready_ts_ns} :
       ts # 0 => st.connect_ts_ns <= ts /\ ts <= time
  /\ st.has_tls = 1 <=> st.tls_ready_ts_ns # 0

EventTimes(e) ==
  /\ 0 < e.connect_ts_ns /\ e.connect_ts_ns <= e.close_ts_ns
  /\ e.duration_ns = e.close_ts_ns - e.connect_ts_ns
  /\ \A ts \in {e.first_byte_ts_ns, e.first_recv_ts_ns} :
       ts # 0 => e.connect_ts_ns <= ts /\ ts <= e.close_ts_ns
  /\ 0 <= e.time_to_first_byte_ns /\ e.time_to_first_byte_ns <= e.duration_ns
  /\ e.tls_handshake_ns <= e.duration_ns

TimesInv ==
  /\ \A k \in Rows : RowTimes(flowTable[k], now)
  /\ \A i \in DOMAIN flowEvents : EventTimes(flowEvents[i].event)

TimeFields ==
  {"connect_ts_ns", "first_byte_ts_ns", "first_recv_ts_ns", "tls_ready_ts_ns", "has_tls"}

LEMMA TimesAreNumbers ==
  ASSUME NEW st \in FlowState
  PROVE  \A f \in TimeFields : f \in DOMAIN EMPTY_FLOW_STATE /\ st[f] \in Nat
  BY DEF FlowState, EMPTY_FLOW_STATE, TimeFields

LEMMA RowTimesLater ==
  ASSUME NEW st \in FlowState, NEW a \in Nat, NEW b \in Nat, a <= b, RowTimes(st, a)
  PROVE  RowTimes(st, b)
  BY TimesAreNumbers DEF RowTimes, TimeFields

LEMMA RowTimesKept ==
  ASSUME NEW st \in FlowState, now \in Nat \ {0}, RowTimes(st, now), NEW new \in RowsAfter(st)
  PROVE  RowTimes(new, now)
<1>1. /\ st.connect_ts_ns \in Nat /\ st.first_byte_ts_ns \in Nat /\ st.first_recv_ts_ns \in Nat
      /\ st.tls_ready_ts_ns \in Nat
      /\ TimeFields \subseteq DOMAIN st
  BY TimesAreNumbers DEF TimeFields, FlowState
<1>2. CASE new = [st EXCEPT !.congestion_state_final = ReasonReset]
  BY <1>1, <1>2 DEF RowTimes
<1>3. ASSUME NEW n \in Nat, new = RowSent(st, n)
      PROVE  RowTimes(new, now)
  <2>1. /\ new.connect_ts_ns = st.connect_ts_ns /\ new.first_recv_ts_ns = st.first_recv_ts_ns
        /\ new.tls_ready_ts_ns = st.tls_ready_ts_ns /\ new.has_tls = st.has_tls
        /\ new.first_byte_ts_ns = IF st.first_byte_ts_ns = 0 THEN now ELSE st.first_byte_ts_ns
    BY <1>1, <1>3 DEF RowSent, TimeFields
  <2> QED BY <1>1, <2>1 DEF RowTimes
<1>4. ASSUME NEW n \in Nat, new = RowReceived(st, n)
      PROVE  RowTimes(new, now)
  <2>1. /\ new.connect_ts_ns = st.connect_ts_ns /\ new.first_byte_ts_ns = st.first_byte_ts_ns
        /\ new.tls_ready_ts_ns = st.tls_ready_ts_ns /\ new.has_tls = st.has_tls
        /\ new.first_recv_ts_ns = IF st.first_recv_ts_ns = 0 THEN now ELSE st.first_recv_ts_ns
    BY <1>1, <1>4 DEF RowReceived, TimeFields
  <2> QED BY <1>1, <2>1 DEF RowTimes
<1> QED BY <1>2, <1>3, <1>4 DEF RowsAfter, RowsUnread

LEMMA FilledRowTimes ==
  ASSUME now \in Nat \ {0}, NEW t \in Task, NEW dir
  PROVE  RowTimes(FilledRow(t, dir), now)
<1>1. /\ FilledRow(t, dir).connect_ts_ns = now /\ FilledRow(t, dir).first_byte_ts_ns = 0
      /\ FilledRow(t, dir).first_recv_ts_ns = 0 /\ FilledRow(t, dir).tls_ready_ts_ns = 0
      /\ FilledRow(t, dir).has_tls = 0
  BY DEF FilledRow, EMPTY_FLOW_STATE
<1> QED BY <1>1 DEF RowTimes

LEMMA EventOfRowTimes ==
  ASSUME NEW st \in FlowState, now \in Nat \ {0}, RowTimes(st, now)
  PROVE  EventTimes(FlowEventOf(st, now))
<1> DEFINE e == FlowEventOf(st, now)
           d == DerivedFields(st, now)
<1>1. /\ st.connect_ts_ns \in Nat /\ st.first_byte_ts_ns \in Nat /\ st.first_recv_ts_ns \in Nat
      /\ st.tls_ready_ts_ns \in Nat
  BY TimesAreNumbers DEF TimeFields
<1>2. /\ e.connect_ts_ns = st.connect_ts_ns /\ e.first_byte_ts_ns = st.first_byte_ts_ns
      /\ e.first_recv_ts_ns = st.first_recv_ts_ns
      /\ e.close_ts_ns = d.close_ts_ns /\ e.duration_ns = d.duration_ns
      /\ e.time_to_first_byte_ns = d.time_to_first_byte_ns
      /\ e.tls_handshake_ns = d.tls_handshake_ns
  <2>1. DOMAIN d = {"close_ts_ns", "duration_ns", "time_to_first_byte_ns",
                    "tls_handshake_ns", "app_response_time_ns", "srtt_us_min",
                    "cwnd_min", "srtt_us_final", "close_reason"}
        /\ DOMAIN DerivedFields(EMPTY_FLOW_STATE, 0) = DOMAIN d
    BY DEF DerivedFields
  <2>2. {"connect_ts_ns", "first_byte_ts_ns", "first_recv_ts_ns"} \subseteq CopiedFields
    BY DEF CopiedFields
  <2> HIDE DEF d
  <2>3. \A f \in FlowEventField : e[f] = IF f \in DOMAIN d THEN d[f] ELSE st[f]
    BY DEF FlowEventOf, d
  <2> HIDE DEF e
  <2> QED BY <2>1, <2>2, <2>3 DEF FlowEventField
<1>3. /\ d.close_ts_ns = now /\ d.duration_ns = now - st.connect_ts_ns
      /\ d.time_to_first_byte_ns \in 0..(now - st.connect_ts_ns)
      /\ d.tls_handshake_ns \in 0..(now - st.connect_ts_ns)
  BY <1>1 DEF DerivedFields, SaturatingSub, RowTimes
<1> HIDE DEF e, d
<1> QED BY <1>1, <1>2, <1>3 DEF EventTimes, RowTimes, e

LEMMA TimesStep ==
  ASSUME LifecycleTypeOK, LifecycleTypeOK', TimesInv, [LifecycleNext]_lifecycleVars
  PROVE  TimesInv'
<1>1. /\ now \in Nat \ {0} /\ now' \in Nat \ {0}
      /\ FlowTypeOK /\ flowEvents \in Seq(RingItem)
      /\ \A k \in FlowKey : flowTable[k] # NoRow => flowTable[k] \in FlowState
      /\ \A k \in FlowKey : flowTable'[k] # NoRow => flowTable'[k] \in FlowState
  BY DEF LifecycleTypeOK, CausalTypeOK, FlowTypeOK
<1>2. now <= now'
  <2>1. [CausalNext]_causalVars
    BY LifecycleStepCausal
  <2> QED BY <1>1, <2>1 DEF CausalNext, causalVars, Tick, NewTask, Exit
<1>3. ASSUME NEW k \in FlowKey, flowTable'[k] # NoRow
      PROVE  RowTimes(flowTable'[k], now')
  <2>1. flowTable'[k] \in FlowState /\ RowChange(k, RowsAfter(flowTable[k]))
    BY <1>1, <1>3, RowStep
  <2>2. RowTimes(flowTable'[k], now)
    <3>1. ASSUME flowTable[k] # NoRow, flowTable'[k] \in RowsAfter(flowTable[k])
          PROVE  RowTimes(flowTable'[k], now)
      <4>1. RowTimes(flowTable[k], now) /\ flowTable[k] \in FlowState
        BY <1>1, <3>1 DEF TimesInv, Rows
      <4> QED BY <1>1, <3>1, <4>1, RowTimesKept
    <3> QED BY <1>1, <1>3, <2>1, <3>1, FilledRowTimes DEF RowChange
  <2> QED BY <1>1, <1>2, <2>1, <2>2, RowTimesLater
<1>4. ASSUME NEW i \in DOMAIN flowEvents'
      PROVE  EventTimes(flowEvents'[i].event)
  <2>1. CASE flowEvents' = flowEvents
    BY <1>4, <2>1 DEF TimesInv
  <2>2. CASE flowEvents # <<>> /\ flowEvents' = Tail(flowEvents)
    BY <1>1, <1>4, <2>2, TailEvents DEF TimesInv
  <2>3. ASSUME NEW k \in Rows, NEW s \in Sock,
               flowEvents' = Append(flowEvents,
                 [key |-> k, event |-> FlowEventOf(flowTable[k], now), closer |-> s, owner |-> owner[k]])
        PROVE  EventTimes(flowEvents'[i].event)
    <3> DEFINE item == [key |-> k, event |-> FlowEventOf(flowTable[k], now), closer |-> s, owner |-> owner[k]]
    <3>1. EventTimes(item.event)
      BY <1>1, EventOfRowTimes DEF TimesInv, Rows
    <3>2. \/ i \in DOMAIN flowEvents /\ flowEvents'[i] = flowEvents[i]
          \/ flowEvents'[i] = item
      BY <1>1, <1>4, <2>3, AppendedEvents
    <3> HIDE DEF item
    <3> QED BY <3>1, <3>2 DEF TimesInv
  <2> QED BY <2>1, <2>2, <2>3, EventStep
<1> QED BY <1>3, <1>4 DEF TimesInv, Rows

\* The times of an event are in order and what is computed from them stays
\* within the duration (tcp_lifecycle.rs:216-217, 270-289).
THEOREM LifecycleTimes == LifecycleSpec => []EventTimesOrdered
<1>1. LifecycleInit => TimesInv
  BY DEF LifecycleInit, TimesInv, Rows
<1>2. LifecycleTypeOK /\ LifecycleTypeOK' /\ TimesInv /\ [LifecycleNext]_lifecycleVars => TimesInv'
  BY TimesStep
<1>3. TimesInv => EventTimesOrdered
  BY DEF TimesInv, EventTimes, EventTimesOrdered
<1> QED BY <1>1, <1>2, <1>3, LifecycleTypeCorrect, PTL DEF LifecycleSpec

-----------------------------------------------------------------------------
(* Counters.                                                               *)

Counters == {"bytes_sent", "bytes_recv", "pkts_sent", "pkts_recv"}

CountersInv == \A k \in Rows : \A f \in Counters : flowTable[k][f] <= U64Max

LEMMA SaturatingAddGrows ==
  ASSUME NEW a \in Nat, NEW b \in Nat, a <= U64Max
  PROVE  a <= SaturatingAdd(U64Max, a, b) /\ SaturatingAdd(U64Max, a, b) <= U64Max
  BY WidthAssumption DEF SaturatingAdd

FixedFields ==
  {"pid", "direction", "connect_ts_ns", "chain_id", "parent_chain_id", "chain_depth"}

LEMMA RowGrows ==
  ASSUME NEW st \in FlowState, now \in Nat, NEW new \in RowsAfter(st),
         \A f \in Counters : st[f] <= U64Max
  PROVE  /\ \A f \in FixedFields : new[f] = st[f]
         /\ \A f \in Counters : st[f] <= new[f] /\ new[f] <= U64Max
         /\ \A f \in {"first_byte_ts_ns", "first_recv_ts_ns"} : st[f] # 0 => new[f] = st[f]
<1>1. /\ FixedFields \cup Counters \cup {"first_byte_ts_ns", "first_recv_ts_ns"} \subseteq DOMAIN st
      /\ \A f \in Counters : st[f] \in Nat /\ st[f] <= st[f]
  BY DEF FixedFields, Counters, FlowState, EMPTY_FLOW_STATE
<1>2. CASE new = st
  BY <1>1, <1>2
<1>3. CASE new = [st EXCEPT !.congestion_state_final = ReasonReset]
  <2>1. \A f \in DOMAIN st : f # "congestion_state_final" => new[f] = st[f]
    BY <1>3
  <2> QED BY <1>1, <2>1 DEF FixedFields, Counters
<1>4. ASSUME NEW n \in Nat, new = RowSent(st, n)
      PROVE  /\ \A f \in FixedFields : new[f] = st[f]
             /\ \A f \in Counters : st[f] <= new[f] /\ new[f] <= U64Max
             /\ \A f \in {"first_byte_ts_ns", "first_recv_ts_ns"} : st[f] # 0 => new[f] = st[f]
  <2>1. \A f \in DOMAIN st :
          new[f] = CASE f = "bytes_sent" -> SaturatingAdd(U64Max, st[f], n)
                     [] f = "pkts_sent" -> SaturatingAdd(U64Max, st[f], 1)
                     [] f = "first_byte_ts_ns" -> IF st[f] = 0 THEN now ELSE st[f]
                     [] OTHER -> st[f]
    BY <1>4 DEF RowSent
  <2>2. \A f \in Counters : st[f] <= new[f] /\ new[f] <= U64Max
    <3> TAKE f \in Counters
    <3>1. /\ f \in DOMAIN st /\ st[f] \in Nat /\ st[f] <= st[f] /\ st[f] <= U64Max
          /\ f \notin {"first_byte_ts_ns", "first_recv_ts_ns"}
      BY <1>1 DEF Counters
    <3>2. new[f] \in {st[f], SaturatingAdd(U64Max, st[f], n), SaturatingAdd(U64Max, st[f], 1)}
      BY <2>1, <3>1
    <3> QED BY <3>1, <3>2, SaturatingAddGrows
  <2>3. \A f \in FixedFields : f \notin {"bytes_sent", "pkts_sent", "first_byte_ts_ns"}
    BY DEF FixedFields
  <2> QED BY <1>1, <2>1, <2>2, <2>3
<1>5. ASSUME NEW n \in Nat, new = RowReceived(st, n)
      PROVE  /\ \A f \in FixedFields : new[f] = st[f]
             /\ \A f \in Counters : st[f] <= new[f] /\ new[f] <= U64Max
             /\ \A f \in {"first_byte_ts_ns", "first_recv_ts_ns"} : st[f] # 0 => new[f] = st[f]
  <2>1. \A f \in DOMAIN st :
          new[f] = CASE f = "bytes_recv" -> SaturatingAdd(U64Max, st[f], n)
                     [] f = "pkts_recv" -> SaturatingAdd(U64Max, st[f], 1)
                     [] f = "first_recv_ts_ns" -> IF st[f] = 0 THEN now ELSE st[f]
                     [] OTHER -> st[f]
    BY <1>5 DEF RowReceived
  <2>2. \A f \in Counters : st[f] <= new[f] /\ new[f] <= U64Max
    <3> TAKE f \in Counters
    <3>1. /\ f \in DOMAIN st /\ st[f] \in Nat /\ st[f] <= st[f] /\ st[f] <= U64Max
          /\ f \notin {"first_byte_ts_ns", "first_recv_ts_ns"}
      BY <1>1 DEF Counters
    <3>2. new[f] \in {st[f], SaturatingAdd(U64Max, st[f], n), SaturatingAdd(U64Max, st[f], 1)}
      BY <2>1, <3>1
    <3> QED BY <3>1, <3>2, SaturatingAddGrows
  <2>3. \A f \in FixedFields : f \notin {"bytes_recv", "pkts_recv", "first_recv_ts_ns"}
    BY DEF FixedFields
  <2> QED BY <1>1, <2>1, <2>2, <2>3
<1> QED BY <1>2, <1>3, <1>4, <1>5 DEF RowsAfter, RowsUnread

LEMMA CountersStep ==
  ASSUME LifecycleTypeOK, CountersInv, [LifecycleNext]_lifecycleVars
  PROVE  CountersInv'
<1> SUFFICES ASSUME NEW k \in FlowKey, flowTable'[k] # NoRow, NEW f \in Counters
             PROVE  flowTable'[k][f] <= U64Max
  BY DEF CountersInv, Rows
<1>1. now \in Nat /\ (flowTable[k] # NoRow => flowTable[k] \in FlowState)
  BY DEF LifecycleTypeOK, CausalTypeOK, FlowTypeOK
<1>2. CASE flowTable[k] # NoRow /\ flowTable'[k] \in RowsAfter(flowTable[k])
  BY <1>1, <1>2, RowGrows DEF CountersInv, Rows
<1>3. ASSUME NEW t \in Task, NEW dir, flowTable'[k] = FilledRow(t, dir)
      PROVE  flowTable'[k][f] <= U64Max
  <2>1. FilledRow(t, dir)[f] = 0
    <3>1. FilledRow(t, dir)[f] = EMPTY_FLOW_STATE[f]
      <4>1. f \in DOMAIN EMPTY_FLOW_STATE
        BY DEF Counters, EMPTY_FLOW_STATE
      <4> QED BY <4>1 DEF FilledRow, Counters
    <3> QED BY <3>1 DEF EMPTY_FLOW_STATE, Counters
  <2> QED BY <1>3, <2>1, WidthAssumption
<1> QED BY <1>2, <1>3, RowStep DEF RowChange

\* A row that stays one connection's keeps what it was made with, and its
\* counters never go down.
THEOREM LifecycleRowMonotone == LifecycleSpec => RowMonotone
<1>1. LifecycleInit => CountersInv
  BY DEF LifecycleInit, CountersInv, Rows
<1>2. LifecycleTypeOK /\ CountersInv /\ [LifecycleNext]_lifecycleVars => CountersInv'
  BY CountersStep
<1>3. LifecycleInv => LifecycleTypeOK
  BY DEF LifecycleInv
<1>4. ASSUME LifecycleInv, CountersInv, [LifecycleNext]_lifecycleVars,
             NEW k \in FlowKey, owner[k] # NoSock, owner'[k] = owner[k], LifecycleInv'
      PROVE  /\ \A f \in FixedFields : flowTable'[k][f] = flowTable[k][f]
             /\ \A f \in Counters : flowTable'[k][f] >= flowTable[k][f]
             /\ \A f \in {"first_byte_ts_ns", "first_recv_ts_ns"} :
                  flowTable[k][f] # 0 => flowTable'[k][f] = flowTable[k][f]
  <2>1. /\ flowTable[k] # NoRow /\ flowTable'[k] # NoRow /\ k \in Rows
        /\ flowTable[k] \in FlowState /\ flowTable'[k] \in FlowState /\ now \in Nat
    BY <1>3, <1>4 DEF LifecycleInv, LifecycleTypeOK, CausalTypeOK, FlowTypeOK, Rows
  <2>2. owner[k] \in Sock /\ owner[k] \in tracked
    BY <1>4, <2>1 DEF LifecycleInv, RowsOfOpenConnections
  <2>3. sockState[owner[k]] \notin {"new", "queued"}
    BY <1>4, <2>2 DEF LifecycleInv, OpenFirst
  <2>4. flowTable'[k] \in RowsAfter(flowTable[k])
    BY <1>3, <1>4, <2>1, <2>3, RowStep DEF RowChange
  <2>5. \A f \in Counters : flowTable[k][f] \in Nat /\ flowTable'[k][f] \in Nat
    BY <2>1 DEF Counters, FlowState, EMPTY_FLOW_STATE
  <2> QED BY <1>4, <2>1, <2>4, <2>5, RowGrows DEF CountersInv
<1>5. LifecycleInv /\ LifecycleInv' /\ CountersInv /\ [LifecycleNext]_lifecycleVars =>
        [\A k \in FlowKey : (owner[k] # NoSock /\ owner'[k] = owner[k]) =>
           /\ \A f \in {"pid", "direction", "connect_ts_ns", "chain_id",
                         "parent_chain_id", "chain_depth"} :
                flowTable'[k][f] = flowTable[k][f]
           /\ \A f \in {"bytes_sent", "bytes_recv", "pkts_sent", "pkts_recv"} :
                flowTable'[k][f] >= flowTable[k][f]
           /\ \A f \in {"first_byte_ts_ns", "first_recv_ts_ns"} :
                flowTable[k][f] # 0 => flowTable'[k][f] = flowTable[k][f]]_lifecycleVars
  BY <1>4 DEF FixedFields, Counters
<1> QED BY <1>1, <1>2, <1>3, <1>5, LifecycleInvariant, PTL DEF LifecycleSpec, RowMonotone

-----------------------------------------------------------------------------
(* Connections.                                                            *)

\* A thread receives on an open connection only.
RecvingOpen == \A t \in Task : recving[t] # NoSock => sockState[recving[t]] = "open"

\* A closed connection is not used again, what is counted for one only grows,
\* and a row is made for one when it is opened.
SockChange ==
  /\ tuple' = tuple /\ stranded \subseteq stranded' /\ tracked \subseteq tracked'
  /\ overlaps \subseteq overlaps'
  /\ \A s \in Sock :
       /\ recvd[s] <= recvd'[s] /\ misread[s] <= misread'[s]
       /\ sockState[s] = "closed" => sockState'[s] = "closed"
       /\ s \in tracked' \ tracked =>
            sockState[s] \in {"new", "queued"} /\ owner'[Key(s)] \in {s, NoSock}

LEMMA SockStep ==
  ASSUME LifecycleTypeOK, RecvingOpen, [LifecycleNext]_lifecycleVars
  PROVE  RecvingOpen' /\ SockChange
<1>0. /\ FlowTypeOK /\ RecvSize \subseteq Nat
      /\ \A s \in Sock : recvd[s] \in Nat /\ misread[s] \in Nat
  BY CapacityAssumption DEF LifecycleTypeOK, FlowTypeOK
<1>1. ASSUME UNCHANGED <<tuple, recving, sockState, stranded, tracked, recvd, misread>>,
             overlaps \subseteq overlaps'
      PROVE  RecvingOpen' /\ SockChange
  BY <1>0, <1>1 DEF RecvingOpen, SockChange
<1>2. ASSUME NEW t \in Task, NEW s \in Sock, TcpConnect(t, s) \/ InetCskAccept(t, s)
      PROVE  RecvingOpen' /\ SockChange
  <2>1. /\ sockState[s] \in {"new", "queued"} /\ sockState' = [sockState EXCEPT ![s] = "open"]
        /\ UNCHANGED <<tuple, recving, stranded, recvd, misread>>
        /\ overlaps \subseteq overlaps'
    BY <1>2 DEF TcpConnect, InetCskAccept, InitFlowRow
  <2>2. \/ tracked' = tracked
        \/ tracked' = tracked \cup {s} /\ owner'[Key(s)] \in {s, NoSock}
    <3>1. PICK dir \in {Outbound, Inbound} : InitFlowRow(t, s, dir)
      BY <1>2 DEF TcpConnect, InetCskAccept
    <3> QED BY <1>0, <3>1, KeyType DEF InitFlowRow, InsertFails, InsertRow, InsertRowThenLose, FlowTypeOK
  <2> QED BY <1>0, <2>1, <2>2 DEF RecvingOpen, SockChange, FlowTypeOK
<1>3. ASSUME NEW s \in Sock, Establish(s) \/ \E t \in Task : InetCskAcceptMissed(t, s)
      PROVE  RecvingOpen' /\ SockChange
  BY <1>0, <1>3 DEF Establish, InetCskAcceptMissed, historyVars, RecvingOpen, SockChange, FlowTypeOK
<1>4. ASSUME NEW t \in Task, NEW s \in Sock, TcpRecvmsgEntry(t, s)
      PROVE  RecvingOpen' /\ SockChange
  BY <1>0, <1>4 DEF TcpRecvmsgEntry, historyVars, RecvingOpen, SockChange, FlowTypeOK
<1>5. ASSUME NEW t \in Task,
             \/ TcpRecvmsgReturnNothing(t)
             \/ \E n \in Nat : Counts(t, n) \/ TcpRecvmsgReturnMissed(t, n)
      PROVE  RecvingOpen' /\ SockChange
  <2>1. /\ recving' = [recving EXCEPT ![t] = NoSock] /\ recving[t] # NoSock
        /\ UNCHANGED <<tuple, sockState, stranded, tracked, overlaps>>
    BY <1>5 DEF TcpRecvmsgReturnNothing, Counts, CountReceived, TcpRecvmsgReturnMissed,
                historyVars
  <2>2. \A s \in Sock : recvd[s] <= recvd'[s] /\ misread[s] <= misread'[s]
    <3>1. CASE \E n \in Nat : Counts(t, n)
      BY <3>1 DEF Counts
    <3>2. CASE TcpRecvmsgReturnNothing(t)
      BY <1>0, <3>2 DEF TcpRecvmsgReturnNothing, historyVars
    <3>3. ASSUME NEW n \in Nat, TcpRecvmsgReturnMissed(t, n)
          PROVE  \A s \in Sock : recvd[s] <= recvd'[s] /\ misread[s] <= misread'[s]
      BY <1>0, <3>3 DEF TcpRecvmsgReturnMissed, FlowTypeOK
    <3> QED BY <1>5, <3>1, <3>2, <3>3
  <2>3. RecvingOpen'
    BY <1>0, <2>1 DEF RecvingOpen, FlowTypeOK
  <2> QED BY <2>1, <2>2, <2>3 DEF SockChange
<1>6. ASSUME NEW s \in Sock, (\E n \in SendSize : TcpSendmsg(s, n)) \/ TcpSendActiveReset(s)
      PROVE  RecvingOpen' /\ SockChange
  BY <1>1, <1>6 DEF TcpSendmsg, TcpSendActiveReset, kernelVars
<1>7. ASSUME NEW s \in Sock, TcpClose(s) \/ Abandon(s)
      PROVE  RecvingOpen' /\ SockChange
  <2>1. /\ \A t \in Task : recving[t] # s
        /\ sockState' = [sockState EXCEPT ![s] = "closed"]
        /\ UNCHANGED <<tuple, recving, recvd, misread, tracked, overlaps>>
        /\ stranded \subseteq stranded'
    BY <1>7 DEF TcpClose, Abandon, Closable, CloseUntracked, CloseDropsEvent, CloseReports, historyVars
  <2> QED BY <1>0, <2>1 DEF RecvingOpen, SockChange, FlowTypeOK
<1>8. CASE RingNext \/ TaskStep \/ (\E s \in Sock : Finish(s)) \/ UNCHANGED lifecycleVars
  BY <1>1, <1>8 DEF RingNext, TaskStep, Finish, lifecycleVars, flowVars, kernelVars, historyVars
<1> QED BY <1>0, <1>2, <1>3, <1>4, <1>5, <1>6, <1>7, <1>8, ReturnCounts
        DEF LifecycleNext, FlowStep

-----------------------------------------------------------------------------
(* What was received.                                                      *)

RecvInv == RecvingOpen /\ RecvNeverOvercounted

\* A return that is counted finds the row of the connection it read from: the
\* only connection in use with this four-tuple.
LEMMA ReadsOwnRow ==
  ASSUME LifecycleInv, RecvingOpen, RecvCreditsOwnSocket, NEW k \in FlowKey, RowReads(k),
         Unshared(owner[k]), owner[k] \notin stranded
  PROVE  LET o == owner[k] IN
           flowTable'[k].bytes_recv - flowTable[k].bytes_recv
             <= (recvd'[o] + misread'[o]) - (recvd[o] + misread[o])
<1>1. PICK t \in Task, n \in Nat :
        /\ Counts(t, n) /\ recvmsgSock[t] # NoSock /\ k = Key(recvmsgSock[t])
        /\ flowTable[k] # NoRow /\ flowTable'[k] = RowReceived(flowTable[k], n)
  BY DEF RowReads
<1>2. FlowTypeOK /\ LifecycleTypeOK /\ CountReceived(t, n)
  BY <1>1 DEF LifecycleInv, LifecycleTypeOK, Counts
<1>3. recvmsgSock[t] = recving[t] /\ recving[t] \in Sock /\ sockState[recving[t]] = "open"
  BY <1>1, <1>2 DEF CountReceived, RecvCreditsOwnSocket, RecvingOpen, FlowTypeOK
<1>4. owner[k] \in Sock /\ k = Key(owner[k]) /\ sockState[owner[k]] = "open"
  BY <1>1 DEF LifecycleInv, RowsOfOpenConnections, Rows
<1>5. owner[k] = recving[t]
  BY <1>1, <1>3, <1>4 DEF Unshared, LifecycleInv, SharersOverlap, InUse
<1>6. LET o == owner[k] IN /\ recvd'[o] + misread'[o] = recvd[o] + misread[o] + n
                           /\ recvd[o] \in Nat /\ misread[o] \in Nat
  BY <1>1, <1>2, <1>4, <1>5, CapacityAssumption DEF Counts, FlowTypeOK
<1>7. /\ flowTable[k].bytes_recv \in Nat
      /\ flowTable'[k].bytes_recv = SaturatingAdd(U64Max, flowTable[k].bytes_recv, n)
  BY <1>1, <1>2 DEF RowReceived, FlowTypeOK, FlowState, EMPTY_FLOW_STATE
<1> QED BY <1>6, <1>7, WidthAssumption DEF SaturatingAdd

LEMMA RecvStep ==
  ASSUME LifecycleInv, LifecycleInv', RecvCreditsOwnSocket, RecvInv, [LifecycleNext]_lifecycleVars
  PROVE  RecvInv'
<1>1. /\ LifecycleTypeOK /\ FlowTypeOK /\ FlowTypeOK'
      /\ RecvingOpen /\ RecvingOpen' /\ SockChange
  BY SockStep DEF LifecycleInv, LifecycleTypeOK, RecvInv
<1>2. /\ \A s \in Sock : Key(s)' = Key(s) /\ (Unshared(s)' => Unshared(s))
      /\ \A s \in Sock : /\ recvd[s] + misread[s] \in Nat /\ recvd'[s] + misread'[s] \in Nat
                         /\ recvd[s] + misread[s] <= recvd'[s] + misread'[s]
  <2>1. \A s \in Sock : /\ recvd[s] \in Nat /\ recvd'[s] \in Nat
                        /\ misread[s] \in Nat /\ misread'[s] \in Nat
    BY <1>1, CapacityAssumption DEF FlowTypeOK
  <2> QED BY <1>1, <2>1, KeysFixed DEF SockChange
<1>3. ASSUME NEW k \in FlowKey, flowTable'[k] # NoRow,
             Unshared(owner[k])', owner'[k] \notin stranded'
      PROVE  flowTable'[k].bytes_recv <= recvd'[owner'[k]] + misread'[owner'[k]]
  <2>1. owner'[k] \in Sock /\ Unshared(owner'[k])
    BY <1>1, <1>2, <1>3 DEF FlowTypeOK
  <2>2. ASSUME flowTable[k] # NoRow, owner'[k] = owner[k]
        PROVE  /\ flowTable[k].bytes_recv \in Nat /\ owner[k] \notin stranded
               /\ flowTable[k].bytes_recv <= recvd[owner[k]] + misread[owner[k]]
    <3>1. owner[k] \notin stranded /\ Unshared(owner[k]) /\ k \in Rows
      BY <1>1, <1>3, <2>1, <2>2 DEF SockChange, Rows
    <3>2. flowTable[k] \in FlowState
      BY <1>1, <2>2 DEF FlowTypeOK
    <3>3. flowTable[k].bytes_recv \in Nat
      BY <3>2 DEF FlowState, EMPTY_FLOW_STATE
    <3> QED BY <3>1, <3>3 DEF RecvInv, RecvNeverOvercounted
  <2>3. ASSUME NEW t \in Task, NEW dir, flowTable'[k] = FilledRow(t, dir)
        PROVE  flowTable'[k].bytes_recv = 0
    BY <2>3 DEF FilledRow, EMPTY_FLOW_STATE
  <2>4. ASSUME flowTable[k] # NoRow, flowTable'[k] \in RowsUnread(flowTable[k])
        PROVE  flowTable'[k].bytes_recv = flowTable[k].bytes_recv
    <3>1. flowTable[k] \in FlowState
      BY <1>1, <2>4 DEF FlowTypeOK
    <3> QED BY <2>4, <3>1 DEF RowsUnread, RowSent, FlowState, EMPTY_FLOW_STATE
  <2>5. CASE RowChange(k, RowsUnread(flowTable[k]))
    BY <1>2, <1>3, <2>1, <2>2, <2>3, <2>4, <2>5 DEF RowChange
  <2>6. CASE RowReads(k)
    <3>1. flowTable[k] # NoRow /\ owner'[k] = owner[k]
      BY <2>6 DEF RowReads
    <3>2. flowTable'[k].bytes_recv - flowTable[k].bytes_recv
            <= (recvd'[owner[k]] + misread'[owner[k]]) - (recvd[owner[k]] + misread[owner[k]])
      BY <1>1, <2>1, <2>2, <2>6, <3>1, ReadsOwnRow
    <3>3. flowTable'[k].bytes_recv \in Nat
      <4>1. flowTable'[k] \in FlowState
        BY <1>1, <1>3 DEF FlowTypeOK
      <4> QED BY <4>1 DEF FlowState, EMPTY_FLOW_STATE
    <3> QED BY <1>2, <2>1, <2>2, <3>1, <3>2, <3>3
  <2> QED BY <1>1, <2>5, <2>6, RowStepInFull
<1>4. ASSUME NEW i \in DOMAIN flowEvents', OwnRow(flowEvents[i])'
      PROVE  flowEvents'[i].event.bytes_recv
               <= recvd'[flowEvents'[i].owner] + misread'[flowEvents'[i].owner]
  <2>1. ASSUME NEW j \in DOMAIN flowEvents, flowEvents'[i] = flowEvents[j]
        PROVE  flowEvents'[i].event.bytes_recv
                 <= recvd'[flowEvents'[i].owner] + misread'[flowEvents'[i].owner]
    <3>1. flowEvents[j] \in RingItem
      BY <1>1 DEF FlowTypeOK
    <3>2. flowEvents[j].owner \in Sock /\ flowEvents[j].event.bytes_recv \in Nat
      <4>1. "bytes_recv" \in FlowEventField
        BY DEF FlowEventField, CopiedFields
      <4> QED BY <3>1, <4>1 DEF RingItem
    <3>3. OwnRow(flowEvents[j])
      BY <1>2, <1>4, <2>1, <3>2 DEF OwnRow
    <3>4. flowEvents[j].event.bytes_recv
            <= recvd[flowEvents[j].owner] + misread[flowEvents[j].owner]
      BY <3>3 DEF RecvInv, RecvNeverOvercounted
    <3> QED BY <1>2, <2>1, <3>2, <3>4
  <2>2. ASSUME NEW k \in Rows, NEW s \in Sock, sockState[s] = "open", k = Key(s),
               flowEvents'[i] = [key |-> k, event |-> FlowEventOf(flowTable[k], now),
                                 closer |-> s, owner |-> owner[k]]
        PROVE  flowEvents'[i].event.bytes_recv
                 <= recvd'[flowEvents'[i].owner] + misread'[flowEvents'[i].owner]
    <3>1. owner[k] = s /\ Unshared(s)
      BY <1>2, <1>4, <2>2 DEF OwnRow
    <3>2. s \notin stranded
      BY <2>2, <3>1 DEF LifecycleInv, StrandedClosed
    <3>3. flowTable[k].bytes_recv <= recvd[s] + misread[s]
      BY <3>1, <3>2 DEF RecvInv, RecvNeverOvercounted
    <3>4. flowTable[k].bytes_recv \in Nat
      <4>1. flowTable[k] \in FlowState
        BY <1>1 DEF FlowTypeOK, Rows
      <4> QED BY <4>1 DEF FlowState, EMPTY_FLOW_STATE
    <3>5. FlowEventOf(flowTable[k], now).bytes_recv = flowTable[k].bytes_recv
      <4>1. "bytes_recv" \in FlowEventField \ DOMAIN DerivedFields(EMPTY_FLOW_STATE, 0)
        BY DEF FlowEventField, CopiedFields, DerivedFields
      <4> QED BY <4>1 DEF FlowEventOf, DerivedFields
    <3> QED BY <1>2, <2>2, <3>1, <3>3, <3>4, <3>5
  <2>3. flowEvents \in Seq(RingItem)
    BY <1>1 DEF FlowTypeOK
  <2>4. CASE flowEvents' = flowEvents
    BY <1>4, <2>1, <2>4
  <2>5. CASE flowEvents # <<>> /\ flowEvents' = Tail(flowEvents)
    BY <1>4, <2>1, <2>3, <2>5, TailEvents
  <2>6. ASSUME NEW k \in Rows, NEW s \in Sock, k = Key(s), sockState[s] = "open",
               flowEvents' = Append(flowEvents,
                 [key |-> k, event |-> FlowEventOf(flowTable[k], now), closer |-> s, owner |-> owner[k]])
        PROVE  flowEvents'[i].event.bytes_recv
                 <= recvd'[flowEvents'[i].owner] + misread'[flowEvents'[i].owner]
    BY <1>4, <2>1, <2>2, <2>3, <2>6, AppendedEvents
  <2> QED BY <1>1, <2>4, <2>5, <2>6, EventStep
<1> QED BY <1>1, <1>3, <1>4 DEF RecvInv, RecvNeverOvercounted, Rows

\* What a row or an event says was received is at most what its connection
\* received and what its own errors were misread for, whichever entries of
\* RECVMSG_SOCK earlier calls left.
THEOREM LifecycleRecvBounded == LifecycleSpec => []RecvNeverOvercounted
<1>1. LifecycleInit => RecvInv
  BY DEF LifecycleInit, RecvInv, RecvingOpen, RecvNeverOvercounted, Rows
<1>2. LifecycleInv /\ LifecycleInv' /\ RecvCreditsOwnSocket /\ RecvInv /\ [LifecycleNext]_lifecycleVars
        => RecvInv'
  BY RecvStep
<1>3. RecvInv => RecvNeverOvercounted
  BY DEF RecvInv
<1> QED BY <1>1, <1>2, <1>3, LifecycleInvariant, LifecycleRecvCredits, PTL DEF LifecycleSpec

-----------------------------------------------------------------------------
(* Whose row a close reports.                                              *)

\* No connection with the same four-tuple takes the row of a tracked one that
\* is open, unless the two overlap.
TrackedRows ==
  \A s \in tracked : sockState[s] = "open" =>
    \/ owner[Key(s)] \in {NoSock, s}
    \/ tuple[owner[Key(s)]] # tuple[s]
    \/ {owner[Key(s)], s} \in overlaps

WrongRowInv == RecvingOpen /\ TrackedRows /\ WrongRowsExplained

LEMMA TrackedRowsStep ==
  ASSUME LifecycleInv, LifecycleInv', RecvingOpen, TrackedRows, [LifecycleNext]_lifecycleVars
  PROVE  TrackedRows'
<1>1. FlowTypeOK /\ FlowTypeOK' /\ LifecycleTypeOK /\ SockChange
  BY SockStep DEF LifecycleInv, LifecycleTypeOK
<1>2. \A s \in Sock : Key(s)' = Key(s) /\ Key(s) \in FlowKey
  BY <1>1, KeysFixed, KeyType DEF SockChange, FlowTypeOK
<1> SUFFICES ASSUME NEW s \in Sock, s \in tracked', sockState'[s] = "open",
                    owner'[Key(s)] \notin {NoSock, s}
             PROVE  \/ tuple[owner'[Key(s)]] # tuple[s]
                    \/ {owner'[Key(s)], s} \in overlaps'
  BY <1>1, <1>2 DEF TrackedRows, SockChange, FlowTypeOK
<1>3. s \in tracked
  BY <1>1 DEF SockChange
<1>4. sockState[s] = "open"
  BY <1>1, <1>3 DEF SockChange, LifecycleInv, OpenFirst, FlowTypeOK, SockState
<1>5. flowTable'[Key(s)] # NoRow /\ RowChange(Key(s), RowsAfter(flowTable[Key(s)]))
  BY <1>1, <1>2, RowStep DEF FlowTypeOK
<1>6. CASE owner'[Key(s)] = owner[Key(s)]
  BY <1>1, <1>3, <1>4, <1>6 DEF TrackedRows, SockChange
<1>7. ASSUME NEW o \in Sock, owner'[Key(s)] = o, sockState'[o] = "open"
      PROVE  \/ tuple[owner'[Key(s)]] # tuple[s]
             \/ {owner'[Key(s)], s} \in overlaps'
  BY <1>1, <1>7 DEF LifecycleInv, SharersOverlap, InUse, SockChange
<1> QED BY <1>5, <1>6, <1>7 DEF RowChange

LEMMA WrongRowStep ==
  ASSUME LifecycleInv, LifecycleInv', WrongRowInv, [LifecycleNext]_lifecycleVars
  PROVE  WrongRowInv'
<1>1. /\ FlowTypeOK /\ LifecycleTypeOK /\ flowEvents \in Seq(RingItem)
      /\ RecvingOpen' /\ SockChange /\ TrackedRows'
  BY SockStep, TrackedRowsStep DEF LifecycleInv, LifecycleTypeOK, WrongRowInv, FlowTypeOK
<1>2. ASSUME NEW i \in DOMAIN flowEvents', NEW o, NEW s,
             o = flowEvents'[i].owner, s = flowEvents'[i].closer, o # s, tuple'[o] = tuple'[s]
      PROVE  (o \in stranded' /\ s \notin tracked') \/ {o, s} \in overlaps'
  <2>1. ASSUME NEW j \in DOMAIN flowEvents, flowEvents'[i] = flowEvents[j]
        PROVE  (o \in stranded' /\ s \notin tracked') \/ {o, s} \in overlaps'
    <3>1. (o \in stranded /\ s \notin tracked) \/ {o, s} \in overlaps
      BY <1>1, <1>2, <2>1 DEF WrongRowInv, WrongRowsExplained, SockChange
    <3>2. s \in Sock /\ sockState[s] = "closed"
      BY <1>1, <1>2, <2>1, EventSocks DEF LifecycleInv, EventsOfClosed
    <3> QED BY <1>1, <3>1, <3>2 DEF SockChange
  <2>2. ASSUME NEW k \in Rows, NEW c \in Sock, k = Key(c), sockState[c] = "open",
               tracked' = tracked, overlaps' = overlaps,
               flowEvents'[i] = [key |-> k, event |-> FlowEventOf(flowTable[k], now),
                                 closer |-> c, owner |-> owner[k]]
        PROVE  (o \in stranded' /\ s \notin tracked') \/ {o, s} \in overlaps'
    <3>1. s = c /\ o = owner[k] /\ tuple[o] = tuple[s]
      BY <1>1, <1>2, <2>2 DEF SockChange
    <3>2. o \in Sock /\ (o \in stranded \/ sockState[o] = "open")
      BY <2>2, <3>1 DEF LifecycleInv, RowsOfOpenConnections
    <3>3. o \in stranded \/ {o, s} \in overlaps
      BY <1>2, <2>2, <3>1, <3>2 DEF LifecycleInv, SharersOverlap, InUse
    <3>4. s \notin tracked \/ {o, s} \in overlaps
      BY <1>1, <1>2, <2>2, <3>1, <3>2, NoneAssumption DEF WrongRowInv, TrackedRows
    <3> QED BY <1>1, <2>2, <3>3, <3>4 DEF SockChange
  <2>3. CASE flowEvents' = flowEvents
    BY <1>2, <2>1, <2>3
  <2>4. CASE flowEvents # <<>> /\ flowEvents' = Tail(flowEvents)
    BY <1>1, <1>2, <2>1, <2>4, TailEvents
  <2>5. ASSUME NEW k \in Rows, NEW c \in Sock, k = Key(c), sockState[c] = "open",
               tracked' = tracked, overlaps' = overlaps,
               flowEvents' = Append(flowEvents,
                 [key |-> k, event |-> FlowEventOf(flowTable[k], now), closer |-> c, owner |-> owner[k]])
        PROVE  (o \in stranded' /\ s \notin tracked') \/ {o, s} \in overlaps'
    <3> DEFINE item == [key |-> k, event |-> FlowEventOf(flowTable[k], now), closer |-> c,
                        owner |-> owner[k]]
    <3>1. \/ i \in DOMAIN flowEvents /\ flowEvents'[i] = flowEvents[i]
          \/ flowEvents'[i] = item
      <4> HIDE DEF item
      <4>1. flowEvents' = Append(flowEvents, item)
        BY <2>5 DEF item
      <4> QED BY <1>1, <1>2, <4>1, AppendedEvents
    <3>2. CASE i \in DOMAIN flowEvents /\ flowEvents'[i] = flowEvents[i]
      BY <2>1, <3>2
    <3>3. CASE flowEvents'[i] = item
      BY <2>2, <2>5, <3>3
    <3> QED BY <3>1, <3>2, <3>3
  <2> QED BY <1>1, <2>3, <2>4, <2>5, EventStep
<1> QED BY <1>1, <1>2 DEF WrongRowInv, WrongRowsExplained

\* A close reports the row of another connection with its four-tuple only when
\* that row was left behind and none was made for the closing connection, or
\* when one of the two was closed late, its kernel long done with it.
THEOREM LifecycleWrongRow == LifecycleSpec => []WrongRowsExplained
<1>1. LifecycleInit => WrongRowInv
  BY DEF LifecycleInit, WrongRowInv, RecvingOpen, TrackedRows, WrongRowsExplained
<1>2. LifecycleInv /\ LifecycleInv' /\ WrongRowInv /\ [LifecycleNext]_lifecycleVars => WrongRowInv'
  BY WrongRowStep
<1>3. WrongRowInv => WrongRowsExplained
  BY DEF WrongRowInv
<1> QED BY <1>1, <1>2, <1>3, LifecycleInvariant, PTL DEF LifecycleSpec

-----------------------------------------------------------------------------
(***************************************************************************)
(* TcpLifecycle implements FlowReport: every step of the probes is a step  *)
(* of the abstract specification, or changes nothing that it speaks of.    *)
(***************************************************************************)
Abstract == INSTANCE FlowReportProofs WITH fate <- FlowFate, outbox <- FlowOutbox

reportVars == <<owner, tracked, stranded, reported, flowEvents>>
abstractVars == <<FlowFate, FlowOutbox>>

-----------------------------------------------------------------------------
(* Fates.                                                                  *)

\* Fates and outbox are functions of five variables.
LEMMA FateFrame ==
  ASSUME UNCHANGED reportVars
  PROVE  UNCHANGED abstractVars /\ (FatesFinal => FatesFinal')
  BY DEF reportVars, abstractVars, FlowFate, FlowOutbox, Fate, FatesFinal

\* A connection that owns a row had it made, owns no other, and is not
\* reported.
LEMMA OwnersFacts ==
  ASSUME LifecycleInv, FatesFinal, NEW k \in FlowKey, owner[k] # NoSock
  PROVE  /\ owner[k] \in Sock /\ owner[k] \in tracked /\ owner[k] \notin reported
         /\ \A j \in FlowKey : owner[j] = owner[k] => j = k
<1>1. \A j \in FlowKey : owner[j] # NoSock =>
        j \in Rows /\ j = Key(owner[j]) /\ owner[j] \in Sock /\ owner[j] \in tracked
  BY DEF LifecycleInv, LifecycleTypeOK, FlowTypeOK, RowsOfOpenConnections, Rows
<1> QED BY <1>1 DEF FatesFinal

\* The fates, one by one.
LEMMA FateFacts ==
  ASSUME LifecycleInv, FatesFinal, NEW s \in Sock
  PROVE  /\ FlowFate[s] = Fate(s)
         /\ s \in reported => Fate(s) = "reported"
         /\ s \notin tracked => Fate(s) = "untracked"
         /\ \A k \in FlowKey : owner[k] = s =>
              Fate(s) = IF s \in stranded THEN "stranded" ELSE "live"
<1>1. \A k \in FlowKey : owner[k] = s => s \in tracked /\ s \notin reported
  BY OwnersFacts, NoneAssumption
<1> QED BY <1>1 DEF Fate, FlowFate, FatesFinal

-----------------------------------------------------------------------------
(* Making a row.                                                           *)

\* The rows under the keys of W go, and s may get one.
LEMMA AdmitStep ==
  ASSUME LifecycleInv, FatesFinal, NEW s \in Sock, s \notin tracked,
         NEW W \in SUBSET FlowKey, NEW k \in W,
         owner' = [j \in FlowKey |-> IF j = k THEN s
                                     ELSE IF j \in W THEN NoSock ELSE owner[j]]
         \/ owner' = [j \in FlowKey |-> IF j \in W THEN NoSock ELSE owner[j]],
         tracked' = tracked \cup {s},
         UNCHANGED <<stranded, reported, flowEvents>>
  PROVE  FatesFinal' /\ \E L \in SUBSET Sock : Report!Admit(s, L)
<1> DEFINE R == {o \in Sock : \E j \in W : owner[j] = o}
           L == IF owner'[k] = s THEN R ELSE R \cup {s}
<1>1. \A j \in FlowKey : owner[j] # NoSock =>
        /\ owner[j] \in Sock /\ owner[j] \in tracked /\ owner[j] \notin reported
        /\ owner[j] # s
        /\ \A i \in FlowKey : owner[i] = owner[j] => i = j
  BY OwnersFacts
<1>2. s \notin reported /\ s \notin stranded /\ s \notin R /\ NoSock # s
  BY <1>1, NoneAssumption DEF FatesFinal
<1>3. \A o \in Sock : (\E j \in FlowKey : owner'[j] = o) <=>
        \/ o = s /\ owner'[k] = s
        \/ o # s /\ o \notin R /\ \E j \in FlowKey : owner[j] = o
  BY <1>1, <1>2, NoneAssumption
<1>4. \A o \in R : \E j \in FlowKey : owner[j] = o
  OBVIOUS
<1>5. FlowFate[s] = "untracked"
  BY FateFacts
<1>6. \A o \in L \ {s} : FlowFate[o] \in {"live", "stranded"}
  BY <1>4, FateFacts
<1>7. ASSUME NEW o \in Sock
      PROVE  Fate(o)' = IF o \in L THEN "lost" ELSE IF o = s THEN "live" ELSE Fate(o)
  <2>1. o \in R => o \notin reported /\ o \in tracked
    BY <1>1, NoneAssumption
  <2> QED BY <1>2, <1>3, <1>4, <2>1 DEF Fate
<1>8. FlowFate' = [o \in Sock |-> IF o \in L THEN "lost"
                                  ELSE IF o = s THEN "live" ELSE FlowFate[o]]
  BY <1>7 DEF FlowFate
<1>9. UNCHANGED FlowOutbox
  BY DEF FlowOutbox
<1>10. FatesFinal'
  BY <1>2, <1>3 DEF FatesFinal, LifecycleInv, LifecycleTypeOK, FlowTypeOK
<1>11. L \in SUBSET Sock
  OBVIOUS
<1> HIDE DEF L
<1>12. Report!Admit(s, L)
  BY <1>5, <1>6, <1>8, <1>9 DEF Report!Admit
<1> QED BY <1>10, <1>11, <1>12

LEMMA OpenReports ==
  ASSUME LifecycleInv, FatesFinal, NEW t \in Task, NEW s \in Sock,
         TcpConnect(t, s) \/ InetCskAccept(t, s)
  PROVE  /\ FatesFinal'
         /\ (\E L \in SUBSET Sock : Report!Admit(s, L)) \/ UNCHANGED abstractVars
<1>1. PICK dir \in {Outbound, Inbound} : InitFlowRow(t, s, dir)
  BY DEF TcpConnect, InetCskAccept
<1>2. sockState[s] \in {"new", "queued"}
  BY DEF TcpConnect, InetCskAccept
<1>3. s \notin tracked /\ Key(s) \in FlowKey
  BY <1>2, KeyType DEF LifecycleInv, OpenFirst, LifecycleTypeOK, FlowTypeOK
<1>4. UNCHANGED <<stranded, reported, flowEvents>>
  BY <1>1 DEF InitFlowRow
<1>5. ASSUME NEW V \in SUBSET (Rows \ {Key(s)}),
             InsertRow(t, s, dir, V) \/ InsertRowThenLose(s, V)
      PROVE  FatesFinal' /\ \E L \in SUBSET Sock : Report!Admit(s, L)
  <2> DEFINE W == V \cup {Key(s)}
  <2>1. W \in SUBSET FlowKey /\ Key(s) \in W /\ tracked' = tracked \cup {s}
    BY <1>3, <1>5 DEF Rows, InsertRow, InsertRowThenLose
  <2>2. \/ owner' = [j \in FlowKey |-> IF j = Key(s) THEN s
                                       ELSE IF j \in W THEN NoSock ELSE owner[j]]
        \/ owner' = [j \in FlowKey |-> IF j \in W THEN NoSock ELSE owner[j]]
    BY <1>5 DEF InsertRow, InsertRowThenLose
  <2> HIDE DEF W
  <2> QED BY <1>3, <1>4, <2>1, <2>2, AdmitStep
<1>6. CASE InsertFails
  BY <1>4, <1>6, FateFrame DEF InsertFails, reportVars
<1> QED BY <1>1, <1>5, <1>6 DEF InitFlowRow

-----------------------------------------------------------------------------
(* Closing.                                                                *)

LEMMA RingOwner == \A item \in RingItem : item.owner \in Sock
  BY DEF RingItem

\* The outbox is the sequence of the events' owners.
LEMMA OutboxSeq ==
  ASSUME flowEvents \in Seq(RingItem)
  PROVE  /\ FlowOutbox \in Seq(Sock) /\ Len(FlowOutbox) = Len(flowEvents)
         /\ \A i \in 1..Len(flowEvents) : FlowOutbox[i] = flowEvents[i].owner
<1>1. /\ DOMAIN flowEvents = 1..Len(flowEvents) /\ Len(flowEvents) \in Nat
      /\ \A i \in 1..Len(flowEvents) : flowEvents[i].owner \in Sock
  BY RingOwner
<1>2. FlowOutbox = [i \in 1..Len(flowEvents) |-> flowEvents[i].owner]
  BY <1>1 DEF FlowOutbox
<1> QED BY <1>1, <1>2

LEMMA OutboxAppend ==
  ASSUME flowEvents \in Seq(RingItem), NEW item \in RingItem,
         flowEvents' = Append(flowEvents, item)
  PROVE  FlowOutbox' = Append(FlowOutbox, item.owner)
<1>1. /\ flowEvents' \in Seq(RingItem) /\ Len(flowEvents') = Len(flowEvents) + 1
      /\ flowEvents'[Len(flowEvents) + 1] = item /\ Len(flowEvents) \in Nat
      /\ \A i \in 1..Len(flowEvents) : flowEvents'[i] = flowEvents[i]
  OBVIOUS
<1>2. /\ DOMAIN flowEvents' = 1..(Len(flowEvents) + 1)
      /\ \A i \in 1..(Len(flowEvents) + 1) : flowEvents'[i].owner \in Sock
  BY <1>1, RingOwner
<1>3. FlowOutbox' = [i \in 1..(Len(flowEvents) + 1) |-> flowEvents'[i].owner]
  BY <1>2 DEF FlowOutbox
<1>4. FlowOutbox' \in Seq(Sock) /\ Len(FlowOutbox') = Len(flowEvents) + 1
  BY <1>1, <1>2, <1>3
<1>5. /\ Append(FlowOutbox, item.owner) \in Seq(Sock)
      /\ Len(Append(FlowOutbox, item.owner)) = Len(flowEvents) + 1
      /\ \A i \in 1..(Len(flowEvents) + 1) :
           Append(FlowOutbox, item.owner)[i] = flowEvents'[i].owner
  <2>1. item.owner \in Sock
    BY RingOwner
  <2> QED BY <1>1, <2>1, OutboxSeq
<1> QED BY <1>3, <1>4, <1>5, SeqEqual

LEMMA OutboxTail ==
  ASSUME flowEvents \in Seq(RingItem), flowEvents # <<>>, flowEvents' = Tail(flowEvents)
  PROVE  FlowOutbox # <<>> /\ FlowOutbox' = Tail(FlowOutbox)
<1>1. /\ flowEvents' \in Seq(RingItem) /\ Len(flowEvents') = Len(flowEvents) - 1
      /\ Len(flowEvents) \in Nat \ {0}
      /\ \A i \in 1..(Len(flowEvents) - 1) : flowEvents'[i] = flowEvents[i + 1]
  BY HeadTailProperties, EmptySeq
<1>2. FlowOutbox \in Seq(Sock) /\ Len(FlowOutbox) = Len(flowEvents) /\ FlowOutbox # <<>>
  BY <1>1, OutboxSeq
<1>3. /\ DOMAIN flowEvents' = 1..(Len(flowEvents) - 1)
      /\ \A i \in 1..(Len(flowEvents) - 1) : flowEvents'[i].owner \in Sock
  BY <1>1, RingOwner
<1>4. FlowOutbox' = [i \in 1..(Len(flowEvents) - 1) |-> flowEvents'[i].owner]
  BY <1>3 DEF FlowOutbox
<1>5. FlowOutbox' \in Seq(Sock) /\ Len(FlowOutbox') = Len(flowEvents) - 1
  BY <1>1, <1>3, <1>4
<1>6. /\ Tail(FlowOutbox) \in Seq(Sock) /\ Len(Tail(FlowOutbox)) = Len(flowEvents) - 1
      /\ \A i \in 1..(Len(flowEvents) - 1) : Tail(FlowOutbox)[i] = FlowOutbox[i + 1]
  BY <1>2, HeadTailProperties
<1>7. \A i \in 1..(Len(flowEvents) - 1) : FlowOutbox'[i] = Tail(FlowOutbox)[i]
  BY <1>1, <1>4, <1>6, OutboxSeq
<1> QED BY <1>2, <1>5, <1>6, <1>7, SeqEqual

\* A connection goes and its row, if there is one under k, stays.
LEMMA StrandStep ==
  ASSUME LifecycleInv, FatesFinal, NEW k \in FlowKey, owner[k] # NoSock,
         stranded' = stranded \cup {owner[k]},
         UNCHANGED <<owner, tracked, reported, flowEvents>>
  PROVE  FatesFinal' /\ (Report!Strand(owner[k]) \/ UNCHANGED abstractVars)
<1> DEFINE o == owner[k]
<1>1. o \in Sock /\ o \in tracked /\ o \notin reported
  BY OwnersFacts
<1>2. FatesFinal'
  BY <1>1 DEF FatesFinal
<1>3. CASE o \in stranded
  <2>1. stranded' = stranded
    BY <1>3
  <2> QED BY <1>2, <2>1, FateFrame DEF reportVars
<1>4. CASE o \notin stranded
  <2>1. FlowFate[o] = "live"
    BY <1>1, <1>4, FateFacts
  <2>2. \A s \in Sock : Fate(s)' = IF s = o THEN "stranded" ELSE Fate(s)
    BY <1>1, <1>4 DEF Fate
  <2>3. FlowFate' = [FlowFate EXCEPT ![o] = "stranded"]
    BY <2>2 DEF FlowFate
  <2>4. UNCHANGED FlowOutbox
    BY DEF FlowOutbox
  <2> QED BY <1>2, <2>1, <2>3, <2>4 DEF Report!Strand
<1> QED BY <1>3, <1>4

\* The one row of a connection becomes an event.
LEMMA EmitStep ==
  ASSUME LifecycleInv, FatesFinal, NEW s \in Sock, TcpClose(s), CloseReports(s)
  PROVE  FatesFinal' /\ Report!Emit(owner[Key(s)])
<1> DEFINE k == Key(s)
           o == owner[k]
           item == [key |-> k, event |-> FlowEventOf(flowTable[k], now),
                    closer |-> s, owner |-> o]
<1>1. /\ flowTable[k] # NoRow /\ Len(flowEvents) < RingCap
      /\ flowEvents' = Append(flowEvents, item)
      /\ owner' = [owner EXCEPT ![k] = NoSock]
      /\ reported' = reported \cup {o}
      /\ UNCHANGED <<tracked, stranded>>
  BY DEF CloseReports
<1>2. /\ FlowTypeOK /\ k \in FlowKey /\ now \in Nat /\ o # NoSock
      /\ flowEvents \in Seq(RingItem) /\ flowTable[k] \in FlowState
  BY <1>1, KeyType DEF LifecycleInv, LifecycleTypeOK, CausalTypeOK, FlowTypeOK
<1>3. /\ o \in Sock /\ o \in tracked /\ o \notin reported
      /\ \A j \in FlowKey : owner[j] = o => j = k
  BY <1>2, OwnersFacts
<1>4. item \in RingItem /\ item.owner = o
  BY <1>2, <1>3, EventType DEF RingItem
<1> HIDE DEF item
<1>5. FlowOutbox' = Append(FlowOutbox, o) /\ Len(FlowOutbox) < RingCap
  BY <1>1, <1>2, <1>4, OutboxAppend, OutboxSeq
<1>6. \A q \in Sock : (\E j \in FlowKey : owner'[j] = q) <=>
        q # o /\ \E j \in FlowKey : owner[j] = q
  BY <1>1, <1>2, <1>3, NoneAssumption DEF FlowTypeOK
<1>7. FlowFate[o] \in {"live", "stranded"}
  BY <1>2, <1>3, FateFacts
<1>8. \A q \in Sock : Fate(q)' = IF q = o THEN "reported" ELSE Fate(q)
  BY <1>1, <1>3, <1>6 DEF Fate
<1>9. FlowFate' = [FlowFate EXCEPT ![o] = "reported"]
  BY <1>8 DEF FlowFate
<1>10. FatesFinal'
  <2>1. reported' \subseteq tracked' /\ stranded' \subseteq tracked' /\ reported' \subseteq Sock
    BY <1>1, <1>2, <1>3 DEF FatesFinal, FlowTypeOK
  <2> QED BY <1>1, <1>6, <2>1 DEF FatesFinal
<1> QED BY <1>5, <1>7, <1>9, <1>10 DEF Report!Emit

LEMMA CloseStep ==
  ASSUME LifecycleInv, FatesFinal, NEW s \in Sock, TcpClose(s) \/ Abandon(s)
  PROVE  /\ FatesFinal'
         /\ \/ \E o \in Sock : Report!Strand(o) \/ Report!Emit(o)
            \/ UNCHANGED abstractVars
<1> DEFINE k == Key(s)
<1>1. FlowTypeOK /\ k \in FlowKey
  BY KeyType DEF LifecycleInv, LifecycleTypeOK, FlowTypeOK
<1>2. flowTable[k] # NoRow => owner[k] \in Sock
  BY <1>1 DEF FlowTypeOK
<1>3. CASE UNCHANGED reportVars
  BY <1>3, FateFrame
<1>4. CASE /\ owner[k] \in Sock
           /\ stranded' = stranded \cup {owner[k]}
           /\ UNCHANGED <<owner, tracked, reported, flowEvents>>
  BY <1>1, <1>4, StrandStep, NoneAssumption
<1>5. CASE Abandon(s)
  BY <1>3, <1>4, <1>5 DEF Abandon, mapVars, reportVars
<1>6. CASE TcpClose(s) /\ CloseUntracked(s)
  BY <1>3, <1>6 DEF CloseUntracked, mapVars, historyVars, reportVars
<1>7. CASE TcpClose(s) /\ CloseDropsEvent(s)
  BY <1>2, <1>4, <1>7 DEF CloseDropsEvent, mapVars
<1>8. CASE TcpClose(s) /\ CloseReports(s)
  <2>1. owner[k] \in Sock
    BY <1>2, <1>8 DEF CloseReports
  <2> QED BY <1>8, <2>1, EmitStep
<1> QED BY <1>5, <1>6, <1>7, <1>8 DEF TcpClose


-----------------------------------------------------------------------------
(* The refinement.                                                         *)

\* A step of the probes is a step of the abstract specification.
LEMMA ReportStep ==
  ASSUME LifecycleInv, FatesFinal, [LifecycleNext]_lifecycleVars
  PROVE  FatesFinal' /\ [Report!FlowReportNext]_abstractVars
<1>1. ASSUME UNCHANGED reportVars
      PROVE  FatesFinal' /\ UNCHANGED abstractVars
  BY <1>1, FateFrame
<1>2. CASE TaskStep \/ UNCHANGED lifecycleVars
  BY <1>1, <1>2
  DEF TaskStep, lifecycleVars, flowVars, mapVars, historyVars, reportVars
<1>3. CASE FlowStep
  <2>1. ASSUME NEW t \in Task, NEW s \in Sock, TcpConnect(t, s) \/ InetCskAccept(t, s)
        PROVE  FatesFinal' /\ [Report!FlowReportNext]_abstractVars
    BY <2>1, OpenReports DEF Report!FlowReportNext
  <2>2. ASSUME NEW t \in Task, NEW s \in Sock,
               InetCskAcceptMissed(t, s) \/ TcpRecvmsgEntry(t, s)
        PROVE  UNCHANGED reportVars
    BY <2>2 DEF InetCskAcceptMissed, TcpRecvmsgEntry, mapVars, historyVars, reportVars
  <2>3. ASSUME NEW t \in Task, NEW bytes,
               \/ TcpRecvmsgReturnNothing(t) \/ TcpRecvmsgReturn(t, bytes)
               \/ TcpRecvmsgReturnError(t, bytes) \/ TcpRecvmsgReturnMissed(t, bytes)
        PROVE  UNCHANGED reportVars
    BY <2>3 DEF TcpRecvmsgReturnNothing, TcpRecvmsgReturn, TcpRecvmsgReturnError,
                CountReceived, TcpRecvmsgReturnMissed, mapVars, historyVars, reportVars
  <2>4. ASSUME NEW s \in Sock, NEW size,
               \/ Establish(s) \/ Finish(s) \/ TcpSendmsg(s, size)
               \/ TcpSendActiveReset(s)
        PROVE  UNCHANGED reportVars
    BY <2>4 DEF Establish, Finish, TcpSendmsg, TcpSendActiveReset, mapVars, historyVars, reportVars
  <2>5. ASSUME NEW s \in Sock, TcpClose(s) \/ Abandon(s)
        PROVE  FatesFinal' /\ [Report!FlowReportNext]_abstractVars
    BY <2>5, CloseStep DEF Report!FlowReportNext
  <2>6. CASE RingNext
    <3>1. /\ flowEvents \in Seq(RingItem) /\ flowEvents # <<>>
          /\ flowEvents' = Tail(flowEvents)
          /\ UNCHANGED <<owner, tracked, stranded, reported>>
      BY <2>6 DEF RingNext, historyVars, LifecycleInv, LifecycleTypeOK, FlowTypeOK
    <3>2. UNCHANGED FlowFate /\ FatesFinal'
      BY <3>1 DEF FlowFate, Fate, FatesFinal
    <3> QED BY <3>1, <3>2, OutboxTail DEF Report!Deliver, Report!FlowReportNext
  <2> QED BY <1>1, <1>3, <2>1, <2>2, <2>3, <2>4, <2>5, <2>6 DEF FlowStep
<1> QED BY <1>2, <1>3 DEF LifecycleNext

LEMMA ReportInit == LifecycleInit => FatesFinal /\ Report!FlowReportInit
  BY NoneAssumption DEF LifecycleInit, FatesFinal, Report!FlowReportInit, FlowFate, FlowOutbox, Fate

LEMMA FatesFinalInvariant == LifecycleSpec => []FatesFinal
<1>1. LifecycleInv /\ FatesFinal /\ [LifecycleNext]_lifecycleVars => FatesFinal'
  BY ReportStep
<1> QED BY ReportInit, LifecycleInvariant, <1>1, PTL DEF LifecycleSpec

\* The table and the ring together implement the life of a flow: whatever is
\* evicted, refused or left behind, a connection becomes at most one event.
THEOREM LifecycleReports == LifecycleSpec => ImplementsFlowReport
<1>1. LifecycleInv /\ FatesFinal /\ [LifecycleNext]_lifecycleVars
        => [Report!FlowReportNext]_<<FlowFate, FlowOutbox>>
  BY ReportStep DEF abstractVars
<1> QED BY ReportInit, LifecycleInvariant, FatesFinalInvariant, <1>1, PTL
        DEF LifecycleSpec, ImplementsFlowReport, Report!FlowReportSpec

\* No connection has two events in the ring, and none that has one has a row.
THEOREM LifecycleReportedOnce == LifecycleSpec => []EventsReportedOnce
<1>1. /\ Report!FlowReportInit <=> Abstract!FlowReportInit
      /\ Report!FlowReportNext <=> Abstract!FlowReportNext
      /\ Report!ReportedOnce <=> Abstract!ReportedOnce
  BY DEF Report!FlowReportInit, Abstract!FlowReportInit,
         Report!FlowReportNext, Abstract!FlowReportNext,
         Report!Admit, Abstract!Admit, Report!Strand, Abstract!Strand,
         Report!Emit, Abstract!Emit, Report!Deliver, Abstract!Deliver,
         Report!ReportedOnce, Abstract!ReportedOnce
<1>2. Report!FlowReportSpec => Abstract!FlowReportSpec
  BY <1>1, PTL DEF Report!FlowReportSpec, Abstract!FlowReportSpec
<1>3. []Abstract!ReportedOnce => []Report!ReportedOnce
  BY <1>1, PTL
<1> QED BY LifecycleReports, <1>2, <1>3, Abstract!FlowReportedOnce, PTL
        DEF ImplementsFlowReport, EventsReportedOnce
=============================================================================

------------------------ MODULE TcpLifecycleProofs ------------------------
(***************************************************************************)
(* Theorems about CausalChain, and about TcpLifecycle which extends it,    *)
(* for every set of threads and connections and every capacity of the maps *)
(* and the ring.                                                           *)
(***************************************************************************)
EXTENDS TcpLifecycle, TLAPS

-----------------------------------------------------------------------------
(* Causal chains.                                                          *)

\* A child's key is a key, and it names the child's tid twice.
LEMMA ChildKeyFacts ==
  ASSUME NEW p \in Task, NEW c \in Task
  PROVE  /\ ChildKey(p, c) \in CtxKey
         /\ IsLeader(ChildKey(p, c))
         /\ ChildKey(p, c)[2] = c[2]
  BY TaskAssumption DEF ChildKey, CtxKey, IsLeader

\* The key of a child that is the leader of its process is its own name.
LEMMA LeaderKey ==
  ASSUME NEW p \in Task, NEW c \in Task, IsLeader(c)
  PROVE  ChildKey(p, c) = c
  BY TaskAssumption DEF ChildKey, IsLeader

\* A thread whose tid is free is not alive, and the key written for it is
\* not the name of a live thread.
LEMMA FreePid ==
  ASSUME CausalTypeOK, NEW p \in Task, NEW c \in Task, PidFree(c[2])
  PROVE  /\ c \notin alive
         /\ ChildKey(p, c) \notin alive
  BY TaskAssumption DEF PidFree, ChildKey, CausalTypeOK

\* What on_new_task computes is a context, whatever the parent's entry is.
LEMMA ChildCtxType ==
  ASSUME CausalTypeOK, NEW p \in Task
  PROVE  ChildCtx(p) \in Ctx
<1>1. p \in CtxKey /\ p[1] \in Nat
  BY TaskAssumption DEF CtxKey
<1>2. now \in 0..MaxTime /\ 0 \in 0..MaxTime
  BY BoundAssumption DEF CausalTypeOK
<1>3. \A d \in Int : d % U32Size \in 0..(U32Size - 1)
  BY BoundAssumption
<1>4. /\ ParentCtx(p).chain_id \in 0..MaxTime
      /\ ParentCtx(p).depth \in Int
      /\ ParentCtx(p).origin_pid \in Nat
  <2>1. CASE causalMap[p] # NoCtx
    <3>1. causalMap[p] \in Ctx
      BY <1>1, <2>1 DEF CausalTypeOK
    <3> QED BY <2>1, <3>1, BoundAssumption DEF ParentCtx, Ctx
  <2>2. CASE causalMap[p] = NoCtx
    BY <1>1, <1>2, <2>2 DEF ParentCtx
  <2> QED BY <2>1, <2>2
<1> QED BY <1>3, <1>4 DEF ChildCtx, Ctx

-----------------------------------------------------------------------------
\* Before any thread is created no thread has a context.
LEMMA CausalInitInv == CausalInit => CausalInv
  BY TaskAssumption, BoundAssumption, NoCtxAssumption
  DEF CausalInit, CausalInv, CausalTypeOK, KeysAreLeaders, RightOrAbsent,
      ProcessInherits, CtxKey

\* Creating a thread keeps the invariant: the entry written is under a free
\* name, so the contexts of the live threads stay, and a new leader finds its
\* own context or, if the map was full, is in dropped.
LEMMA NewTaskInv ==
  ASSUME CausalInv, NEW p \in Task, NEW c \in Task, NewTask(p, c)
  PROVE  CausalInv'
<1> DEFINE k == ChildKey(p, c)
<1>1. /\ CausalTypeOK /\ KeysAreLeaders /\ RightOrAbsent /\ ProcessInherits
      /\ PidFree(c[2]) /\ alive' = alive \cup {c} /\ now' = now
      /\ inherited' = [inherited EXCEPT ![c] = ChildCtx(p)]
  BY DEF CausalInv, NewTask
<1>2. k \in CtxKey /\ IsLeader(k) /\ k \notin alive /\ c \notin alive
  BY <1>1, ChildKeyFacts, FreePid
<1>3. ChildCtx(p) \in Ctx /\ ChildCtx(p) # NoCtx
  BY <1>1, ChildCtxType, NoCtxAssumption
<1>4. \/ causalMap' = [causalMap EXCEPT ![k] = ChildCtx(p)] /\ dropped' = dropped \ {c}
      \/ causalMap' = causalMap /\ dropped' = dropped \cup {c} /\ causalMap[k] = NoCtx
  BY DEF NewTask, CtxInsertSucceeds
<1>5. CausalTypeOK'
  BY <1>1, <1>2, <1>3, <1>4 DEF CausalTypeOK
<1>6. KeysAreLeaders'
  BY <1>1, <1>2, <1>4 DEF CausalTypeOK, KeysAreLeaders
<1>7. \A t \in alive : /\ t # c /\ t # k
                       /\ causalMap'[t] = causalMap[t]
                       /\ inherited'[t] = inherited[t]
                       /\ (t \in dropped) = (t \in dropped')
  <2>1. \A t \in alive : t \in Task /\ t \in CtxKey
    BY <1>1 DEF CausalTypeOK, CtxKey
  <2> QED BY <1>1, <1>2, <1>4, <2>1 DEF CausalTypeOK
<1>8. /\ causalMap'[c] # NoCtx => causalMap'[c] = inherited'[c]
      /\ (IsLeader(c) /\ c \notin dropped') => causalMap'[c] = inherited'[c]
  <2>1. c \in CtxKey /\ inherited'[c] = ChildCtx(p)
    BY <1>1 DEF CausalTypeOK, CtxKey
  <2>2. CASE IsLeader(c)
    <3>1. k = c
      BY <2>2, LeaderKey
    <3> QED BY <1>1, <1>2, <1>4, <2>1, <3>1 DEF CausalTypeOK
  <2>3. CASE ~ IsLeader(c)
    <3>1. c # k /\ causalMap[c] = NoCtx
      BY <1>1, <1>2, <2>1, <2>3 DEF KeysAreLeaders
    <3>2. causalMap'[c] = NoCtx
      BY <1>1, <1>4, <2>1, <3>1 DEF CausalTypeOK
    <3> QED BY <2>3, <3>2
  <2> QED BY <2>2, <2>3
<1>9. RightOrAbsent' /\ ProcessInherits'
  BY <1>1, <1>7, <1>8 DEF RightOrAbsent, ProcessInherits, IsLeader
<1> QED BY <1>5, <1>6, <1>9 DEF CausalInv

\* An exit removes one entry and the thread of that name.
LEMMA ExitInv ==
  ASSUME CausalInv, NEW t \in Task, Exit(t)
  PROVE  CausalInv'
<1>1. /\ CausalTypeOK /\ KeysAreLeaders /\ RightOrAbsent /\ ProcessInherits
      /\ alive' = alive \ {t}
      /\ causalMap' = [causalMap EXCEPT ![t] = NoCtx]
      /\ now' = now /\ inherited' = inherited /\ dropped' = dropped
  BY DEF CausalInv, Exit
<1>2. t \in CtxKey /\ alive \subseteq CtxKey
  BY <1>1 DEF CtxKey, CausalTypeOK
<1>3. CausalTypeOK'
  BY <1>1, <1>2 DEF CausalTypeOK
<1>4. KeysAreLeaders'
  BY <1>1, <1>2 DEF CausalTypeOK, KeysAreLeaders
<1>5. \A u \in alive' : u \in alive /\ causalMap'[u] = causalMap[u]
  BY <1>1, <1>2 DEF CausalTypeOK
<1>6. RightOrAbsent' /\ ProcessInherits'
  BY <1>1, <1>5 DEF RightOrAbsent, ProcessInherits
<1> QED BY <1>3, <1>4, <1>6 DEF CausalInv

\* Every step keeps the invariant.
LEMMA CausalNextInv == CausalInv /\ [CausalNext]_causalVars => CausalInv'
<1> SUFFICES ASSUME CausalInv, [CausalNext]_causalVars
             PROVE  CausalInv'
  OBVIOUS
<1>1. CASE Tick
  <2>1. now' \in 1..MaxTime
    BY <1>1, BoundAssumption DEF Tick, CausalInv, CausalTypeOK
  <2>2. UNCHANGED <<alive, causalMap, inherited, dropped>>
    BY <1>1 DEF Tick
  <2> QED BY <2>1, <2>2 DEF CausalInv, CausalTypeOK, KeysAreLeaders,
                            RightOrAbsent, ProcessInherits
<1>2. CASE \E p, c \in Task : NewTask(p, c)
  BY <1>2, NewTaskInv
<1>3. CASE \E t \in Task : Exit(t)
  BY <1>3, ExitInv
<1>4. CASE UNCHANGED causalVars
  BY <1>4 DEF causalVars, CausalInv, CausalTypeOK, KeysAreLeaders,
              RightOrAbsent, ProcessInherits
<1> QED BY <1>1, <1>2, <1>3, <1>4 DEF CausalNext

\* Type correctness of the causal map and its history.
THEOREM CausalTypeCorrect == CausalSpec => []CausalTypeOK
<1>1. CausalInv => CausalTypeOK
  BY DEF CausalInv
<1> QED BY CausalInitInv, CausalNextInv, <1>1, PTL DEF CausalSpec

\* A live thread never sees a context that is not its own, whatever tids are
\* reused and whatever entries threads leave behind.
THEOREM CausalRightOrAbsent == CausalSpec => []RightOrAbsent
<1>1. CausalInv => RightOrAbsent
  BY DEF CausalInv
<1> QED BY CausalInitInv, CausalNextInv, <1>1, PTL DEF CausalSpec

\* A process created under the probes keeps its parent's chain for its whole
\* life unless the map was full at its creation.
THEOREM CausalProcessInherits == CausalSpec => []ProcessInherits
<1>1. CausalInv => ProcessInherits
  BY DEF CausalInv
<1> QED BY CausalInitInv, CausalNextInv, <1>1, PTL DEF CausalSpec

-----------------------------------------------------------------------------
\* The entries that outlive their thread, one step at a time: a new leader is
\* alive under its key, another new thread is itself the witness, and an exit
\* removes the one entry whose key stops being alive.
LEMMA OrphansStep ==
  ASSUME CausalInv, OrphansNameThreads, [CausalNext]_causalVars
  PROVE  OrphansNameThreads'
<1>1. CausalTypeOK /\ CausalTypeOK' /\ alive \subseteq CtxKey
  <2>1. CausalInv'
    BY CausalNextInv
  <2> QED BY <2>1 DEF CausalInv, CausalTypeOK, CtxKey
<1>2. ASSUME NEW p \in Task, NEW c \in Task, NewTask(p, c)
      PROVE  OrphansNameThreads'
  <2> DEFINE k == ChildKey(p, c)
  <2>1. k \in CtxKey /\ k[2] = c[2] /\ (IsLeader(c) => k = c)
    BY ChildKeyFacts, LeaderKey
  <2>2. /\ alive' = alive \cup {c}
        /\ inherited' = [inherited EXCEPT ![c] = ChildCtx(p)]
        /\ \A j \in CtxKey : j # k => causalMap'[j] = causalMap[j]
        /\ causalMap'[k] # causalMap[k] => causalMap'[k] = ChildCtx(p)
        /\ causalMap[k] # NoCtx => causalMap'[k] = ChildCtx(p)
    BY <1>2, <1>1, <2>1 DEF NewTask, CtxInsertSucceeds, CausalTypeOK
  <2>3. ChildCtx(p) # NoCtx
    BY <1>1, ChildCtxType, NoCtxAssumption
  <2>4. \A t \in Task : inherited[t] # NoCtx => inherited'[t] # NoCtx
    BY <1>1, <2>2, <2>3 DEF CausalTypeOK
  <2>5. inherited'[c] # NoCtx
    BY <1>1, <2>2, <2>3 DEF CausalTypeOK
  <2>6. ASSUME NEW j \in CtxKey, causalMap'[j] # NoCtx, j \notin alive'
        PROVE  \E t \in Task : t[2] = j[2] /\ ~ IsLeader(t) /\ inherited'[t] # NoCtx
    <3>1. CASE j = k
      <4>1. ~ IsLeader(c)
        BY <2>1, <2>2, <2>6, <3>1
      <4> QED BY <2>1, <2>5, <3>1, <4>1
    <3>2. CASE j # k
      <4>1. causalMap[j] # NoCtx /\ j \notin alive
        BY <2>2, <2>6, <3>2
      <4>2. PICK t \in Task : t[2] = j[2] /\ ~ IsLeader(t) /\ inherited[t] # NoCtx
        BY <4>1 DEF OrphansNameThreads
      <4> QED BY <2>4, <4>2
    <3> QED BY <3>1, <3>2
  <2> QED BY <2>6 DEF OrphansNameThreads, IsLeader
<1>3. ASSUME NEW u \in Task, Exit(u)
      PROVE  OrphansNameThreads'
  <2>1. /\ alive' = alive \ {u} /\ inherited' = inherited
        /\ causalMap' = [causalMap EXCEPT ![u] = NoCtx]
        /\ u \in CtxKey
    BY <1>3 DEF Exit, CtxKey
  <2>2. \A j \in CtxKey : (causalMap'[j] # NoCtx /\ j \notin alive')
          => (causalMap[j] # NoCtx /\ j \notin alive)
    BY <1>1, <2>1 DEF CausalTypeOK
  <2> QED BY <2>1, <2>2 DEF OrphansNameThreads, IsLeader
<1>4. CASE Tick
  BY <1>4 DEF Tick, OrphansNameThreads, IsLeader
<1>5. CASE UNCHANGED causalVars
  BY <1>5 DEF causalVars, OrphansNameThreads, IsLeader
<1> QED BY <1>2, <1>3, <1>4, <1>5 DEF CausalNext

\* Processes clean up after themselves: an entry whose thread is gone was
\* written for a thread that is no leader.
THEOREM CausalOrphans == CausalSpec => []OrphansNameThreads
<1>1. CausalInit => OrphansNameThreads
  BY DEF CausalInit, OrphansNameThreads
<1>2. CausalInv /\ OrphansNameThreads /\ [CausalNext]_causalVars => OrphansNameThreads'
  BY OrphansStep
<1> QED BY CausalInitInv, CausalNextInv, <1>1, <1>2, PTL DEF CausalSpec

\* The context of a live thread never changes.
THEOREM CausalContextStable == CausalSpec => ContextStable
<1>1. ASSUME CausalInv, [CausalNext]_causalVars, NEW t \in alive \cap alive'
      PROVE  causalMap'[t] = causalMap[t]
  <2>1. CausalTypeOK /\ t \in CtxKey
    BY <1>1 DEF CausalInv, CausalTypeOK, CtxKey
  <2>2. ASSUME NEW p \in Task, NEW c \in Task, NewTask(p, c)
        PROVE  causalMap'[t] = causalMap[t]
    <3>1. ChildKey(p, c) # t
      BY <1>1, <2>1, <2>2, FreePid DEF NewTask
    <3> QED BY <2>1, <2>2, <3>1 DEF NewTask, CausalTypeOK
  <2>3. ASSUME NEW u \in Task, Exit(u)
        PROVE  causalMap'[t] = causalMap[t]
    BY <1>1, <2>1, <2>3 DEF Exit, CausalTypeOK
  <2>4. CASE Tick
    BY <2>4 DEF Tick
  <2>5. CASE UNCHANGED causalVars
    BY <2>5 DEF causalVars
  <2> QED BY <1>1, <2>2, <2>3, <2>4, <2>5 DEF CausalNext
<1>2. CausalInv /\ [CausalNext]_causalVars
        => [\A t \in alive \cap alive' : causalMap'[t] = causalMap[t]]_causalVars
  BY <1>1
<1> QED BY CausalInitInv, CausalNextInv, <1>2, PTL DEF CausalSpec, ContextStable

-----------------------------------------------------------------------------
(* Rows and events.                                                        *)

\* The fields that the handlers of TcpLifecycle write.
LEMMA RowFields ==
  {"pid", "direction", "bytes_sent", "bytes_recv", "pkts_sent", "pkts_recv",
   "connect_ts_ns", "first_byte_ts_ns", "first_recv_ts_ns", "tls_ready_ts_ns",
   "ssl_write_ts_ns", "srtt_us_min", "srtt_us_last", "cwnd_min",
   "chain_id", "parent_chain_id", "chain_depth", "congestion_state_final"}
  \cup CopiedFields \subseteq DOMAIN EMPTY_FLOW_STATE
  BY DEF EMPTY_FLOW_STATE, CopiedFields

\* An empty row is a row.
LEMMA EmptyRow == EMPTY_FLOW_STATE \in FlowState
  BY WidthAssumption DEF EMPTY_FLOW_STATE, FlowState

\* A saturating sum is a natural number within the width.
LEMMA SaturatingAddType ==
  ASSUME NEW max \in Nat, NEW a \in Nat, NEW b \in Nat
  PROVE  SaturatingAdd(max, a, b) \in Nat /\ SaturatingAdd(max, a, b) <= max
  BY DEF SaturatingAdd

\* Writing numbers to fields of a row gives a row.
LEMMA UpdatedRow ==
  ASSUME NEW st \in FlowState, NEW f, NEW v \in Nat
  PROVE  [st EXCEPT ![f] = v] \in FlowState
  BY DEF FlowState

\* The handlers that write a row leave a row behind.
LEMMA RowTypes ==
  ASSUME NEW st \in FlowState, now \in Nat, NEW n \in Nat
  PROVE  /\ RowSent(st, n) \in FlowState
         /\ RowReceived(st, n) \in FlowState
         /\ [st EXCEPT !.congestion_state_final = ReasonReset] \in FlowState
<1>1. \A f \in DOMAIN EMPTY_FLOW_STATE : st[f] \in Nat
  BY DEF FlowState
<1>2. /\ SaturatingAdd(U64Max, st.bytes_sent, n) \in Nat
      /\ SaturatingAdd(U64Max, st.pkts_sent, 1) \in Nat
      /\ SaturatingAdd(U64Max, st.bytes_recv, n) \in Nat
      /\ SaturatingAdd(U64Max, st.pkts_recv, 1) \in Nat
  BY <1>1, RowFields, SaturatingAddType, WidthAssumption
<1>3. st.first_byte_ts_ns \in Nat /\ st.first_recv_ts_ns \in Nat
  BY <1>1, RowFields
<1>4. RowSent(st, n) \in FlowState
  BY <1>2, <1>3, RowFields DEF RowSent, FlowState
<1>5. RowReceived(st, n) \in FlowState
  BY <1>2, <1>3, RowFields DEF RowReceived, FlowState
<1>6. [st EXCEPT !.congestion_state_final = ReasonReset] \in FlowState
  BY DEF FlowState, ReasonReset
<1> QED BY <1>4, <1>5, <1>6

\* A row filled by a thread is a row.
LEMMA FilledRowType ==
  ASSUME CausalTypeOK, NEW t \in Task, NEW dir \in {Outbound, Inbound}
  PROVE  FilledRow(t, dir) \in FlowState
<1>1. now \in Nat /\ dir \in Nat /\ t[1] \in Nat /\ t \in CtxKey
  BY TaskAssumption DEF CausalTypeOK, Outbound, Inbound, CtxKey
<1>2. causalMap[t] # NoCtx => /\ causalMap[t].chain_id \in Nat
                              /\ causalMap[t].parent_chain_id \in Nat
                              /\ causalMap[t].depth \in Nat
  BY <1>1, BoundAssumption DEF CausalTypeOK, Ctx
<1>3. \A a, b, c \in Nat :
        [EMPTY_FLOW_STATE EXCEPT !.pid = t[1], !.direction = dir, !.connect_ts_ns = now,
           !.chain_id = a, !.parent_chain_id = b, !.chain_depth = c] \in FlowState
  BY <1>1, EmptyRow, UpdatedRow
<1> QED BY <1>1, <1>2, <1>3 DEF FilledRow

\* The event of a row has numbers in all its fields.
LEMMA EventType ==
  ASSUME NEW st \in FlowState, NEW ts \in Nat
  PROVE  FlowEventOf(st, ts) \in [FlowEventField -> Nat]
<1> DEFINE d == DerivedFields(st, ts)
<1>1. \A f \in DOMAIN EMPTY_FLOW_STATE : st[f] \in Nat
  BY DEF FlowState
<1>2. \A f \in CopiedFields : st[f] \in Nat
  BY <1>1, RowFields
<1>3. /\ st.connect_ts_ns \in Nat /\ st.first_byte_ts_ns \in Nat
      /\ st.tls_ready_ts_ns \in Nat /\ st.first_recv_ts_ns \in Nat
      /\ st.ssl_write_ts_ns \in Nat /\ st.srtt_us_min \in Nat
      /\ st.srtt_us_last \in Nat /\ st.cwnd_min \in Nat
  BY <1>1, RowFields
<1>4. \A a, b \in Nat : SaturatingSub(a, b) \in Nat
  BY DEF SaturatingSub
<1>5. \A a \in Nat : MinOrZero(a) \in Nat
  BY DEF MinOrZero
<1>6. \A f \in DOMAIN d : d[f] \in Nat
  <2>1. /\ d.close_ts_ns \in Nat /\ d.duration_ns \in Nat
        /\ d.time_to_first_byte_ns \in Nat /\ d.tls_handshake_ns \in Nat
        /\ d.app_response_time_ns \in Nat /\ d.srtt_us_min \in Nat
        /\ d.cwnd_min \in Nat /\ d.srtt_us_final \in Nat /\ d.close_reason \in Nat
    BY <1>3, <1>4, <1>5 DEF DerivedFields, ReasonLocalClose
  <2>2. DOMAIN d = {"close_ts_ns", "duration_ns", "time_to_first_byte_ns",
                    "tls_handshake_ns", "app_response_time_ns", "srtt_us_min",
                    "cwnd_min", "srtt_us_final", "close_reason"}
    BY DEF DerivedFields
  <2> QED BY <2>1, <2>2
<1>7. DOMAIN d = DOMAIN DerivedFields(EMPTY_FLOW_STATE, 0)
  BY DEF DerivedFields
<1>8. \A f \in FlowEventField : f \in DOMAIN d \/ f \in CopiedFields
  BY <1>7 DEF FlowEventField
<1> QED BY <1>2, <1>6, <1>8 DEF FlowEventOf

-----------------------------------------------------------------------------
(* Type correctness.                                                       *)

\* The key of a connection is a key.
LEMMA KeyType ==
  ASSUME tuple \in [Sock -> Tuple], NEW s \in Sock
  PROVE  Key(s) \in FlowKey
  BY DEF Key, FlowKey

\* Updating a row in place keeps the table typed and the rows where they are.
LEMMA UpdateRowType ==
  ASSUME FlowTypeOK, NEW k \in FlowKey, NEW st, flowTable[k] # NoRow => st \in FlowState,
         UpdateRow(k, st)
  PROVE  /\ flowTable' \in [FlowKey -> FlowState \cup {NoRow}]
         /\ \A j \in FlowKey : flowTable'[j] = NoRow <=> flowTable[j] = NoRow
         /\ \A j \in FlowKey : j # k => flowTable'[j] = flowTable[j]
         /\ flowTable[k] # NoRow => flowTable'[k] = st
<1>1. flowTable \in [FlowKey -> FlowState \cup {NoRow}]
  BY DEF FlowTypeOK
<1>2. CASE flowTable[k] # NoRow
  <2>1. flowTable' = [flowTable EXCEPT ![k] = st] /\ st \in FlowState /\ st # NoRow
    BY <1>2, NoneAssumption DEF UpdateRow
  <2> QED BY <1>1, <1>2, <2>1
<1>3. CASE flowTable[k] = NoRow
  <2>1. flowTable' = flowTable
    BY <1>3 DEF UpdateRow
  <2> QED BY <1>1, <1>3, <2>1
<1> QED BY <1>2, <1>3

\* The steps of the threads are steps of CausalChain, the others leave its
\* variables alone.
LEMMA FlowStepCausal == FlowStep => UNCHANGED causalVars
<1>1. ASSUME NEW t \in Task, NEW s \in Sock
      PROVE  (\/ TcpConnect(t, s) \/ InetCskAccept(t, s) \/ InetCskAcceptMissed(t, s)
              \/ TcpRecvmsgEntry(t, s)) => UNCHANGED causalVars
  BY DEF TcpConnect, InetCskAccept, InetCskAcceptMissed, TcpRecvmsgEntry
<1>2. ASSUME NEW t \in Task, NEW n
      PROVE  (\/ TcpRecvmsgReturnNothing(t) \/ TcpRecvmsgReturn(t, n)
              \/ TcpRecvmsgReturnError(t, n) \/ TcpRecvmsgReturnMissed(t, n))
                => UNCHANGED causalVars
  BY DEF TcpRecvmsgReturnNothing, TcpRecvmsgReturn, TcpRecvmsgReturnError, CountReceived,
         TcpRecvmsgReturnMissed
<1>3. ASSUME NEW s \in Sock, NEW size
      PROVE  (\/ Establish(s) \/ Finish(s) \/ TcpSendmsg(s, size) \/ TcpSendActiveReset(s)
              \/ TcpClose(s) \/ Abandon(s)) => UNCHANGED causalVars
  BY DEF Establish, Finish, TcpSendmsg, TcpSendActiveReset, TcpClose, Abandon
<1>4. RingNext => UNCHANGED causalVars
  BY DEF RingNext
<1> QED BY <1>1, <1>2, <1>3, <1>4 DEF FlowStep

LEMMA TaskStepCausal == TaskStep => CausalNext
  BY DEF TaskStep, CausalNext

LEMMA LifecycleStepCausal == [LifecycleNext]_lifecycleVars => [CausalNext]_causalVars
  BY FlowStepCausal, TaskStepCausal DEF LifecycleNext, lifecycleVars

\* Under the probes of TcpLifecycle the causal map behaves as CausalChain
\* says, so that every theorem about CausalSpec holds of LifecycleSpec.
THEOREM LifecycleImplementsCausal == LifecycleSpec => CausalSpec
<1>1. LifecycleInit => CausalInit
  BY DEF LifecycleInit
<1> QED BY <1>1, LifecycleStepCausal, PTL DEF LifecycleSpec, CausalSpec

\* Making a row.
LEMMA InitFlowRowType ==
  ASSUME LifecycleTypeOK, NEW t \in Task, NEW s \in Sock, NEW dir \in {Outbound, Inbound},
         InitFlowRow(t, s, dir), sockState' \in [Sock -> SockState],
         hashed' \subseteq Sock, overlaps' \subseteq SUBSET Sock, UNCHANGED <<tuple, recving>>
  PROVE  FlowTypeOK'
<1>1. Key(s) \in FlowKey /\ FilledRow(t, dir) \in FlowState
  BY KeyType, FilledRowType DEF LifecycleTypeOK, FlowTypeOK
<1>2. UNCHANGED <<tuple, recving, recvmsgSock, flowEvents, asked, recvd, misread, stranded,
                  reported, reset>>
  BY DEF InitFlowRow
<1>3. ASSUME NEW V \in SUBSET (Rows \ {Key(s)}), InsertRow(t, s, dir, V)
      PROVE  FlowTypeOK'
  BY <1>1, <1>2, <1>3, NoneAssumption DEF InsertRow, LifecycleTypeOK, FlowTypeOK
<1>4. ASSUME NEW V \in SUBSET (Rows \ {Key(s)}), InsertRowThenLose(s, V)
      PROVE  FlowTypeOK'
  BY <1>1, <1>2, <1>4, NoneAssumption DEF InsertRowThenLose, LifecycleTypeOK, FlowTypeOK
<1>5. CASE InsertFails
  BY <1>2, <1>5 DEF InsertFails, LifecycleTypeOK, FlowTypeOK
<1> QED BY <1>3, <1>4, <1>5 DEF InitFlowRow

\* Overlaps are sets of connections.
LEMMA OverlapType ==
  ASSUME NEW s \in Sock
  PROVE  Overlapping(s) \subseteq SUBSET Sock
  BY DEF Overlapping

\* Opening a connection.
LEMMA OpenType ==
  ASSUME LifecycleTypeOK, NEW t \in Task, NEW s \in Sock,
         TcpConnect(t, s) \/ InetCskAccept(t, s) \/ InetCskAcceptMissed(t, s) \/ Establish(s)
  PROVE  FlowTypeOK'
<1>1. /\ sockState' \in [Sock -> SockState] /\ hashed' \subseteq Sock
      /\ UNCHANGED <<tuple, recving>>
  BY DEF TcpConnect, InetCskAccept, InetCskAcceptMissed, Establish, historyVars,
         LifecycleTypeOK, FlowTypeOK, SockState
<1>5. overlaps' \subseteq SUBSET Sock
  BY OverlapType
  DEF TcpConnect, InetCskAccept, InetCskAcceptMissed, Establish, historyVars,
      LifecycleTypeOK, FlowTypeOK
<1>2. CASE TcpConnect(t, s)
  BY <1>1, <1>2, <1>5, InitFlowRowType DEF TcpConnect
<1>3. CASE InetCskAccept(t, s)
  BY <1>1, <1>3, <1>5, InitFlowRowType DEF InetCskAccept
<1>4. CASE InetCskAcceptMissed(t, s) \/ Establish(s)
  BY <1>1, <1>4, <1>5
  DEF InetCskAcceptMissed, Establish, mapVars, historyVars, LifecycleTypeOK, FlowTypeOK
<1> QED BY <1>2, <1>3, <1>4

\* Sending.
LEMMA SendmsgType ==
  ASSUME LifecycleTypeOK, NEW s \in Sock, NEW size \in SendSize, TcpSendmsg(s, size)
  PROVE  FlowTypeOK'
<1>1. FlowTypeOK /\ now \in Nat /\ size \in Nat /\ Key(s) \in FlowKey
  BY KeyType, CapacityAssumption DEF LifecycleTypeOK, CausalTypeOK, FlowTypeOK
<1>2. /\ UpdateRow(Key(s), RowSent(flowTable[Key(s)], size))
      /\ asked[s] + size <= MaxBytes
      /\ asked' = [asked EXCEPT ![s] = @ + size]
      /\ UNCHANGED <<kernelVars, tlsThreadFlow, recvmsgSock, flowEvents, owner, recvd,
                     misread, tracked, stranded, reported, reset, overlaps>>
  BY DEF TcpSendmsg
<1>3. flowTable[Key(s)] # NoRow => RowSent(flowTable[Key(s)], size) \in FlowState
  BY <1>1, RowTypes DEF FlowTypeOK
<1>4. /\ flowTable' \in [FlowKey -> FlowState \cup {NoRow}]
      /\ \A j \in FlowKey : flowTable'[j] = NoRow <=> flowTable[j] = NoRow
  BY <1>1, <1>2, <1>3, UpdateRowType
<1>5. asked' \in [Sock -> 0..MaxBytes]
  BY <1>1, <1>2, CapacityAssumption DEF FlowTypeOK
<1> QED BY <1>1, <1>2, <1>4, <1>5 DEF FlowTypeOK, kernelVars

\* What an error is misread for is a number of bytes.
LEMMA MisreadType ==
  ASSUME NEW e \in Errno
  PROVE  MisreadError(e) \in Nat
  BY CapacityAssumption, BoundAssumption DEF MisreadError

\* Counting a result.
LEMMA CountReceivedType ==
  ASSUME LifecycleTypeOK, NEW t \in Task, NEW n \in Nat, CountReceived(t, n)
  PROVE  /\ recving[t] \in Sock
         /\ recving' = [recving EXCEPT ![t] = NoSock]
         /\ recvmsgSock' = [recvmsgSock EXCEPT ![t] = NoSock]
         /\ flowTable' \in [FlowKey -> FlowState \cup {NoRow}]
         /\ \A j \in FlowKey : flowTable'[j] = NoRow <=> flowTable[j] = NoRow
         /\ \A j \in FlowKey : flowTable[j] # NoRow =>
              flowTable'[j].bytes_sent = flowTable[j].bytes_sent
         /\ UNCHANGED <<sockState, hashed, tuple, tlsThreadFlow, flowEvents, owner, asked,
                        tracked, stranded, reported, reset, overlaps>>
<1> DEFINE k == Key(recvmsgSock[t])
<1>1. FlowTypeOK /\ now \in Nat
  BY DEF LifecycleTypeOK, CausalTypeOK
<1>2. /\ IF recvmsgSock[t] # NoSock THEN UpdateRow(k, RowReceived(flowTable[k], n))
                                    ELSE UNCHANGED flowTable
      /\ recving[t] # NoSock
      /\ recving' = [recving EXCEPT ![t] = NoSock]
      /\ recvmsgSock' = [recvmsgSock EXCEPT ![t] = NoSock]
      /\ UNCHANGED <<sockState, hashed, tuple, tlsThreadFlow, flowEvents, owner, asked, tracked,
                     stranded, reported, reset, overlaps>>
  BY DEF CountReceived
<1>3. recving[t] \in Sock
  BY <1>1, <1>2 DEF FlowTypeOK
<1>4. CASE recvmsgSock[t] # NoSock
  <2>1. k \in FlowKey
    BY <1>1, <1>4, KeyType DEF FlowTypeOK
  <2>2. flowTable[k] # NoRow =>
          /\ RowReceived(flowTable[k], n) \in FlowState
          /\ RowReceived(flowTable[k], n).bytes_sent = flowTable[k].bytes_sent
    <3>1. flowTable[k] # NoRow => flowTable[k] \in FlowState
      BY <1>1, <2>1 DEF FlowTypeOK
    <3> QED BY <1>1, <3>1, RowTypes, RowFields DEF RowReceived, FlowState
  <2>3. UpdateRow(k, RowReceived(flowTable[k], n))
    BY <1>2, <1>4
  <2> HIDE DEF k
  <2>4. /\ flowTable' \in [FlowKey -> FlowState \cup {NoRow}]
        /\ \A j \in FlowKey : flowTable'[j] = NoRow <=> flowTable[j] = NoRow
        /\ \A j \in FlowKey : j # k => flowTable'[j] = flowTable[j]
        /\ flowTable[k] # NoRow => flowTable'[k] = RowReceived(flowTable[k], n)
    BY <1>1, <2>1, <2>2, <2>3, UpdateRowType
  <2> QED BY <1>2, <1>3, <2>2, <2>4
<1>5. CASE recvmsgSock[t] = NoSock
  BY <1>1, <1>2, <1>3, <1>5 DEF FlowTypeOK
<1> QED BY <1>4, <1>5

\* Receiving.
LEMMA RecvmsgType ==
  ASSUME LifecycleTypeOK, NEW t \in Task,
         \/ \E s \in Sock : TcpRecvmsgEntry(t, s)
         \/ TcpRecvmsgReturnNothing(t)
         \/ \E bytes \in RecvSize : TcpRecvmsgReturn(t, bytes)
         \/ \E e \in Errno : TcpRecvmsgReturnError(t, e)
         \/ \E bytes \in RecvSize \cup {0} : TcpRecvmsgReturnMissed(t, bytes)
  PROVE  FlowTypeOK'
<1>1. FlowTypeOK /\ \A n \in RecvSize \cup {0} : n \in Nat
  BY CapacityAssumption DEF LifecycleTypeOK
<1>2. ASSUME NEW s \in Sock, TcpRecvmsgEntry(t, s)
      PROVE  FlowTypeOK'
  <2>1. /\ recving' \in [Task -> Sock \cup {NoSock}]
        /\ recvmsgSock' \in [Task -> Sock \cup {NoSock}]
        /\ UNCHANGED <<sockState, hashed, tuple, flowTable, tlsThreadFlow, flowEvents>>
        /\ UNCHANGED historyVars
    <3>1. /\ recving \in [Task -> Sock \cup {NoSock}]
          /\ recvmsgSock \in [Task -> Sock \cup {NoSock}]
      BY <1>1 DEF FlowTypeOK
    <3> QED BY <1>2, <3>1 DEF TcpRecvmsgEntry
  <2> QED BY <1>1, <2>1 DEF FlowTypeOK, historyVars
<1>3. CASE TcpRecvmsgReturnNothing(t)
  BY <1>1, <1>3 DEF TcpRecvmsgReturnNothing, FlowTypeOK, historyVars
<1>4. ASSUME NEW n \in RecvSize \cup {0}, recving[t] # NoSock, recvd[recving[t]] + n <= MaxBytes,
             recvd' = [recvd EXCEPT ![recving[t]] = @ + n]
      PROVE  recvd' \in [Sock -> 0..MaxBytes]
  <2>1. recving[t] \in Sock /\ n \in Nat
    BY <1>1, <1>4 DEF FlowTypeOK
  <2> QED BY <1>1, <1>4, <2>1, CapacityAssumption DEF FlowTypeOK
<1>5. ASSUME NEW n \in Nat, CountReceived(t, n), recvd' \in [Sock -> 0..MaxBytes],
             misread' \in [Sock -> 0..MaxMisread]
      PROVE  FlowTypeOK'
  <2>1. /\ recving' \in [Task -> Sock \cup {NoSock}]
        /\ recvmsgSock' \in [Task -> Sock \cup {NoSock}]
    BY <1>1, <1>5 DEF CountReceived, FlowTypeOK
  <2>2. /\ flowTable' \in [FlowKey -> FlowState \cup {NoRow}]
        /\ \A j \in FlowKey : flowTable'[j] = NoRow <=> flowTable[j] = NoRow
        /\ UNCHANGED <<sockState, hashed, tuple, tlsThreadFlow, flowEvents, owner, asked,
                       tracked, stranded, reported, reset, overlaps>>
    BY <1>5, CountReceivedType
  <2> QED BY <1>1, <1>5, <2>1, <2>2 DEF FlowTypeOK
<1>6. ASSUME NEW n \in RecvSize, TcpRecvmsgReturn(t, n)
      PROVE  FlowTypeOK'
  <2>1. CountReceived(t, n) /\ n \in Nat /\ misread' = misread
    BY <1>1, <1>6 DEF TcpRecvmsgReturn
  <2>2. recvd' \in [Sock -> 0..MaxBytes]
    BY <1>4, <1>6, <2>1 DEF TcpRecvmsgReturn, CountReceived
  <2>3. misread' \in [Sock -> 0..MaxMisread]
    BY <1>1, <2>1 DEF FlowTypeOK
  <2> QED BY <1>5, <2>1, <2>2, <2>3
<1>7. ASSUME NEW e \in Errno, TcpRecvmsgReturnError(t, e)
      PROVE  FlowTypeOK'
  <2>1. CountReceived(t, MisreadError(e)) /\ MisreadError(e) \in Nat /\ recvd' = recvd
    BY <1>7, MisreadType DEF TcpRecvmsgReturnError
  <2>2. recving[t] \in Sock
    BY <2>1, CountReceivedType
  <2>3. misread' \in [Sock -> 0..MaxMisread]
    <3>1. /\ misread \in [Sock -> 0..MaxMisread]
          /\ misread[recving[t]] + MisreadError(e) <= MaxMisread
          /\ misread' = [misread EXCEPT ![recving[t]] = @ + MisreadError(e)]
      BY <1>1, <1>7 DEF TcpRecvmsgReturnError, FlowTypeOK
    <3> QED BY <2>1, <2>2, <3>1, CapacityAssumption
  <2>4. recvd' \in [Sock -> 0..MaxBytes]
    BY <1>1, <2>1 DEF FlowTypeOK
  <2> QED BY <1>5, <2>1, <2>3, <2>4
<1>8. ASSUME NEW n \in RecvSize \cup {0}, TcpRecvmsgReturnMissed(t, n)
      PROVE  FlowTypeOK'
  <2>1. recvd' \in [Sock -> 0..MaxBytes]
    BY <1>4, <1>8 DEF TcpRecvmsgReturnMissed
  <2> QED BY <1>1, <1>8, <2>1 DEF TcpRecvmsgReturnMissed, FlowTypeOK, mapVars
<1> QED BY <1>2, <1>3, <1>6, <1>7, <1>8

\* A RST.
LEMMA ResetType ==
  ASSUME LifecycleTypeOK, NEW s \in Sock, TcpSendActiveReset(s)
  PROVE  FlowTypeOK'
<1> DEFINE st == [flowTable[Key(s)] EXCEPT !.congestion_state_final = ReasonReset]
<1>1. FlowTypeOK /\ now \in Nat /\ Key(s) \in FlowKey
  BY KeyType DEF LifecycleTypeOK, CausalTypeOK, FlowTypeOK
<1>2. /\ UpdateRow(Key(s), st)
      /\ reset' \subseteq Sock
      /\ UNCHANGED <<kernelVars, tlsThreadFlow, recvmsgSock, flowEvents, owner, asked,
                     recvd, misread, tracked, stranded, reported, overlaps>>
  BY <1>1 DEF TcpSendActiveReset, FlowTypeOK
<1>3. flowTable[Key(s)] # NoRow => st \in FlowState
  BY <1>1, RowTypes DEF FlowTypeOK
<1> HIDE DEF st
<1>4. /\ flowTable' \in [FlowKey -> FlowState \cup {NoRow}]
      /\ \A j \in FlowKey : flowTable'[j] = NoRow <=> flowTable[j] = NoRow
  BY <1>1, <1>2, <1>3, UpdateRowType
<1> QED BY <1>1, <1>2, <1>4 DEF FlowTypeOK, kernelVars

\* Closing: an event is appended only while there is room, and it is a row's.
LEMMA CloseType ==
  ASSUME LifecycleTypeOK, NEW s \in Sock, TcpClose(s) \/ Abandon(s)
  PROVE  FlowTypeOK'
<1> DEFINE k == Key(s)
<1>1. FlowTypeOK /\ now \in Nat /\ k \in FlowKey
  BY KeyType DEF LifecycleTypeOK, CausalTypeOK, FlowTypeOK
<1>2. /\ sockState' \in [Sock -> SockState] /\ hashed' \subseteq Sock
      /\ UNCHANGED <<tuple, recving>>
  BY <1>1 DEF TcpClose, Abandon, FlowTypeOK, SockState
<1>3. CASE Abandon(s)
  BY <1>1, <1>2, <1>3 DEF Abandon, FlowTypeOK, mapVars
<1>4. CASE CloseUntracked(s)
  BY <1>1, <1>2, <1>4 DEF CloseUntracked, FlowTypeOK, mapVars, historyVars
<1>5. flowTable[k] # NoRow => flowTable[k] \in FlowState /\ owner[k] \in Sock
  BY <1>1 DEF FlowTypeOK
<1>6. CASE CloseDropsEvent(s)
  BY <1>1, <1>2, <1>5, <1>6 DEF CloseDropsEvent, FlowTypeOK, mapVars
<1>7. CASE CloseReports(s)
  <2> DEFINE item == [key |-> k, event |-> FlowEventOf(flowTable[k], now),
                      closer |-> s, owner |-> owner[k]]
  <2>1. /\ Len(flowEvents) < RingCap
        /\ flowEvents' = Append(flowEvents, item)
        /\ flowTable' = [flowTable EXCEPT ![k] = NoRow]
        /\ owner' = [owner EXCEPT ![k] = NoSock]
        /\ reported' = reported \cup {owner[k]}
        /\ owner[k] \in Sock
        /\ UNCHANGED <<tlsThreadFlow, recvmsgSock, asked, recvd, misread, tracked, stranded,
                       reset, overlaps>>
    BY <1>5, <1>7 DEF CloseReports
  <2>2. item \in RingItem
    BY <1>1, <1>5, <1>7, EventType DEF CloseReports, RingItem
  <2> HIDE DEF item
  <2>3. flowEvents' \in Seq(RingItem) /\ Len(flowEvents') <= RingCap
    BY <1>1, <2>1, <2>2, CapacityAssumption DEF FlowTypeOK
  <2> QED BY <1>1, <1>2, <2>1, <2>3 DEF FlowTypeOK
<1> QED BY <1>3, <1>4, <1>6, <1>7 DEF TcpClose

\* Consuming an event.
LEMMA RingNextType ==
  ASSUME LifecycleTypeOK, RingNext
  PROVE  FlowTypeOK'
<1>1. flowEvents' \in Seq(RingItem) /\ Len(flowEvents') <= RingCap
  BY CapacityAssumption DEF RingNext, LifecycleTypeOK, FlowTypeOK
<1> QED BY <1>1 DEF RingNext, LifecycleTypeOK, FlowTypeOK, kernelVars, historyVars

LEMMA LifecycleTypeInit == LifecycleInit => LifecycleTypeOK
<1> SUFFICES ASSUME LifecycleInit PROVE LifecycleTypeOK
  OBVIOUS
<1>1. CausalTypeOK
  BY CausalInitInv DEF LifecycleInit, CausalInv
<1>2. <<>> \in Seq(RingItem) /\ Len(<<>>) = 0
  OBVIOUS
<1>3. FlowTypeOK
  BY <1>2, CapacityAssumption DEF LifecycleInit, FlowTypeOK, SockState
<1> QED BY <1>1, <1>3 DEF LifecycleTypeOK

\* Every step keeps the types, with the invariant of CausalChain beside them.
LEMMA LifecycleTypeStep ==
  ASSUME CausalInv, LifecycleTypeOK, [LifecycleNext]_lifecycleVars
  PROVE  LifecycleTypeOK'
<1>1. CausalTypeOK'
  BY LifecycleStepCausal, CausalNextInv DEF CausalInv
<1>2. CASE TaskStep \/ UNCHANGED lifecycleVars
  <2>1. UNCHANGED flowVars
    BY <1>2 DEF TaskStep, lifecycleVars
  <2>2. FlowTypeOK'
    BY <2>1 DEF LifecycleTypeOK, FlowTypeOK, flowVars, kernelVars, mapVars, historyVars
  <2> QED BY <1>1, <2>2 DEF LifecycleTypeOK
<1>3. CASE FlowStep
  <2>1. ASSUME NEW t \in Task, NEW s \in Sock,
               \/ TcpConnect(t, s) \/ InetCskAccept(t, s) \/ InetCskAcceptMissed(t, s)
        PROVE  FlowTypeOK'
    BY <2>1, OpenType
  <2>2. ASSUME NEW s \in Sock, Establish(s) \/ Finish(s)
        PROVE  FlowTypeOK'
    <3>1. CASE Establish(s)
      <4>1. overlaps' \subseteq SUBSET Sock
        BY <3>1, OverlapType DEF Establish, LifecycleTypeOK, FlowTypeOK
      <4> QED BY <3>1, <4>1 DEF Establish, mapVars, LifecycleTypeOK, FlowTypeOK, SockState
    <3>2. CASE Finish(s)
      BY <3>2 DEF Finish, mapVars, historyVars, LifecycleTypeOK, FlowTypeOK
    <3> QED BY <2>2, <3>1, <3>2
  <2>3. ASSUME NEW t \in Task,
               \/ \E s \in Sock : TcpRecvmsgEntry(t, s)
               \/ TcpRecvmsgReturnNothing(t)
               \/ \E bytes \in RecvSize : TcpRecvmsgReturn(t, bytes)
               \/ \E e \in Errno : TcpRecvmsgReturnError(t, e)
               \/ \E bytes \in RecvSize \cup {0} : TcpRecvmsgReturnMissed(t, bytes)
        PROVE  FlowTypeOK'
    BY <2>3, RecvmsgType
  <2>4. ASSUME NEW s \in Sock,
               \/ \E size \in SendSize : TcpSendmsg(s, size)
               \/ TcpSendActiveReset(s) \/ TcpClose(s) \/ Abandon(s)
        PROVE  FlowTypeOK'
    BY <2>4, SendmsgType, ResetType, CloseType
  <2>5. RingNext => FlowTypeOK'
    BY RingNextType
  <2>6. FlowTypeOK'
    BY <1>3, <2>1, <2>2, <2>3, <2>4, <2>5 DEF FlowStep
  <2> QED BY <1>1, <2>6 DEF LifecycleTypeOK
<1> QED BY <1>2, <1>3 DEF LifecycleNext

\* CausalInv holds of the thread part of every behaviour.
LEMMA LifecycleCausalInv == LifecycleSpec => []CausalInv
<1>1. LifecycleInit => CausalInv
  BY CausalInitInv DEF LifecycleInit
<1>2. CausalInv /\ [LifecycleNext]_lifecycleVars => CausalInv'
  BY LifecycleStepCausal, CausalNextInv
<1> QED BY <1>1, <1>2, PTL DEF LifecycleSpec

\* Rows, events, maps and history keep their types, the ring its capacity,
\* and a row is there exactly when it has an owner.
THEOREM LifecycleTypeCorrect == LifecycleSpec => []LifecycleTypeOK
<1>1. CausalInv /\ LifecycleTypeOK /\ [LifecycleNext]_lifecycleVars => LifecycleTypeOK'
  BY LifecycleTypeStep
<1> QED BY LifecycleTypeInit, LifecycleCausalInv, <1>1, PTL DEF LifecycleSpec

-----------------------------------------------------------------------------
(* RECVMSG_SOCK.                                                           *)

\* The entry probe replaces what is left under the thread's name, or leaves
\* nothing there, and the return of the call is the next step that writes it.
LEMMA RecvCreditsStep ==
  ASSUME FlowTypeOK, RecvCreditsOwnSocket, [LifecycleNext]_lifecycleVars
  PROVE  RecvCreditsOwnSocket'
<1>1. CASE UNCHANGED <<recving, recvmsgSock>>
  BY <1>1 DEF RecvCreditsOwnSocket
<1>2. ASSUME NEW t \in Task, NEW s \in Sock, TcpRecvmsgEntry(t, s)
      PROVE  RecvCreditsOwnSocket'
  BY <1>2 DEF TcpRecvmsgEntry, Fits, FlowTypeOK, RecvCreditsOwnSocket
<1>3. ASSUME NEW t \in Task, recving' = [recving EXCEPT ![t] = NoSock],
             \/ recvmsgSock' = recvmsgSock
             \/ recvmsgSock' = [recvmsgSock EXCEPT ![t] = NoSock]
      PROVE  RecvCreditsOwnSocket'
  BY <1>3 DEF FlowTypeOK, RecvCreditsOwnSocket
<1>4. ASSUME NEW t \in Task,
             \/ TcpRecvmsgReturnNothing(t)
             \/ \E bytes \in RecvSize : TcpRecvmsgReturn(t, bytes)
             \/ \E e \in Errno : TcpRecvmsgReturnError(t, e)
             \/ \E bytes \in RecvSize \cup {0} : TcpRecvmsgReturnMissed(t, bytes)
      PROVE  RecvCreditsOwnSocket'
  BY <1>3, <1>4
  DEF TcpRecvmsgReturnNothing, TcpRecvmsgReturn, TcpRecvmsgReturnError, CountReceived,
      TcpRecvmsgReturnMissed, mapVars
<1>5. ASSUME NEW t \in Task, NEW s \in Sock,
             \/ TcpConnect(t, s) \/ InetCskAccept(t, s) \/ InetCskAcceptMissed(t, s)
      PROVE  UNCHANGED <<recving, recvmsgSock>>
  BY <1>5 DEF TcpConnect, InetCskAccept, InetCskAcceptMissed, InitFlowRow, mapVars
<1>6. ASSUME NEW s \in Sock,
             \/ Establish(s) \/ Finish(s) \/ (\E size \in SendSize : TcpSendmsg(s, size))
             \/ TcpSendActiveReset(s) \/ TcpClose(s) \/ Abandon(s)
      PROVE  UNCHANGED <<recving, recvmsgSock>>
  BY <1>6 DEF Establish, Finish, TcpSendmsg, TcpSendActiveReset, TcpClose, CloseUntracked,
              CloseDropsEvent, CloseReports, Abandon, mapVars, kernelVars
<1>7. CASE RingNext \/ TaskStep \/ UNCHANGED lifecycleVars
  BY <1>1, <1>7 DEF RingNext, TaskStep, lifecycleVars, flowVars, kernelVars, mapVars
<1> QED BY <1>1, <1>2, <1>4, <1>5, <1>6, <1>7 DEF LifecycleNext, FlowStep

\* Bytes are credited to the socket they came from: no entry of an earlier
\* call, or of an earlier thread of the same name, survives into a call.
THEOREM LifecycleRecvCredits == LifecycleSpec => []RecvCreditsOwnSocket
<1>1. LifecycleInit => RecvCreditsOwnSocket
  BY DEF LifecycleInit, RecvCreditsOwnSocket
<1>2. LifecycleTypeOK /\ RecvCreditsOwnSocket /\ [LifecycleNext]_lifecycleVars
        => RecvCreditsOwnSocket'
  BY RecvCreditsStep DEF LifecycleTypeOK
<1> QED BY <1>1, <1>2, LifecycleTypeCorrect, PTL DEF LifecycleSpec

-----------------------------------------------------------------------------
(* Rows, events and what was sent.                                         *)

\* Connections keep their four-tuples, so keys are fixed, and a key that is not
\* shared was never shared before.
LEMMA KeysFixed ==
  ASSUME tuple' = tuple, overlaps \subseteq overlaps'
  PROVE  /\ \A s \in Sock : Key(s)' = Key(s)
         /\ \A s \in Sock : Unshared(s)' => Unshared(s)
  BY DEF Key, Unshared

\* Events name connections.
LEMMA EventSocks ==
  ASSUME FlowTypeOK, NEW i \in DOMAIN flowEvents
  PROVE  flowEvents[i].closer \in Sock /\ flowEvents[i].owner \in Sock
<1>1. flowEvents \in Seq(RingItem)
  BY DEF FlowTypeOK
<1>2. flowEvents[i] \in RingItem
  BY <1>1
<1> QED BY <1>2 DEF RingItem

\* The parts of the invariant that do not look at rows or events.
SockInv == SharersOverlap /\ OpenFirst /\ StrandedClosed

\* A connection that goes away, or that its kernel is done with, shares its
\* four-tuple with no more than before.
LEMMA SharersLeave ==
  ASSUME SharersOverlap, tuple' = tuple, overlaps \subseteq overlaps', hashed' \subseteq hashed,
         \A o \in Sock : InUse(o)' => InUse(o)
  PROVE  SharersOverlap'
  BY DEF SharersOverlap

\* A connection that comes up shares its four-tuple with none that is hashed,
\* and overlaps with those that are held without.
LEMMA SharersJoin ==
  ASSUME SharersOverlap, NEW s \in Sock, TupleFree(s), tuple' = tuple,
         hashed' = hashed \cup {s}, overlaps' = overlaps \cup Overlapping(s),
         \A o \in Sock \ {s} : InUse(o)' => InUse(o)
  PROVE  SharersOverlap'
<1> SUFFICES ASSUME NEW a \in Sock, NEW b \in Sock, a # b, tuple[a] = tuple[b],
                    InUse(b)', InUse(a)' \/ a \in hashed'
             PROVE  {a, b} \in overlaps'
  BY DEF SharersOverlap
<1>1. \A o \in Sock \ {s} : (InUse(o) /\ tuple[o] = tuple[s]) => {o, s} \in overlaps'
  BY DEF Overlapping
<1>2. CASE b = s
  <2>1. a \notin hashed
    BY <1>2 DEF TupleFree
  <2> QED BY <1>1, <1>2, <2>1
<1>3. CASE a = s
  <2>1. {b, a} = {a, b}
    OBVIOUS
  <2> QED BY <1>1, <1>3, <2>1
<1>4. CASE a # s /\ b # s
  BY <1>4 DEF SharersOverlap
<1> QED BY <1>2, <1>3, <1>4

\* A step that only touches rows, and neither their owners nor what they say
\* was sent, keeps the invariant.
LEMMA RowTouched ==
  ASSUME LifecycleInv, LifecycleTypeOK',
         UNCHANGED <<sockState, tuple, flowEvents, owner, asked, tracked, stranded, overlaps>>,
         hashed' \subseteq hashed,
         \A k \in FlowKey : /\ flowTable'[k] = NoRow <=> flowTable[k] = NoRow
                            /\ flowTable[k] # NoRow =>
                                 flowTable'[k].bytes_sent = flowTable[k].bytes_sent
  PROVE  LifecycleInv'
<1>1. Rows' = Rows
  BY DEF Rows
<1>2. (\A s \in Sock : Key(s)' = Key(s) /\ (Unshared(s)' => Unshared(s)))
  BY KeysFixed
<1>3. RowsOfOpenConnections'
  BY <1>1, <1>2 DEF LifecycleInv, RowsOfOpenConnections
<1>4. SockInv' /\ EventsOfClosed'
  <2>1. SharersOverlap'
    BY SharersLeave DEF LifecycleInv, InUse
  <2> QED BY <1>2, <2>1 DEF SockInv, LifecycleInv, LifecycleTypeOK, FlowTypeOK, OpenFirst,
                            StrandedClosed, EventsOfClosed
<1>5. SentExact'
  <2>1. ASSUME NEW k \in Rows
        PROVE  k \in FlowKey /\ flowTable[k] # NoRow /\ owner[k] \in Sock
    BY DEF Rows, LifecycleInv, RowsOfOpenConnections
  <2>2. \A i \in DOMAIN flowEvents : flowEvents[i].owner \in Sock
    BY EventSocks DEF LifecycleInv, LifecycleTypeOK
  <2> QED BY <1>1, <1>2, <2>1, <2>2 DEF LifecycleInv, SentExact, OwnRow
<1> QED BY <1>3, <1>4, <1>5 DEF LifecycleInv, SockInv

\* Receiving and RSTs touch rows only.
LEMMA RecvmsgInv ==
  ASSUME LifecycleInv, LifecycleTypeOK', NEW t \in Task,
         \/ \E s \in Sock : TcpRecvmsgEntry(t, s)
         \/ TcpRecvmsgReturnNothing(t)
         \/ \E bytes \in RecvSize : TcpRecvmsgReturn(t, bytes)
         \/ \E e \in Errno : TcpRecvmsgReturnError(t, e)
         \/ \E bytes \in RecvSize \cup {0} : TcpRecvmsgReturnMissed(t, bytes)
  PROVE  LifecycleInv'
<1>1. LifecycleTypeOK /\ RecvSize \subseteq Nat
  BY CapacityAssumption DEF LifecycleInv
<1>2. ASSUME NEW n \in Nat, CountReceived(t, n)
      PROVE  LifecycleInv'
  BY <1>1, <1>2, CountReceivedType, RowTouched
<1>3. ASSUME \/ \E bytes \in RecvSize : TcpRecvmsgReturn(t, bytes)
             \/ \E e \in Errno : TcpRecvmsgReturnError(t, e)
      PROVE  LifecycleInv'
  BY <1>1, <1>2, <1>3, MisreadType DEF TcpRecvmsgReturn, TcpRecvmsgReturnError
<1>4. ASSUME \/ \E s \in Sock : TcpRecvmsgEntry(t, s)
             \/ TcpRecvmsgReturnNothing(t)
             \/ \E bytes \in RecvSize \cup {0} : TcpRecvmsgReturnMissed(t, bytes)
      PROVE  LifecycleInv'
  <2>1. UNCHANGED <<sockState, hashed, tuple, flowTable, flowEvents, owner, asked, tracked,
                    stranded, overlaps>>
    BY <1>4 DEF TcpRecvmsgEntry, TcpRecvmsgReturnNothing, TcpRecvmsgReturnMissed,
                mapVars, historyVars
  <2> QED BY <2>1, RowTouched
<1> QED BY <1>3, <1>4

LEMMA ResetInv ==
  ASSUME LifecycleInv, LifecycleTypeOK', NEW s \in Sock, TcpSendActiveReset(s)
  PROVE  LifecycleInv'
<1> DEFINE st == [flowTable[Key(s)] EXCEPT !.congestion_state_final = ReasonReset]
<1>1. FlowTypeOK /\ now \in Nat /\ Key(s) \in FlowKey
  BY KeyType DEF LifecycleInv, LifecycleTypeOK, CausalTypeOK, FlowTypeOK
<1>2. /\ UpdateRow(Key(s), st)
      /\ UNCHANGED <<sockState, hashed, tuple, flowEvents, owner, asked, tracked, stranded,
                     overlaps>>
  BY DEF TcpSendActiveReset, kernelVars
<1>3. flowTable[Key(s)] # NoRow =>
        st \in FlowState /\ st.bytes_sent = flowTable[Key(s)].bytes_sent
  <2>1. flowTable[Key(s)] # NoRow => flowTable[Key(s)] \in FlowState
    BY <1>1 DEF FlowTypeOK
  <2> QED BY <1>1, <2>1, RowTypes, RowFields DEF FlowState
<1> HIDE DEF st
<1> QED BY <1>1, <1>2, <1>3, UpdateRowType, RowTouched

\* Sending: the row under the key is the sender's, unless it was left behind
\* by another connection or belongs to a connection that shares the key.
LEMMA SendmsgInv ==
  ASSUME LifecycleInv, LifecycleTypeOK', NEW s \in Sock, NEW size \in SendSize,
         TcpSendmsg(s, size)
  PROVE  LifecycleInv'
<1> DEFINE k == Key(s)
           st == RowSent(flowTable[k], size)
<1>1. /\ FlowTypeOK /\ now \in Nat /\ k \in FlowKey /\ size \in Nat
      /\ asked[s] \in Nat /\ U64Max \in Nat
  <2>1. FlowTypeOK /\ now \in Nat /\ size \in Nat /\ U64Max \in Nat
    BY CapacityAssumption, WidthAssumption DEF LifecycleInv, LifecycleTypeOK, CausalTypeOK
  <2>2. tuple \in [Sock -> Tuple] /\ asked \in [Sock -> 0..MaxBytes]
    BY <2>1 DEF FlowTypeOK
  <2> QED BY <2>1, <2>2, KeyType
<1>2. /\ UpdateRow(k, st)
      /\ sockState[s] = "open"
      /\ asked' = [asked EXCEPT ![s] = @ + size]
      /\ UNCHANGED <<sockState, hashed, tuple, flowEvents, owner, tracked, stranded, overlaps>>
  BY DEF TcpSendmsg, kernelVars
<1>3. flowTable[k] # NoRow =>
        /\ flowTable[k] \in FlowState /\ flowTable[k].bytes_sent \in Nat
        /\ st \in FlowState
        /\ st.bytes_sent = SaturatingAdd(U64Max, flowTable[k].bytes_sent, size)
  <2>1. flowTable[k] # NoRow => flowTable[k] \in FlowState
    BY <1>1 DEF FlowTypeOK
  <2> QED BY <1>1, <2>1, RowTypes, RowFields DEF RowSent, FlowState
<1>4. \A j \in Sock : Key(j)' = Key(j) /\ (Unshared(j)' => Unshared(j))
  BY <1>2, KeysFixed
<1> HIDE DEF k, st
<1>5. /\ \A j \in FlowKey : flowTable'[j] = NoRow <=> flowTable[j] = NoRow
      /\ \A j \in FlowKey : j # k => flowTable'[j] = flowTable[j]
      /\ flowTable[k] # NoRow => flowTable'[k] = st
  BY <1>1, <1>2, <1>3, UpdateRowType
<1>6. Rows' = Rows
  BY <1>5 DEF Rows
<1>7. RowsOfOpenConnections'
  BY <1>2, <1>4, <1>6 DEF LifecycleInv, RowsOfOpenConnections
<1>8. SockInv' /\ EventsOfClosed'
  <2>1. SharersOverlap'
    BY <1>2, SharersLeave DEF LifecycleInv, InUse
  <2> QED BY <1>2, <1>4, <2>1 DEF SockInv, LifecycleInv, LifecycleTypeOK, FlowTypeOK,
                                  OpenFirst, StrandedClosed, EventsOfClosed
<1>9. ASSUME NEW j \in Rows, Unshared(owner[j]), owner[j] \notin stranded
      PROVE  flowTable'[j].bytes_sent = SaturatingAdd(U64Max, 0, asked'[owner[j]])
  <2>1. /\ j \in FlowKey /\ flowTable[j] # NoRow /\ owner[j] \in Sock
        /\ j = Key(owner[j]) /\ sockState[owner[j]] = "open"
        /\ flowTable[j].bytes_sent = SaturatingAdd(U64Max, 0, asked[owner[j]])
    BY <1>9 DEF Rows, LifecycleInv, RowsOfOpenConnections, SentExact
  <2>2. CASE j = k
    <3>1. owner[j] = s
      BY <1>2, <1>9, <2>1, <2>2 DEF k, Unshared, LifecycleInv, SharersOverlap, InUse
    <3>2. asked'[s] = asked[s] + size
      BY <1>1, <1>2 DEF FlowTypeOK
    <3>3. flowTable'[j].bytes_sent
            = SaturatingAdd(U64Max, SaturatingAdd(U64Max, 0, asked[s]), size)
      BY <1>3, <1>5, <2>1, <2>2, <3>1
    <3> QED BY <1>1, <3>1, <3>2, <3>3 DEF SaturatingAdd
  <2>3. CASE j # k
    <3>1. owner[j] # s
      BY <2>1, <2>3 DEF k
    <3> QED BY <1>1, <1>2, <1>5, <2>1, <2>3, <3>1 DEF FlowTypeOK
  <2> QED BY <2>2, <2>3
<1>10. ASSUME NEW i \in DOMAIN flowEvents, OwnRow(flowEvents[i])
       PROVE  asked'[flowEvents[i].owner] = asked[flowEvents[i].owner]
  <2>1. flowEvents[i].owner \in Sock /\ sockState[flowEvents[i].owner] = "closed"
    BY <1>1, <1>10, EventSocks DEF OwnRow, LifecycleInv, EventsOfClosed
  <2> QED BY <1>1, <1>2, <2>1 DEF FlowTypeOK
<1>11. SentExact'
  <2>1. \A j \in Rows : owner[j] \in Sock
    BY DEF LifecycleInv, RowsOfOpenConnections
  <2>2. \A i \in DOMAIN flowEvents : flowEvents[i].owner \in Sock
    BY <1>1, EventSocks
  <2> QED BY <1>2, <1>4, <1>6, <1>9, <1>10, <2>1, <2>2
          DEF LifecycleInv, SentExact, OwnRow
<1> QED BY <1>7, <1>8, <1>11 DEF LifecycleInv, SockInv

\* Opening: the row made for s says that nothing was sent, as is the case of
\* a connection that was not open before.
LEMMA OpenInv ==
  ASSUME LifecycleInv, LifecycleTypeOK', NEW t \in Task, NEW s \in Sock,
         TcpConnect(t, s) \/ InetCskAccept(t, s)
  PROVE  LifecycleInv'
<1> DEFINE k == Key(s)
<1>1. PICK dir \in {Outbound, Inbound} : InitFlowRow(t, s, dir)
  BY DEF TcpConnect, InetCskAccept
<1>2. /\ FlowTypeOK /\ CausalTypeOK /\ k \in FlowKey
      /\ FilledRow(t, dir) \in FlowState
      /\ FilledRow(t, dir).bytes_sent = 0
  <2>1. FlowTypeOK /\ CausalTypeOK /\ k \in FlowKey
    BY KeyType DEF LifecycleInv, LifecycleTypeOK, FlowTypeOK
  <2>2. FilledRow(t, dir) \in FlowState
    BY <2>1, FilledRowType
  <2>3. FilledRow(t, dir).bytes_sent = EMPTY_FLOW_STATE.bytes_sent
    BY RowFields DEF FilledRow
  <2>4. EMPTY_FLOW_STATE.bytes_sent = 0
    BY DEF EMPTY_FLOW_STATE
  <2> QED BY <2>1, <2>2, <2>3, <2>4
<1>3. /\ sockState[s] \in {"new", "queued"}
      /\ \/ TupleFree(s) /\ hashed' = hashed \cup {s} /\ overlaps' = overlaps \cup Overlapping(s)
         \/ sockState[s] = "queued" /\ hashed' = hashed /\ overlaps' = overlaps
      /\ overlaps \subseteq overlaps'
      /\ sockState' = [sockState EXCEPT ![s] = "open"]
      /\ UNCHANGED <<tuple, flowEvents, asked, stranded>>
  BY <1>1 DEF TcpConnect, InetCskAccept, InitFlowRow
<1>4. \A j \in Sock : Key(j)' = Key(j) /\ (Unshared(j)' => Unshared(j))
  BY <1>3, KeysFixed
<1>5. asked[s] = 0 /\ s \notin tracked
  BY <1>3 DEF LifecycleInv, OpenFirst
<1>6. /\ tracked \subseteq tracked' /\ tracked' \subseteq tracked \cup {s}
      /\ \A j \in FlowKey : flowTable'[j] # NoRow =>
           \/ flowTable[j] # NoRow /\ flowTable'[j] = flowTable[j] /\ owner'[j] = owner[j]
           \/ /\ j = k /\ owner'[j] = s /\ s \in tracked'
              /\ flowTable'[j] = FilledRow(t, dir)
  <2>1. ASSUME NEW V \in SUBSET (Rows \ {k}), InsertRow(t, s, dir, V)
        PROVE  <1>6!1 /\ <1>6!2
    BY <1>2, <2>1 DEF InsertRow, FlowTypeOK
  <2>2. ASSUME NEW V \in SUBSET (Rows \ {k}), InsertRowThenLose(s, V)
        PROVE  <1>6!1 /\ <1>6!2
    BY <1>2, <2>2 DEF InsertRowThenLose, FlowTypeOK
  <2>3. CASE InsertFails
    BY <2>3 DEF InsertFails
  <2> QED BY <1>1, <2>1, <2>2, <2>3 DEF InitFlowRow
<1> HIDE DEF k
<1>7. RowsOfOpenConnections'
  BY <1>2, <1>3, <1>4, <1>6 DEF k, LifecycleInv, RowsOfOpenConnections, Rows, FlowTypeOK
<1>8. SockInv'
  <2>1. SharersOverlap'
    <3>1. \A o \in Sock \ {s} : InUse(o)' => InUse(o)
      BY <1>2, <1>3 DEF InUse, FlowTypeOK
    <3>2. SharersOverlap /\ (sockState[s] = "queued" => InUse(s))
      BY DEF LifecycleInv, InUse
    <3> QED BY <1>3, <3>1, <3>2, SharersJoin, SharersLeave
  <2>2. OpenFirst'
    BY <1>2, <1>3, <1>6 DEF LifecycleInv, OpenFirst, FlowTypeOK
  <2>3. StrandedClosed'
    BY <1>2, <1>3, <1>4 DEF LifecycleInv, StrandedClosed, FlowTypeOK
  <2> QED BY <2>1, <2>2, <2>3 DEF SockInv
<1>9. EventsOfClosed'
  <2>1. \A i \in DOMAIN flowEvents : flowEvents[i].closer \in Sock
    BY <1>2, EventSocks
  <2> QED BY <1>2, <1>3, <2>1 DEF LifecycleInv, EventsOfClosed, FlowTypeOK
<1>10. SentExact'
  <2>1. SaturatingAdd(U64Max, 0, 0) = 0
    BY WidthAssumption DEF SaturatingAdd
  <2>2. \A i \in DOMAIN flowEvents : flowEvents[i].owner \in Sock
    BY <1>2, EventSocks
  <2>3. \A j \in Rows : owner[j] \in Sock
    BY DEF LifecycleInv, RowsOfOpenConnections
  <2>4. ASSUME NEW j \in FlowKey, flowTable'[j] # NoRow,
               NEW o \in Sock, o = owner'[j], Unshared(o), o \notin stranded
        PROVE  flowTable'[j].bytes_sent = SaturatingAdd(U64Max, 0, asked[o])
    <3>1. CASE flowTable[j] # NoRow /\ flowTable'[j] = flowTable[j] /\ owner'[j] = owner[j]
      <4>1. j \in Rows
        BY <3>1 DEF Rows
      <4> QED BY <2>4, <3>1, <4>1 DEF LifecycleInv, SentExact
    <3>2. CASE owner'[j] = s /\ flowTable'[j] = FilledRow(t, dir)
      BY <1>2, <1>5, <2>1, <2>4, <3>2
    <3> QED BY <1>6, <2>4, <3>1, <3>2
  <2>5. \A j \in Rows' : j \in FlowKey /\ flowTable'[j] # NoRow /\ owner'[j] \in Sock
    BY <1>7 DEF Rows, RowsOfOpenConnections
  <2>6. \A i \in DOMAIN flowEvents : (OwnRow(flowEvents[i])' => OwnRow(flowEvents[i]))
    BY <1>3, <1>4, <2>2 DEF OwnRow
  <2>7. \A j \in Rows' : (Unshared(owner[j])' /\ owner'[j] \notin stranded) =>
          flowTable'[j].bytes_sent = SaturatingAdd(U64Max, 0, asked[owner'[j]])
    BY <1>4, <2>4, <2>5
  <2> QED BY <1>3, <2>6, <2>7 DEF LifecycleInv, SentExact
<1> QED BY <1>7, <1>8, <1>9, <1>10 DEF LifecycleInv, SockInv

\* A connection that is queued, or accepted without the probe, has no row.
LEMMA OpenUnseenInv ==
  ASSUME LifecycleInv, LifecycleTypeOK', NEW s \in Sock,
         Establish(s) \/ \E t \in Task : InetCskAcceptMissed(t, s)
  PROVE  LifecycleInv'
<1>1. /\ sockState[s] \in {"new", "queued"}
      /\ \/ TupleFree(s) /\ hashed' = hashed \cup {s} /\ overlaps' = overlaps \cup Overlapping(s)
         \/ sockState[s] = "queued" /\ hashed' = hashed /\ overlaps' = overlaps
      /\ overlaps \subseteq overlaps'
      /\ \/ sockState' = [sockState EXCEPT ![s] = "open"]
         \/ sockState' = [sockState EXCEPT ![s] = "queued"]
      /\ UNCHANGED <<tuple, flowTable, flowEvents, owner, asked, tracked, stranded>>
  BY DEF Establish, InetCskAcceptMissed, mapVars, historyVars
<1>2. FlowTypeOK /\ asked[s] = 0 /\ s \notin tracked
  BY <1>1 DEF LifecycleInv, LifecycleTypeOK, OpenFirst
<1>3. \A j \in Sock : Key(j)' = Key(j) /\ (Unshared(j)' => Unshared(j))
  BY <1>1, KeysFixed
<1>4. Rows' = Rows
  BY <1>1 DEF Rows
<1>5. RowsOfOpenConnections'
  BY <1>1, <1>2, <1>3, <1>4 DEF LifecycleInv, RowsOfOpenConnections, FlowTypeOK
<1>6. SharersOverlap'
  <2>1. \A o \in Sock \ {s} : InUse(o)' => InUse(o)
    BY <1>1, <1>2 DEF InUse, FlowTypeOK
  <2>2. SharersOverlap /\ (sockState[s] = "queued" => InUse(s))
    BY DEF LifecycleInv, InUse
  <2> QED BY <1>1, <2>1, <2>2, SharersJoin, SharersLeave
<1>7. OpenFirst'
  BY <1>1, <1>2 DEF LifecycleInv, OpenFirst, FlowTypeOK
<1>8. StrandedClosed'
  BY <1>1, <1>2, <1>3 DEF LifecycleInv, StrandedClosed, FlowTypeOK
<1>9. \A i \in DOMAIN flowEvents : flowEvents[i].closer \in Sock /\ flowEvents[i].owner \in Sock
  BY <1>2, EventSocks
<1>10. EventsOfClosed'
  BY <1>1, <1>2, <1>9 DEF LifecycleInv, EventsOfClosed, FlowTypeOK
<1>11. SentExact'
  <2>1. \A j \in Rows : owner[j] \in Sock
    BY DEF LifecycleInv, RowsOfOpenConnections
  <2> QED BY <1>1, <1>3, <1>4, <1>9, <2>1 DEF LifecycleInv, SentExact, OwnRow
<1> QED BY <1>5, <1>6, <1>7, <1>8, <1>10, <1>11 DEF LifecycleInv

\* The event of a row says what the row says.
LEMMA EventBytesSent ==
  ASSUME NEW st, NEW ts
  PROVE  FlowEventOf(st, ts).bytes_sent = st.bytes_sent
<1>1. "bytes_sent" \in FlowEventField
  BY DEF FlowEventField, CopiedFields
<1>2. "bytes_sent" \notin DOMAIN DerivedFields(st, ts)
  BY DEF DerivedFields
<1> QED BY <1>1, <1>2 DEF FlowEventOf

\* A connection that goes away: its row is removed, or it was left behind, or
\* it had none.
LEMMA GoneInv ==
  ASSUME LifecycleInv, LifecycleTypeOK', NEW s \in Sock, sockState[s] = "open",
         sockState' = [sockState EXCEPT ![s] = "closed"],
         UNCHANGED <<tuple, asked, tracked, overlaps>>, hashed' \subseteq hashed,
         stranded \subseteq stranded',
         \A o \in stranded' \ stranded : o = s \/ (o \in tracked /\ Key(o) = Key(s)),
         \A j \in FlowKey : flowTable'[j] # NoRow =>
           /\ flowTable[j] # NoRow /\ flowTable'[j] = flowTable[j] /\ owner'[j] = owner[j]
           /\ owner[j] = s => s \in stranded'
  PROVE  /\ RowsOfOpenConnections' /\ SockInv'
         /\ \A i \in DOMAIN flowEvents : sockState'[flowEvents[i].closer] = "closed"
         /\ \A j \in Rows' : (Unshared(owner[j])' /\ owner'[j] \notin stranded') =>
              flowTable'[j].bytes_sent = SaturatingAdd(U64Max, 0, asked'[owner'[j]])
<1>1. FlowTypeOK
  BY DEF LifecycleInv, LifecycleTypeOK
<1>2. \A j \in Sock : Key(j)' = Key(j) /\ (Unshared(j)' => Unshared(j))
  BY KeysFixed
<1>3. ASSUME NEW j \in Rows'
      PROVE  /\ j \in Rows /\ owner[j] \in Sock /\ j = Key(owner[j]) /\ owner[j] \in tracked
             /\ owner[j] \in stranded \/ sockState[owner[j]] = "open"
             /\ flowTable'[j] = flowTable[j] /\ owner'[j] = owner[j]
             /\ owner[j] = s => s \in stranded'
  BY DEF Rows, LifecycleInv, RowsOfOpenConnections
<1>4. RowsOfOpenConnections'
  <2> SUFFICES ASSUME NEW j \in Rows'
               PROVE  (/\ owner[j] \in Sock /\ j = Key(owner[j]) /\ owner[j] \in tracked
                       /\ owner[j] \in stranded \/ sockState[owner[j]] = "open")'
    BY DEF RowsOfOpenConnections
  <2>1. owner[j] # s => sockState'[owner[j]] = sockState[owner[j]]
    BY <1>1, <1>3 DEF FlowTypeOK
  <2>2. Key(owner[j])' = Key(owner[j])
    BY <1>2, <1>3, owner'[j] = owner[j] DEF Key
  <2> QED BY <1>1, <1>3, <2>1, <2>2
<1>5. SharersOverlap' /\ OpenFirst'
  <2>1. \A o \in Sock : sockState'[o] \in {"new", "queued", "open"} => o # s /\ sockState'[o] = sockState[o]
    BY <1>1 DEF FlowTypeOK
  <2>2. \A o \in Sock : InUse(o)' => InUse(o)
    BY <2>1 DEF InUse
  <2>3. SharersOverlap'
    BY <2>2, SharersLeave DEF LifecycleInv
  <2>4. OpenFirst'
    BY <2>1 DEF LifecycleInv, OpenFirst
  <2> QED BY <2>3, <2>4
<1>6. StrandedClosed'
  <2>1. ASSUME NEW o \in stranded' \ stranded, Unshared(o), o # s
        PROVE  sockState[o] = "closed"
    <3>1. o \in Sock /\ o \in tracked /\ tuple[o] = tuple[s] /\ {s, o} \notin overlaps
      BY <1>1, <2>1 DEF Unshared, FlowTypeOK
    <3>2. sockState[o] \in {"open", "closed"}
      BY <1>1, <3>1 DEF LifecycleInv, OpenFirst, FlowTypeOK, SockState
    <3> QED BY <2>1, <3>1, <3>2 DEF LifecycleInv, SharersOverlap, InUse
  <2>2. stranded' \subseteq Sock
    BY DEF LifecycleTypeOK, FlowTypeOK
  <2> QED BY <1>1, <1>2, <2>1, <2>2 DEF LifecycleInv, StrandedClosed, FlowTypeOK
<1>7. \A i \in DOMAIN flowEvents : sockState'[flowEvents[i].closer] = "closed"
  BY <1>1, EventSocks DEF LifecycleInv, EventsOfClosed, FlowTypeOK
<1>8. \A j \in Rows' : (Unshared(owner[j])' /\ owner'[j] \notin stranded') =>
        flowTable'[j].bytes_sent = SaturatingAdd(U64Max, 0, asked'[owner'[j]])
  BY <1>2, <1>3 DEF LifecycleInv, SentExact
<1> QED BY <1>4, <1>5, <1>6, <1>7, <1>8 DEF SockInv

\* Closing without an event.
LEMMA CloseSilentInv ==
  ASSUME LifecycleInv, LifecycleTypeOK', NEW s \in Sock,
         Abandon(s) \/ (TcpClose(s) /\ (CloseUntracked(s) \/ CloseDropsEvent(s)))
  PROVE  LifecycleInv'
<1>1. /\ sockState[s] = "open"
      /\ sockState' = [sockState EXCEPT ![s] = "closed"]
      /\ UNCHANGED <<tuple, flowTable, owner, asked, tracked, flowEvents, overlaps>>
      /\ hashed' \subseteq hashed
  BY DEF Abandon, TcpClose, Closable, CloseUntracked, CloseDropsEvent, mapVars, historyVars
<1>2. FlowTypeOK /\ Key(s) \in FlowKey
  BY KeyType DEF LifecycleInv, LifecycleTypeOK, FlowTypeOK
<1>3. \A j \in FlowKey : flowTable[j] # NoRow =>
        owner[j] \in Sock /\ owner[j] \in tracked /\ Key(owner[j]) = j
  BY DEF LifecycleInv, RowsOfOpenConnections, Rows
<1>4. /\ stranded \subseteq stranded'
      /\ \A o \in stranded' \ stranded : o = s \/ (o \in tracked /\ Key(o) = Key(s))
      /\ \A j \in FlowKey : (flowTable[j] # NoRow /\ owner[j] = s) => s \in stranded'
  <2>1. CASE Abandon(s)
    BY <1>3, <2>1 DEF Abandon
  <2>2. CASE CloseUntracked(s)
    BY <1>3, <2>2 DEF CloseUntracked, historyVars
  <2>3. CASE CloseDropsEvent(s)
    BY <1>2, <1>3, <2>3 DEF CloseDropsEvent
  <2> QED BY <2>1, <2>2, <2>3
<1>5. /\ RowsOfOpenConnections' /\ SockInv'
      /\ \A i \in DOMAIN flowEvents : sockState'[flowEvents[i].closer] = "closed"
      /\ \A j \in Rows' : (Unshared(owner[j])' /\ owner'[j] \notin stranded') =>
           flowTable'[j].bytes_sent = SaturatingAdd(U64Max, 0, asked'[owner'[j]])
  BY <1>1, <1>4, GoneInv
<1>6. EventsOfClosed'
  BY <1>1, <1>5 DEF EventsOfClosed
<1>7. SentExact'
  <2>1. \A i \in DOMAIN flowEvents : (OwnRow(flowEvents[i])' => OwnRow(flowEvents[i]))
    BY <1>1, <1>2, KeysFixed, EventSocks DEF OwnRow
  <2> QED BY <1>1, <1>5, <2>1 DEF LifecycleInv, SentExact
<1> QED BY <1>5, <1>6, <1>7 DEF LifecycleInv, SockInv

\* Closing with an event: the event of the closing connection's own row says
\* what that row said.
LEMMA CloseReportsInv ==
  ASSUME LifecycleInv, LifecycleTypeOK', NEW s \in Sock, TcpClose(s), CloseReports(s)
  PROVE  LifecycleInv'
<1> DEFINE k == Key(s)
           item == [key |-> k, event |-> FlowEventOf(flowTable[k], now),
                    closer |-> s, owner |-> owner[k]]
<1>1. /\ sockState[s] = "open"
      /\ sockState' = [sockState EXCEPT ![s] = "closed"]
      /\ flowTable[k] # NoRow
      /\ flowEvents' = Append(flowEvents, item)
      /\ flowTable' = [flowTable EXCEPT ![k] = NoRow]
      /\ owner' = [owner EXCEPT ![k] = NoSock]
      /\ UNCHANGED <<hashed, tuple, asked, tracked, stranded, overlaps>>
  BY DEF TcpClose, Closable, CloseReports
<1>2. FlowTypeOK /\ k \in FlowKey /\ owner[k] \in Sock
  BY <1>1, KeyType DEF LifecycleInv, LifecycleTypeOK, FlowTypeOK
<1>3. /\ item.closer = s /\ item.owner = owner[k]
      /\ item.event.bytes_sent = flowTable[k].bytes_sent
  BY EventBytesSent
<1>4. \A j \in FlowKey : flowTable[j] # NoRow => Key(owner[j]) = j
  BY DEF LifecycleInv, RowsOfOpenConnections, Rows
<1> HIDE DEF item
<1>5. \A j \in FlowKey : flowTable'[j] # NoRow =>
        /\ flowTable[j] # NoRow /\ flowTable'[j] = flowTable[j] /\ owner'[j] = owner[j]
        /\ owner[j] = s => s \in stranded'
  BY <1>1, <1>2, <1>4 DEF FlowTypeOK
<1>6. /\ RowsOfOpenConnections' /\ SockInv'
      /\ \A i \in DOMAIN flowEvents : sockState'[flowEvents[i].closer] = "closed"
      /\ \A j \in Rows' : (Unshared(owner[j])' /\ owner'[j] \notin stranded') =>
           flowTable'[j].bytes_sent = SaturatingAdd(U64Max, 0, asked'[owner'[j]])
  BY <1>1, <1>5, GoneInv
<1>7. /\ flowEvents \in Seq(RingItem)
      /\ \A i \in DOMAIN flowEvents' :
           \/ i \in DOMAIN flowEvents /\ flowEvents'[i] = flowEvents[i]
           \/ flowEvents'[i] = item
  <2>1. flowEvents \in Seq(RingItem)
    BY <1>2 DEF FlowTypeOK
  <2> QED BY <1>1, <2>1
<1>8. EventsOfClosed'
  BY <1>1, <1>2, <1>3, <1>6, <1>7 DEF EventsOfClosed, FlowTypeOK
<1>9. ASSUME OwnRow(item)
      PROVE  item.event.bytes_sent = SaturatingAdd(U64Max, 0, asked[item.owner])
  <2>1. owner[k] = s /\ Unshared(s)
    BY <1>3, <1>9 DEF OwnRow
  <2>2. s \notin stranded
    BY <1>1, <2>1 DEF LifecycleInv, StrandedClosed
  <2>3. k \in Rows
    BY <1>1, <1>2 DEF Rows
  <2> QED BY <1>3, <2>1, <2>2, <2>3 DEF LifecycleInv, SentExact
<1>10. SentExact'
  <2>1. ASSUME NEW i \in DOMAIN flowEvents', OwnRow(flowEvents[i])'
        PROVE  flowEvents'[i].event.bytes_sent
                 = SaturatingAdd(U64Max, 0, asked'[flowEvents'[i].owner])
    <3>1. CASE i \in DOMAIN flowEvents /\ flowEvents'[i] = flowEvents[i]
      <4>1. OwnRow(flowEvents[i])
        BY <1>1, <1>2, <2>1, <3>1, KeysFixed, EventSocks DEF OwnRow
      <4> QED BY <1>1, <3>1, <4>1 DEF LifecycleInv, SentExact
    <3>2. CASE flowEvents'[i] = item
      <4>1. OwnRow(item)
        BY <1>1, <1>2, <1>3, <2>1, <3>2, KeysFixed DEF OwnRow
      <4> QED BY <1>1, <1>9, <3>2, <4>1
    <3> QED BY <1>7, <3>1, <3>2
  <2> QED BY <1>6, <2>1 DEF SentExact
<1> QED BY <1>6, <1>8, <1>10 DEF LifecycleInv, SockInv

\* Consuming an event leaves the others as they are.
LEMMA RingNextInv ==
  ASSUME LifecycleInv, LifecycleTypeOK', RingNext
  PROVE  LifecycleInv'
<1>1. /\ flowEvents # <<>> /\ flowEvents' = Tail(flowEvents)
      /\ UNCHANGED <<sockState, hashed, tuple, flowTable, owner, asked, tracked, stranded,
                     overlaps>>
  BY DEF RingNext, kernelVars, historyVars
<1>2. FlowTypeOK /\ flowEvents \in Seq(RingItem)
  BY DEF LifecycleInv, LifecycleTypeOK, FlowTypeOK
<1>3. \A i \in DOMAIN flowEvents' :
        i + 1 \in DOMAIN flowEvents /\ flowEvents'[i] = flowEvents[i + 1]
  BY <1>1, <1>2
<1>4. \A j \in Sock : Key(j)' = Key(j) /\ (Unshared(j)' => Unshared(j))
  BY <1>1, KeysFixed
<1>5. Rows' = Rows
  BY <1>1 DEF Rows
<1>6. RowsOfOpenConnections'
  BY <1>1, <1>4, <1>5 DEF LifecycleInv, RowsOfOpenConnections
<1>7. SockInv'
  <2>1. SharersOverlap'
    BY <1>1, SharersLeave DEF LifecycleInv, InUse
  <2> QED BY <1>1, <1>2, <1>4, <2>1 DEF SockInv, LifecycleInv, FlowTypeOK, OpenFirst,
                                        StrandedClosed
<1>8. EventsOfClosed'
  BY <1>1, <1>3 DEF LifecycleInv, EventsOfClosed
<1>9. SentExact'
  <2>1. \A j \in Rows : owner[j] \in Sock
    BY DEF LifecycleInv, RowsOfOpenConnections
  <2>2. ASSUME NEW i \in DOMAIN flowEvents', OwnRow(flowEvents[i])'
        PROVE  flowEvents'[i].event.bytes_sent
                 = SaturatingAdd(U64Max, 0, asked'[flowEvents'[i].owner])
    <3>1. OwnRow(flowEvents[i + 1])
      BY <1>2, <1>3, <1>4, <2>2, EventSocks DEF OwnRow
    <3> QED BY <1>1, <1>3, <3>1 DEF LifecycleInv, SentExact
  <2> QED BY <1>1, <1>4, <1>5, <2>1, <2>2 DEF LifecycleInv, SentExact
<1> QED BY <1>6, <1>7, <1>8, <1>9 DEF LifecycleInv, SockInv

LEMMA LifecycleInvInit == LifecycleInit => LifecycleInv
<1> SUFFICES ASSUME LifecycleInit PROVE LifecycleInv
  OBVIOUS
<1>1. LifecycleTypeOK
  BY LifecycleTypeInit
<1>2. Rows = {} /\ DOMAIN flowEvents = {}
  BY DEF LifecycleInit, Rows
<1> QED BY <1>1, <1>2 DEF LifecycleInit, LifecycleInv, RowsOfOpenConnections, SharersOverlap,
                          InUse, OpenFirst, StrandedClosed, EventsOfClosed, SentExact

LEMMA LifecycleInvStep ==
  ASSUME LifecycleInv, LifecycleTypeOK', [LifecycleNext]_lifecycleVars
  PROVE  LifecycleInv'
<1>1. CASE TaskStep \/ (\E s \in Sock : Finish(s)) \/ UNCHANGED lifecycleVars
  <2>1. /\ UNCHANGED <<sockState, tuple, flowTable, flowEvents, owner, asked, tracked, stranded,
                       overlaps>>
        /\ hashed' \subseteq hashed
    BY <1>1 DEF TaskStep, Finish, lifecycleVars, flowVars, kernelVars, mapVars, historyVars
  <2> QED BY <2>1, RowTouched
<1>2. CASE FlowStep
  <2>1. ASSUME NEW t \in Task, NEW s \in Sock, TcpConnect(t, s) \/ InetCskAccept(t, s)
        PROVE  LifecycleInv'
    BY <2>1, OpenInv
  <2>2. ASSUME NEW s \in Sock, Establish(s) \/ \E t \in Task : InetCskAcceptMissed(t, s)
        PROVE  LifecycleInv'
    BY <2>2, OpenUnseenInv
  <2>3. ASSUME NEW t \in Task,
               \/ \E s \in Sock : TcpRecvmsgEntry(t, s)
               \/ TcpRecvmsgReturnNothing(t)
               \/ \E bytes \in RecvSize : TcpRecvmsgReturn(t, bytes)
               \/ \E e \in Errno : TcpRecvmsgReturnError(t, e)
               \/ \E bytes \in RecvSize \cup {0} : TcpRecvmsgReturnMissed(t, bytes)
        PROVE  LifecycleInv'
    BY <2>3, RecvmsgInv
  <2>4. ASSUME NEW s \in Sock,
               (\E size \in SendSize : TcpSendmsg(s, size)) \/ TcpSendActiveReset(s)
        PROVE  LifecycleInv'
    BY <2>4, SendmsgInv, ResetInv
  <2>5. ASSUME NEW s \in Sock, TcpClose(s) \/ Abandon(s)
        PROVE  LifecycleInv'
    BY <2>5, CloseSilentInv, CloseReportsInv DEF TcpClose
  <2>6. RingNext => LifecycleInv'
    BY RingNextInv
  <2> QED BY <1>1, <1>2, <2>1, <2>2, <2>3, <2>4, <2>5, <2>6 DEF FlowStep
<1> QED BY <1>1, <1>2 DEF LifecycleNext

LEMMA LifecycleInvariant == LifecycleSpec => []LifecycleInv
<1>1. LifecycleInv /\ LifecycleTypeOK' /\ [LifecycleNext]_lifecycleVars => LifecycleInv'
  BY LifecycleInvStep
<1> QED BY LifecycleInvInit, LifecycleTypeCorrect, <1>1, PTL DEF LifecycleSpec

\* Every row is its maker's, and its maker is open or left it behind.
THEOREM LifecycleRows == LifecycleSpec => []RowsOfOpenConnections
<1>1. LifecycleInv => RowsOfOpenConnections
  BY DEF LifecycleInv
<1> QED BY LifecycleInvariant, <1>1, PTL

\* What a row or an event says was sent is what its connection sent.
THEOREM LifecycleSentExact == LifecycleSpec => []SentExact
<1>1. LifecycleInv => SentExact
  BY DEF LifecycleInv
<1> QED BY LifecycleInvariant, <1>1, PTL
=============================================================================

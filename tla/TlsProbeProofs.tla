--------------------------- MODULE TlsProbeProofs ---------------------------
(***************************************************************************)
(* Proofs about TlsProbe: the types, whose arguments the return probes     *)
(* take, when TLS is ready, and whose names are in a row, for every set of *)
(* threads and connections, every depth of nested calls and every capacity *)
(* of the maps.                                                            *)
(***************************************************************************)
EXTENDS TlsProbe, TcpRowProofs

-----------------------------------------------------------------------------
(* The probes on libssl beside those of TcpLifecycle.                      *)

LEMMA OtherStepLifecycle == OtherStep => LifecycleNext
  BY DEF OtherStep, LifecycleNext, FlowStep

LEMMA TlsStepFrame ==
  ASSUME TlsStep
  PROVE  UNCHANGED <<kernelVars, causalVars, tlsThreadFlow, recvmsgSock, flowEvents,
                     historyVars, opened, killed>>
  BY DEF TlsStep, SslWriteEntry, SslReadEntry, SslEntry, SslReturnFailed, SslWriteReturn,
     SslReadReturn, SslReturnFrame, lifecycleVars, flowVars, mapVars

LEMMA TlsStepCausal == [TlsNext]_tlsVars => [CausalNext]_causalVars
<1>1. TlsStep => UNCHANGED causalVars
  BY TlsStepFrame
<1>2. OtherStep => [CausalNext]_causalVars
  BY OtherStepLifecycle, LifecycleStepCausal
<1>3. UNCHANGED tlsVars => UNCHANGED causalVars
  BY DEF tlsVars, lifecycleVars
<1> QED BY <1>1, <1>2, <1>3 DEF TlsNext

\* Threads and their chains behave under the TLS probes as CausalChain says.
THEOREM TlsImplementsCausal == TlsSpec => CausalSpec
<1>1. TlsInit => CausalInit
  BY DEF TlsInit, LifecycleInit
<1> QED BY <1>1, TlsStepCausal, PTL DEF TlsSpec, CausalSpec

-----------------------------------------------------------------------------
(* Types.                                                                  *)

SslTypeOK ==
  /\ sslCalls \in [Task -> Seq(SslCall)]
  /\ \A t \in Task : Len(sslCalls[t]) <= MaxNest /\ (t \notin alive => sslCalls[t] = <<>>)
  /\ sslArgs \in [Op -> [Task -> SslCall \cup {NoArgs}]]
  /\ opened \in [Task -> SUBSET Sock]
  /\ sslUsed \in [Task -> SUBSET Sock]
  /\ killed \subseteq Task

LEMMA TlsTypes == TlsTypeOK <=> LifecycleTypeOK /\ SslTypeOK
  BY DEF TlsTypeOK, SslTypeOK

\* The calls of a thread, and its innermost one.
LEMMA NestedCalls ==
  ASSUME NEW S, NEW s \in Seq(S)
  PROVE  /\ \A e \in S : /\ Append(s, e) \in Seq(S) /\ Last(Append(s, e)) = e
                         /\ Len(Append(s, e)) = Len(s) + 1
                         /\ DOMAIN Append(s, e) = 1..(Len(s) + 1)
                         /\ \A i \in DOMAIN s : Append(s, e)[i] = s[i]
                         /\ Append(s, e)[Len(s) + 1] = e
         /\ s # <<>> => /\ Front(s) \in Seq(S) /\ Len(Front(s)) = Len(s) - 1
                        /\ Last(s) \in S /\ Len(s) \in DOMAIN s
                        /\ DOMAIN Front(s) = 1..(Len(s) - 1)
                        /\ \A i \in DOMAIN Front(s) : i \in DOMAIN s /\ Front(s)[i] = s[i]
<1>1. ASSUME NEW e \in S
      PROVE  /\ Append(s, e) \in Seq(S) /\ Last(Append(s, e)) = e
             /\ Len(Append(s, e)) = Len(s) + 1
             /\ DOMAIN Append(s, e) = 1..(Len(s) + 1)
             /\ \A i \in DOMAIN s : Append(s, e)[i] = s[i]
             /\ Append(s, e)[Len(s) + 1] = e
  BY DEF Last
<1>2. ASSUME s # <<>>
      PROVE  /\ Front(s) \in Seq(S) /\ Len(Front(s)) = Len(s) - 1
             /\ Last(s) \in S /\ Len(s) \in DOMAIN s
             /\ DOMAIN Front(s) = 1..(Len(s) - 1)
             /\ \A i \in DOMAIN Front(s) : i \in DOMAIN s /\ Front(s)[i] = s[i]
  <2>1. Len(s) \in Nat \ {0} /\ DOMAIN s = 1..Len(s)
    BY <1>2
  <2>2. Last(s) \in S /\ Len(s) \in DOMAIN s
    BY <2>1 DEF Last
  <2>3. /\ Front(s) \in Seq(S) /\ Len(Front(s)) = Len(s) - 1
        /\ \A i \in 1..(Len(s) - 1) : Front(s)[i] = s[i]
    BY <2>1 DEF Front
  <2> QED BY <2>1, <2>2, <2>3
<1> QED BY <1>1, <1>2

\* An entry adds its call and, at most, its arguments.
LEMMA EntryEffect ==
  ASSUME LifecycleTypeOK, SslTypeOK, NEW t \in Task, NEW s \in Sock, NEW buf,
         \/ buf \in Written /\ SslWriteEntry(t, s, buf)
         \/ buf \in Received /\ SslReadEntry(t, s, buf)
  PROVE  \E call \in SslCall :
           /\ t \in alive /\ Len(sslCalls[t]) < MaxNest
           /\ sslCalls' = [sslCalls EXCEPT ![t] = Append(@, call)]
           /\ sslUsed' = [sslUsed EXCEPT ![t] = @ \cup {call.sock}]
           /\ SaveArgs(t, call)
           /\ UNCHANGED <<lifecycleVars, opened, killed>>
<1>1. now \in 1..MaxTime
  BY DEF LifecycleTypeOK, CausalTypeOK
<1>2. CASE buf \in Written /\ SslWriteEntry(t, s, buf)
  <2> DEFINE call == [op |-> "write", sock |-> s, buf |-> buf, ts_ns |-> now]
  <2>1. call \in SslCall
    BY <1>1, <1>2, TlsAssumption DEF SslCall, Op
  <2> QED BY <1>2, <2>1 DEF SslWriteEntry, SslEntry, Idle
<1>3. CASE buf \in Received /\ SslReadEntry(t, s, buf)
  <2> DEFINE call == [op |-> "read", sock |-> s, buf |-> buf, ts_ns |-> now]
  <2>1. call \in SslCall
    BY <1>1, <1>3, TlsAssumption DEF SslCall, Op
  <2> QED BY <1>3, <2>1 DEF SslReadEntry, SslEntry, Idle
<1> QED BY <1>2, <1>3

\* A return takes its call, and its arguments, away.
LEMMA ReturnEffect ==
  ASSUME NEW t \in Task,
         (\E op \in Op : SslReturnFailed(t, op)) \/ SslWriteReturn(t) \/ SslReadReturn(t)
  PROVE  \E op \in Op :
           /\ InCall(t, op)
           /\ sslCalls' = [sslCalls EXCEPT ![t] = Front(@)]
           /\ sslArgs' = [sslArgs EXCEPT ![op][t] = NoArgs]
           /\ UNCHANGED <<alive, opened, sslUsed, killed>>
           /\ flowTable' = flowTable \/ UpdateThreadRow(t, sslArgs[op][t])
  BY DEF Op, SslReturnFailed, SslWriteReturn, SslReadReturn, RemoveArgs, Leave, SslReturnFrame,
     lifecycleVars, flowVars, mapVars, causalVars

\* A TLS probe writes a row over a row.
LEMMA RowAfterType ==
  ASSUME NEW st \in FlowState, NEW call \in SslCall, now \in Nat
  PROVE  RowAfter(st, call) \in FlowState
<1>1. Text[call.sock] \in Nat /\ call.ts_ns \in Nat
  BY TlsAssumption, BoundAssumption DEF SslCall
<1>2. \A f \in DOMAIN EMPTY_FLOW_STATE : st[f] \in Nat
  BY DEF FlowState
<1>3. {"tls_sni", "http_method", "http_host", "http_path", "has_tls", "tls_ready_ts_ns",
       "has_http", "ssl_write_ts_ns", "http_status"} \subseteq DOMAIN EMPTY_FLOW_STATE
  BY DEF EMPTY_FLOW_STATE
<1>4. RowWritten(st, call) \in FlowState
  <2>1. st \in [DOMAIN EMPTY_FLOW_STATE -> Nat]
    BY DEF FlowState
  <2>2. RowWritten(st, call) = [f \in DOMAIN st |-> RowWritten(st, call)[f]]
    BY DEF RowWritten
  <2>3. \A f \in DOMAIN st : RowWritten(st, call)[f] \in {st[f], Text[call.sock], call.ts_ns, now, 1}
    BY <1>3, <2>1 DEF RowWritten
  <2> QED BY <1>1, <2>1, <2>2, <2>3 DEF FlowState
<1>5. RowRead(st, call) \in FlowState
  BY <1>1, <1>2, <1>3 DEF RowRead, FlowState
<1> QED BY <1>4, <1>5 DEF RowAfter

LEMMA TlsStepType ==
  ASSUME LifecycleTypeOK, SslTypeOK, TlsStep
  PROVE  LifecycleTypeOK' /\ SslTypeOK'
<1>1. ASSUME NEW t \in Task, NEW s \in Sock, NEW buf,
             \/ buf \in Written /\ SslWriteEntry(t, s, buf)
             \/ buf \in Received /\ SslReadEntry(t, s, buf)
      PROVE  LifecycleTypeOK' /\ SslTypeOK'
  <2>1. PICK call \in SslCall :
           /\ t \in alive /\ Len(sslCalls[t]) < MaxNest
           /\ sslCalls' = [sslCalls EXCEPT ![t] = Append(@, call)]
           /\ sslUsed' = [sslUsed EXCEPT ![t] = @ \cup {call.sock}]
           /\ SaveArgs(t, call)
           /\ UNCHANGED <<lifecycleVars, opened, killed>>
    BY <1>1, EntryEffect
  <2>2. LifecycleTypeOK' /\ alive' = alive
    BY <2>1 DEF LifecycleTypeOK, CausalTypeOK, FlowTypeOK, lifecycleVars, flowVars, causalVars,
       kernelVars, mapVars, historyVars
  <2>3. sslCalls[t] \in Seq(SslCall) /\ Len(sslCalls[t]) \in Nat
    BY DEF SslTypeOK
  <2>4. /\ sslCalls' \in [Task -> Seq(SslCall)]
        /\ \A u \in Task : Len(sslCalls'[u]) <= MaxNest /\ (u \notin alive => sslCalls'[u] = <<>>)
    <3>1. Append(sslCalls[t], call) \in Seq(SslCall) /\ Len(Append(sslCalls[t], call)) <= MaxNest
      BY <2>1, <2>3, TlsAssumption
    <3> QED BY <2>1, <3>1 DEF SslTypeOK
  <2>5. sslArgs' \in [Op -> [Task -> SslCall \cup {NoArgs}]]
    <3>1. CASE sslArgs' = sslArgs
      BY <3>1 DEF SslTypeOK
    <3>2. CASE sslArgs' = [sslArgs EXCEPT ![call.op][t] = call]
      <4>1. call.op \in Op
        BY DEF SslCall
      <4> QED BY <3>2, <4>1 DEF SslTypeOK
    <3> QED BY <2>1, <3>1, <3>2 DEF SaveArgs
  <2>6. sslUsed' \in [Task -> SUBSET Sock]
    BY <2>1 DEF SslTypeOK, SslCall
  <2> QED BY <2>1, <2>2, <2>4, <2>5, <2>6 DEF SslTypeOK
<1>2. ASSUME NEW t \in Task,
             (\E op \in Op : SslReturnFailed(t, op)) \/ SslWriteReturn(t) \/ SslReadReturn(t)
      PROVE  LifecycleTypeOK' /\ SslTypeOK'
  <2>1. PICK op \in Op :
           /\ InCall(t, op)
           /\ sslCalls' = [sslCalls EXCEPT ![t] = Front(@)]
           /\ sslArgs' = [sslArgs EXCEPT ![op][t] = NoArgs]
           /\ UNCHANGED <<alive, opened, sslUsed, killed>>
           /\ flowTable' = flowTable \/ UpdateThreadRow(t, sslArgs[op][t])
    BY <1>2, ReturnEffect
  <2>2. SslTypeOK'
    <3>1. sslCalls[t] # <<>> /\ sslCalls[t] \in Seq(SslCall) /\ t \in alive
      BY <2>1 DEF InCall, SslTypeOK
    <3>2. Front(sslCalls[t]) \in Seq(SslCall) /\ Len(Front(sslCalls[t])) = Len(sslCalls[t]) - 1
      BY <3>1, NestedCalls
    <3>3. Len(sslCalls[t]) \in Nat /\ Len(sslCalls[t]) <= MaxNest
      BY <3>1 DEF SslTypeOK
    <3>4. Len(Front(sslCalls[t])) <= MaxNest
      BY <3>2, <3>3, TlsAssumption
    <3> QED BY <2>1, <3>1, <3>2, <3>4 DEF SslTypeOK
  <2>3. UNCHANGED <<kernelVars, causalVars, tlsThreadFlow, recvmsgSock, flowEvents, historyVars>>
    BY TlsStepFrame
  <2>4. /\ flowTable' \in [FlowKey -> FlowState \cup {NoRow}]
        /\ \A j \in FlowKey : flowTable'[j] = NoRow <=> flowTable[j] = NoRow
    <3>1. CASE flowTable' = flowTable
      BY <3>1 DEF LifecycleTypeOK, FlowTypeOK
    <3>2. CASE flowTable' # flowTable
      <4> DEFINE call == sslArgs[op][t]
                 k == tlsThreadFlow[t]
      <4>1. call # NoArgs /\ k # NoKey /\ UpdateRow(k, RowAfter(flowTable[k], call))
        BY <2>1, <3>2 DEF UpdateThreadRow
      <4>2. k \in FlowKey /\ call \in SslCall /\ now \in Nat
            /\ flowTable[k] \in FlowState \cup {NoRow}
        BY <4>1 DEF LifecycleTypeOK, FlowTypeOK, CausalTypeOK, SslTypeOK
      <4>3. flowTable[k] # NoRow => RowAfter(flowTable[k], call) \in FlowState
        BY <4>2, RowAfterType
      <4>4. FlowTypeOK
        BY DEF LifecycleTypeOK
      <4> HIDE DEF call, k
      <4> QED BY <4>1, <4>2, <4>3, <4>4, UpdateRowType
    <3> QED BY <3>1, <3>2
  <2>5. LifecycleTypeOK'
    <3>1. CausalTypeOK'
      BY <2>3 DEF LifecycleTypeOK, CausalTypeOK, causalVars
    <3>2. FlowTypeOK'
      BY <2>3, <2>4 DEF LifecycleTypeOK, FlowTypeOK, kernelVars, historyVars
    <3> QED BY <3>1, <3>2 DEF LifecycleTypeOK
  <2> QED BY <2>2, <2>5
<1> QED BY <1>1, <1>2 DEF TlsStep

LEMMA OtherStepType ==
  ASSUME CausalInv, LifecycleTypeOK, SslTypeOK, OtherStep
  PROVE  LifecycleTypeOK' /\ SslTypeOK'
<1>1. LifecycleTypeOK'
  BY OtherStepLifecycle, LifecycleTypeStep
<1>2. /\ sslCalls' = [t \in Task |-> IF t \in alive' THEN sslCalls[t] ELSE <<>>]
      /\ killed' = killed \cup {t \in Task \ alive' : sslCalls[t] # <<>>}
      /\ UNCHANGED <<sslArgs, sslUsed>>
  BY DEF OtherStep
<1>3. opened' \in [Task -> SUBSET Sock]
  <2>1. opened \in [Task -> SUBSET Sock]
    BY DEF SslTypeOK
  <2>2. opened' = opened \/ \E t \in Task, s \in Sock : opened' = [opened EXCEPT ![t] = @ \cup {s}]
    BY DEF OtherStep
  <2> QED BY <2>1, <2>2
<1>4. /\ sslCalls' \in [Task -> Seq(SslCall)]
      /\ \A t \in Task : Len(sslCalls'[t]) <= MaxNest /\ (t \notin alive' => sslCalls'[t] = <<>>)
  BY <1>2, TlsAssumption DEF SslTypeOK
<1> QED BY <1>1, <1>2, <1>3, <1>4 DEF SslTypeOK

-----------------------------------------------------------------------------
(* Arguments.                                                              *)

\* What a map keeps for a thread is of the innermost of its calls that are of
\* that operation.
ArgsInv ==
  \A t \in Task, op \in Op :
    sslArgs[op][t] # NoArgs =>
      \A i \in DOMAIN sslCalls[t] :
        (sslCalls[t][i].op = op /\ \A j \in DOMAIN sslCalls[t] : j > i => sslCalls[t][j].op # op)
          => sslArgs[op][t] = sslCalls[t][i]

TlsInv == CausalInv /\ LifecycleTypeOK /\ SslTypeOK /\ ArgsInv /\ ArgsLeakOnlyWhenKilled

LEMMA SaveArgsEffect ==
  ASSUME SslTypeOK, NEW t \in Task, NEW call \in SslCall, SaveArgs(t, call)
  PROVE  /\ \A u \in Task, op \in Op : (u # t \/ op # call.op) => sslArgs'[op][u] = sslArgs[op][u]
         /\ sslArgs'[call.op][t] \in {call, NoArgs}
<1>1. call.op \in Op
  BY DEF SslCall
<1>2. CASE Fits(sslArgs[call.op], NoArgs, MaxArgs, t)
  BY <1>1, <1>2 DEF SaveArgs, SslTypeOK
<1>3. CASE ~ Fits(sslArgs[call.op], NoArgs, MaxArgs, t)
  BY <1>1, <1>3 DEF SaveArgs, SslTypeOK, Fits
<1> QED BY <1>2, <1>3

LEMMA EntryArgs ==
  ASSUME TlsInv, NEW t \in Task, NEW call \in SslCall,
         sslCalls' = [sslCalls EXCEPT ![t] = Append(@, call)],
         SaveArgs(t, call), UNCHANGED killed
  PROVE  ArgsInv' /\ ArgsLeakOnlyWhenKilled'
<1> DEFINE old == sslCalls[t]
           new == sslCalls'[t]
<1>1. SslTypeOK /\ old \in Seq(SslCall) /\ call.op \in Op
  BY DEF TlsInv, SslTypeOK, SslCall
<1>2. /\ \A u \in Task, op \in Op : (u # t \/ op # call.op) => sslArgs'[op][u] = sslArgs[op][u]
      /\ sslArgs'[call.op][t] \in {call, NoArgs}
  BY <1>1, SaveArgsEffect
<1>3. new = Append(old, call) /\ \A u \in Task : u # t => sslCalls'[u] = sslCalls[u]
  BY <1>1 DEF TlsInv, SslTypeOK
<1>4. /\ Len(old) \in Nat /\ DOMAIN old = 1..Len(old) /\ DOMAIN new = 1..(Len(old) + 1)
      /\ \A i \in DOMAIN old : new[i] = old[i]
      /\ new[Len(old) + 1] = call
  BY <1>1, <1>3, NestedCalls
<1>5. ASSUME NEW u \in Task, NEW op \in Op, sslArgs'[op][u] # NoArgs
      PROVE  /\ \A i \in DOMAIN sslCalls'[u] :
                  (sslCalls'[u][i].op = op /\ \A j \in DOMAIN sslCalls'[u] : j > i => sslCalls'[u][j].op # op)
                    => sslArgs'[op][u] = sslCalls'[u][i]
             /\ (\E i \in DOMAIN sslCalls'[u] : sslCalls'[u][i].op = op) \/ u \in killed'
  <2>1. CASE u # t
    BY <1>2, <1>3, <1>5, <2>1 DEF TlsInv, ArgsInv, ArgsLeakOnlyWhenKilled
  <2>2. CASE u = t /\ op = call.op
    <3>1. sslArgs'[op][u] = call
      BY <1>2, <1>5, <2>2
    <3>2. ASSUME NEW i \in DOMAIN new, \A j \in DOMAIN new : j > i => new[j].op # op
          PROVE  new[i] = call
      <4>1. i = Len(old) + 1
        BY <1>4, <2>2, <3>2
      <4> QED BY <1>4, <4>1
    <3>3. Len(old) + 1 \in DOMAIN new
      BY <1>4
    <3> HIDE DEF old, new
    <3> QED BY <1>4, <2>2, <3>1, <3>2, <3>3 DEF new
  <2>3. CASE u = t /\ op # call.op
    <3>1. sslArgs'[op][t] = sslArgs[op][t] /\ sslArgs[op][t] # NoArgs
      BY <1>2, <1>5, <2>3
    <3>2. ASSUME NEW i \in DOMAIN new, new[i].op = op, \A j \in DOMAIN new : j > i => new[j].op # op
          PROVE  sslArgs[op][t] = new[i]
      <4>1. i \in DOMAIN old /\ new[i] = old[i]
        BY <1>4, <2>3, <3>2
      <4>2. \A j \in DOMAIN old : j > i => old[j].op # op
        BY <1>4, <3>2
      <4> QED BY <3>1, <3>2, <4>1, <4>2 DEF TlsInv, ArgsInv
    <3>3. (\E i \in DOMAIN new : new[i].op = op) \/ t \in killed
      <4>1. (\E i \in DOMAIN old : old[i].op = op) \/ t \in killed
        BY <3>1 DEF TlsInv, ArgsLeakOnlyWhenKilled
      <4> QED BY <1>4, <4>1
    <3> QED BY <2>3, <3>1, <3>2, <3>3
  <2> QED BY <2>1, <2>2, <2>3
<1> QED BY <1>5 DEF ArgsInv, ArgsLeakOnlyWhenKilled

LEMMA ReturnArgs ==
  ASSUME TlsInv, NEW t \in Task, NEW op \in Op, InCall(t, op),
         sslCalls' = [sslCalls EXCEPT ![t] = Front(@)],
         sslArgs' = [sslArgs EXCEPT ![op][t] = NoArgs],
         UNCHANGED killed
  PROVE  ArgsInv' /\ ArgsLeakOnlyWhenKilled'
<1> DEFINE old == sslCalls[t]
           new == sslCalls'[t]
<1>1. old \in Seq(SslCall) /\ old # <<>> /\ old[Len(old)].op = op
  BY DEF TlsInv, SslTypeOK, InCall, Last
<1>2. new = Front(old) /\ \A u \in Task : u # t => sslCalls'[u] = sslCalls[u]
  BY DEF TlsInv, SslTypeOK
<1>3. /\ Len(old) \in Nat \ {0} /\ DOMAIN old = 1..Len(old) /\ DOMAIN new = 1..(Len(old) - 1)
      /\ \A i \in DOMAIN new : i \in DOMAIN old /\ new[i] = old[i]
  BY <1>1, <1>2, NestedCalls
<1>4. ASSUME NEW u \in Task, NEW o \in Op, sslArgs'[o][u] # NoArgs
      PROVE  sslArgs'[o][u] = sslArgs[o][u] /\ (u # t \/ o # op)
  BY <1>4 DEF TlsInv, SslTypeOK
<1>5. ASSUME NEW u \in Task, NEW o \in Op, sslArgs'[o][u] # NoArgs
      PROVE  /\ \A i \in DOMAIN sslCalls'[u] :
                  (sslCalls'[u][i].op = o /\ \A j \in DOMAIN sslCalls'[u] : j > i => sslCalls'[u][j].op # o)
                    => sslArgs'[o][u] = sslCalls'[u][i]
             /\ (\E i \in DOMAIN sslCalls'[u] : sslCalls'[u][i].op = o) \/ u \in killed'
  <2>1. sslArgs'[o][u] = sslArgs[o][u] /\ (u # t \/ o # op)
    BY <1>4, <1>5
  <2>2. CASE u # t
    BY <1>2, <1>5, <2>1, <2>2 DEF TlsInv, ArgsInv, ArgsLeakOnlyWhenKilled
  <2>3. CASE u = t
    <3>1. o # op /\ sslArgs[o][t] # NoArgs
      BY <1>5, <2>1, <2>3
    <3>2. ASSUME NEW i \in DOMAIN new, new[i].op = o, \A j \in DOMAIN new : j > i => new[j].op # o
          PROVE  sslArgs[o][t] = new[i]
      <4>1. i \in DOMAIN old /\ new[i] = old[i]
        BY <1>3, <3>2
      <4>2. ASSUME NEW j \in DOMAIN old, j > i
            PROVE  old[j].op # o
        <5>1. CASE j \in DOMAIN new
          BY <1>3, <3>2, <4>2, <5>1
        <5>2. CASE j = Len(old)
          BY <1>1, <3>1, <5>2
        <5> QED BY <1>3, <5>1, <5>2
      <4> QED BY <3>1, <3>2, <4>1, <4>2 DEF TlsInv, ArgsInv
    <3>3. (\E i \in DOMAIN new : new[i].op = o) \/ t \in killed
      <4>1. (\E i \in DOMAIN old : old[i].op = o) \/ t \in killed
        BY <3>1 DEF TlsInv, ArgsLeakOnlyWhenKilled
      <4>2. ASSUME NEW i \in DOMAIN old, old[i].op = o
            PROVE  i \in DOMAIN new /\ new[i].op = o
        <5>1. i # Len(old)
          BY <1>1, <3>1, <4>2
        <5> QED BY <1>3, <4>2, <5>1
      <4> HIDE DEF old, new
      <4> QED BY <4>1, <4>2
    <3> QED BY <2>1, <2>3, <3>2, <3>3
  <2> QED BY <2>2, <2>3
<1> QED BY <1>5 DEF ArgsInv, ArgsLeakOnlyWhenKilled

LEMMA OtherStepArgs ==
  ASSUME TlsInv, OtherStep
  PROVE  ArgsInv' /\ ArgsLeakOnlyWhenKilled'
<1>1. /\ sslCalls' = [t \in Task |-> IF t \in alive' THEN sslCalls[t] ELSE <<>>]
      /\ killed' = killed \cup {t \in Task \ alive' : sslCalls[t] # <<>>}
      /\ UNCHANGED sslArgs
  BY DEF OtherStep
<1>2. \A t \in Task : sslCalls[t] \in Seq(SslCall)
  BY DEF TlsInv, SslTypeOK
<1>3. \A t \in Task : \/ sslCalls'[t] = sslCalls[t]
                      \/ sslCalls'[t] = <<>> /\ (sslCalls[t] # <<>> => t \in killed')
  BY <1>1
<1> QED BY <1>1, <1>2, <1>3 DEF TlsInv, ArgsInv, ArgsLeakOnlyWhenKilled

-----------------------------------------------------------------------------
LEMMA TlsInvStep == TlsInv /\ [TlsNext]_tlsVars => TlsInv'
<1> SUFFICES ASSUME TlsInv, [TlsNext]_tlsVars PROVE TlsInv'
  OBVIOUS
<1>1. CausalInv'
  BY TlsStepCausal, CausalNextInv DEF TlsInv
<1>2. CASE TlsStep
  <2>1. LifecycleTypeOK' /\ SslTypeOK'
    BY <1>2, TlsStepType DEF TlsInv
  <2>2. ASSUME NEW t \in Task, NEW s \in Sock, NEW buf,
               \/ buf \in Written /\ SslWriteEntry(t, s, buf)
               \/ buf \in Received /\ SslReadEntry(t, s, buf)
        PROVE  ArgsInv' /\ ArgsLeakOnlyWhenKilled'
    BY <2>2, EntryEffect, EntryArgs DEF TlsInv
  <2>3. ASSUME NEW t \in Task,
               (\E op \in Op : SslReturnFailed(t, op)) \/ SslWriteReturn(t) \/ SslReadReturn(t)
        PROVE  ArgsInv' /\ ArgsLeakOnlyWhenKilled'
    BY <2>3, ReturnEffect, ReturnArgs DEF TlsInv
  <2>4. ArgsInv' /\ ArgsLeakOnlyWhenKilled'
    BY <1>2, <2>2, <2>3 DEF TlsStep
  <2> QED BY <1>1, <2>1, <2>4 DEF TlsInv
<1>3. CASE OtherStep
  BY <1>1, <1>3, OtherStepType, OtherStepArgs DEF TlsInv
<1>4. CASE UNCHANGED tlsVars
  <2>1. LifecycleTypeOK'
    BY <1>4, LifecycleTypeStep DEF TlsInv, tlsVars
  <2> QED BY <1>1, <1>4, <2>1
      DEF TlsInv, SslTypeOK, ArgsInv, ArgsLeakOnlyWhenKilled, tlsVars, sslVars, lifecycleVars, causalVars
<1> QED BY <1>2, <1>3, <1>4 DEF TlsNext

LEMMA TlsInvInit == TlsInit => TlsInv
<1> SUFFICES ASSUME TlsInit PROVE TlsInv
  OBVIOUS
<1>1. CausalInv /\ LifecycleTypeOK
  BY CausalInitInv, LifecycleTypeInit DEF TlsInit, LifecycleInit
<1>2. SslTypeOK
  BY TlsAssumption DEF TlsInit, SslTypeOK, Op
<1>3. ArgsInv /\ ArgsLeakOnlyWhenKilled
  BY DEF TlsInit, ArgsInv, ArgsLeakOnlyWhenKilled
<1> QED BY <1>1, <1>2, <1>3 DEF TlsInv

LEMMA TlsInvariant == TlsSpec => []TlsInv
  BY TlsInvInit, TlsInvStep, PTL DEF TlsSpec

\* Threads, rows, calls and their arguments keep their types, whatever the
\* TLS probes write.
THEOREM TlsTypeCorrect == TlsSpec => []TlsTypeOK
<1>1. TlsInv => TlsTypeOK
  BY TlsTypes DEF TlsInv
<1> QED BY <1>1, TlsInvariant, PTL

\* A return probe never takes the arguments of another call.
THEOREM TlsArgsOfThisCall == TlsSpec => []ArgsOfThisCall
<1>1. TlsInv => ArgsOfThisCall
  <2> SUFFICES ASSUME TlsInv, NEW t \in Task, NEW op \in Op, InCall(t, op), sslArgs[op][t] # NoArgs
               PROVE  sslArgs[op][t] = Last(sslCalls[t])
    BY DEF ArgsOfThisCall
  <2>1. sslCalls[t] \in Seq(SslCall) /\ sslCalls[t] # <<>> /\ Last(sslCalls[t]).op = op
    BY DEF TlsInv, SslTypeOK, InCall
  <2>2. Len(sslCalls[t]) \in DOMAIN sslCalls[t] /\ \A j \in DOMAIN sslCalls[t] : ~ j > Len(sslCalls[t])
    BY <2>1
  <2> QED BY <2>1, <2>2 DEF TlsInv, ArgsInv, Last
<1> QED BY <1>1, TlsInvariant, PTL

\* Only a thread killed inside a call leaves arguments behind.
THEOREM TlsArgsLeak == TlsSpec => []ArgsLeakOnlyWhenKilled
<1>1. TlsInv => ArgsLeakOnlyWhenKilled
  BY DEF TlsInv
<1> QED BY <1>1, TlsInvariant, PTL

-----------------------------------------------------------------------------
(* When TLS is ready.                                                      *)

LEMMA RowAfterTimes ==
  ASSUME NEW st \in FlowState, now \in Nat \ {0}, RowTimes(st, now), NEW call
  PROVE  RowTimes(RowAfter(st, call), now)
<1>1. /\ st.connect_ts_ns \in Nat /\ st.first_byte_ts_ns \in Nat /\ st.first_recv_ts_ns \in Nat
      /\ st.tls_ready_ts_ns \in Nat
  BY TimesAreNumbers DEF TimeFields
<1>2. {"connect_ts_ns", "first_byte_ts_ns", "first_recv_ts_ns", "tls_ready_ts_ns", "has_tls"}
        \subseteq DOMAIN st
  BY DEF FlowState, EMPTY_FLOW_STATE
<1>3. RowTimes(RowWritten(st, call), now)
  <2> DEFINE new == RowWritten(st, call)
             tls == call.buf \in {"hello", "nameless_hello"}
  <2>1. /\ new.connect_ts_ns = st.connect_ts_ns /\ new.first_byte_ts_ns = st.first_byte_ts_ns
        /\ new.first_recv_ts_ns = st.first_recv_ts_ns
        /\ new.has_tls = IF tls THEN 1 ELSE st.has_tls
        /\ new.tls_ready_ts_ns = IF tls /\ st.tls_ready_ts_ns = 0 THEN now ELSE st.tls_ready_ts_ns
    BY <1>2 DEF RowWritten
  <2> HIDE DEF new, tls
  <2>2. RowTimes(new, now)
    BY <1>1, <2>1 DEF RowTimes
  <2> QED BY <2>2 DEF new
<1>4. RowTimes(RowRead(st, call), now)
  BY <1>1, <1>2 DEF RowRead, RowTimes
<1> QED BY <1>3, <1>4 DEF RowAfter

LEMMA TlsTimesStep ==
  ASSUME TlsInv, TlsInv', TimesInv, [TlsNext]_tlsVars
  PROVE  TimesInv'
<1>1. /\ LifecycleTypeOK /\ LifecycleTypeOK' /\ FlowTypeOK /\ now \in Nat \ {0}
  BY DEF TlsInv, LifecycleTypeOK, CausalTypeOK
<1>2. CASE OtherStep \/ UNCHANGED tlsVars
  <2>1. [LifecycleNext]_lifecycleVars
    BY <1>2, OtherStepLifecycle DEF tlsVars
  <2> QED BY <1>1, <2>1, TimesStep
<1>3. CASE TlsStep
  <2>1. now' = now /\ flowEvents' = flowEvents
    BY <1>3, TlsStepFrame DEF causalVars
  <2>2. \/ flowTable' = flowTable
        \/ \E t \in Task, op \in Op : UpdateThreadRow(t, sslArgs[op][t])
    <3>1. ASSUME NEW t \in Task, NEW s \in Sock, NEW buf,
                 \/ buf \in Written /\ SslWriteEntry(t, s, buf)
                 \/ buf \in Received /\ SslReadEntry(t, s, buf)
          PROVE  flowTable' = flowTable
      BY <3>1 DEF SslWriteEntry, SslReadEntry, SslEntry, lifecycleVars, flowVars, mapVars
    <3>2. ASSUME NEW t \in Task,
                 (\E op \in Op : SslReturnFailed(t, op)) \/ SslWriteReturn(t) \/ SslReadReturn(t)
          PROVE  flowTable' = flowTable \/ \E op \in Op : UpdateThreadRow(t, sslArgs[op][t])
      BY <3>2, ReturnEffect
    <3> QED BY <1>3, <3>1, <3>2 DEF TlsStep
  <2>3. ASSUME NEW k \in FlowKey, flowTable'[k] # NoRow
        PROVE  RowTimes(flowTable'[k], now)
    <3>1. ASSUME flowTable'[k] = flowTable[k]
          PROVE  RowTimes(flowTable'[k], now)
      BY <2>3, <3>1 DEF TimesInv, Rows
    <3>2. ASSUME NEW t \in Task, NEW op \in Op, UpdateThreadRow(t, sslArgs[op][t])
          PROVE  \/ flowTable'[k] = flowTable[k]
                 \/ flowTable[k] # NoRow /\ flowTable'[k] = RowAfter(flowTable[k], sslArgs[op][t])
      <4>1. tlsThreadFlow[t] # NoKey => tlsThreadFlow[t] \in FlowKey
        BY <1>1 DEF FlowTypeOK
      <4> QED BY <1>1, <3>2, <4>1 DEF UpdateThreadRow, UpdateRow, FlowTypeOK
    <3>3. ASSUME flowTable[k] # NoRow, NEW call, flowTable'[k] = RowAfter(flowTable[k], call)
          PROVE  RowTimes(flowTable'[k], now)
      <4>1. flowTable[k] \in FlowState /\ RowTimes(flowTable[k], now)
        BY <1>1, <3>3 DEF FlowTypeOK, TimesInv, Rows
      <4> QED BY <1>1, <3>3, <4>1, RowAfterTimes
    <3> QED BY <2>2, <3>1, <3>2, <3>3
  <2> QED BY <2>1, <2>3 DEF TimesInv, Rows
<1> QED BY <1>2, <1>3 DEF TlsNext

\* TLS is ready between the connect and the close of the connection whose row
\* a return probe writes to, and the handshake lies within the duration.
THEOREM TlsReady == TlsSpec => []TlsReadyInLife
<1>1. TlsInit => TimesInv
  BY DEF TlsInit, LifecycleInit, TimesInv, Rows
<1>2. TlsInv /\ TlsInv' /\ TimesInv /\ [TlsNext]_tlsVars => TimesInv'
  BY TlsTimesStep
<1>3. TimesInv => TlsReadyInLife
  BY DEF TimesInv, RowTimes, EventTimes, TlsReadyInLife
<1> QED BY <1>1, <1>2, <1>3, TlsInvariant, PTL DEF TlsSpec

-----------------------------------------------------------------------------
(* Whose names are in a row.                                               *)

TextFields == {"tls_sni", "http_method", "http_host", "http_path", "http_status"}

\* Thread name t opened a connection with key k.
Led(t, k) == \E s \in opened[t] : Key(s) = k

\* Who opened connections with key k made SSL calls over its own alone.
OwnCalls(k) == \A t \in Task : Led(t, k) => sslUsed[t] \subseteq {owner[k]}

\* What the row of key k may say.
OwnText(k, text) == text = 0 \/ ((\E t \in Task : Led(t, k)) /\ text = Text[owner[k]])

\* A thread is led to a key it opened a connection with, and has arguments of a
\* connection it made an SSL call over.
TextInv ==
  /\ \A t \in Task : tlsThreadFlow[t] # NoKey => Led(t, tlsThreadFlow[t])
  /\ \A t \in Task, op \in Op : sslArgs[op][t] # NoArgs => sslArgs[op][t].sock \in sslUsed[t]
  /\ \A k \in Rows, f \in TextFields : OwnCalls(k) => OwnText(k, flowTable[k][f])

LEMMA TextFieldsOfRow ==
  ASSUME NEW st \in FlowState, NEW f \in TextFields
  PROVE  f \in DOMAIN st
  BY DEF FlowState, EMPTY_FLOW_STATE, TextFields

\* No probe of TcpLifecycle writes a name; a fresh row has none.
LEMMA TextFieldsKept ==
  ASSUME NEW st \in FlowState, NEW new \in RowsAfter(st), NEW f \in TextFields
  PROVE  new[f] = st[f]
  BY TextFieldsOfRow DEF RowsAfter, RowsUnread, RowSent, RowReceived, TextFields

LEMMA TextFieldsFresh ==
  ASSUME NEW t, NEW dir, NEW f \in TextFields
  PROVE  FilledRow(t, dir)[f] = 0
<1>1. f \in DOMAIN EMPTY_FLOW_STATE /\ EMPTY_FLOW_STATE[f] = 0
  BY DEF EMPTY_FLOW_STATE, TextFields
<1> QED BY <1>1 DEF FilledRow, TextFields

\* A TLS probe writes the text of the connection of its call.
LEMMA TextFieldsAfter ==
  ASSUME NEW st \in FlowState, NEW call, NEW f \in TextFields
  PROVE  RowAfter(st, call)[f] \in {st[f], Text[call.sock]}
<1>1. TextFields \subseteq DOMAIN st
  BY TextFieldsOfRow
<1>2. RowWritten(st, call)[f] \in {st[f], Text[call.sock]}
  BY <1>1 DEF RowWritten, TextFields
<1>3. RowRead(st, call)[f] \in {st[f], Text[call.sock]}
  BY <1>1 DEF RowRead, TextFields
<1> QED BY <1>2, <1>3 DEF RowAfter

LEMMA TuplesFixed ==
  ASSUME [LifecycleNext]_lifecycleVars
  PROVE  tuple' = tuple
  BY DEF LifecycleNext, FlowStep, TaskStep, RingNext, TcpConnect, Establish, Finish,
     InetCskAccept, InetCskAcceptMissed, TcpSendmsg, TcpRecvmsgEntry, TcpRecvmsgReturnNothing,
     TcpRecvmsgReturn, TcpRecvmsgReturnError, CountReceived, TcpRecvmsgReturnMissed,
     TcpSendActiveReset, TcpClose, Abandon, lifecycleVars, flowVars, kernelVars

\* TLS_THREAD_FLOW changes when a thread opens a connection, to its key.
LEMMA ThreadFlowChange ==
  ASSUME FlowTypeOK, OtherStep \/ UNCHANGED tlsVars, NEW t \in Task,
         tlsThreadFlow'[t] # tlsThreadFlow[t]
  PROVE  \E s \in Sock : /\ opened' = [opened EXCEPT ![t] = @ \cup {s}]
                         /\ tlsThreadFlow'[t] = Key(s) /\ tuple' = tuple
<1>1. ASSUME NEW u \in Task, NEW s \in Sock, NEW dir, InitFlowRow(u, s, dir)
      PROVE  u = t /\ tlsThreadFlow'[t] = Key(s) /\ dir = Outbound
  BY <1>1 DEF InitFlowRow, InsertRow, InsertRowThenLose, InsertFails, FlowTypeOK
<1>2. CASE UNCHANGED tlsVars
  BY <1>2 DEF tlsVars, lifecycleVars, flowVars, mapVars
<1>3. ASSUME NEW u \in Task, NEW s \in Sock, TcpConnect(u, s),
             opened' = [opened EXCEPT ![u] = @ \cup {s}]
      PROVE  \E o \in Sock : /\ opened' = [opened EXCEPT ![t] = @ \cup {o}]
                             /\ tlsThreadFlow'[t] = Key(o) /\ tuple' = tuple
  BY <1>1, <1>3 DEF TcpConnect
<1>4. ASSUME LifecycleNext, \A s \in Sock : ~ Opens(s)
      PROVE  FALSE
  <2>1. ASSUME NEW u \in Task, NEW s \in Sock
        PROVE  ~ TcpConnect(u, s) /\ ~ InetCskAccept(u, s)
    <3>1. ~ TcpConnect(u, s)
      BY <1>4 DEF TcpConnect, Opens, FlowTypeOK
    <3>2. ~ InetCskAccept(u, s)
      BY <1>1 DEF InetCskAccept, Outbound, Inbound
    <3> QED BY <3>1, <3>2
  <2>2. ~ TaskStep /\ ~ RingNext
    BY DEF TaskStep, RingNext, flowVars, mapVars
  <2>3. ASSUME NEW s \in Sock
        PROVE  /\ ~ Establish(s) /\ ~ Finish(s) /\ ~ TcpSendActiveReset(s) /\ ~ TcpClose(s)
               /\ ~ Abandon(s) /\ \A n \in SendSize : ~ TcpSendmsg(s, n)
    BY DEF Establish, Finish, TcpSendmsg, TcpSendActiveReset, TcpClose, CloseUntracked, CloseDropsEvent,
       CloseReports, Abandon, mapVars
  <2>4. ASSUME NEW u \in Task
        PROVE  /\ \A s \in Sock : ~ InetCskAcceptMissed(u, s) /\ ~ TcpRecvmsgEntry(u, s)
               /\ ~ TcpRecvmsgReturnNothing(u)
               /\ \A n \in RecvSize : ~ TcpRecvmsgReturn(u, n)
               /\ \A e \in Errno : ~ TcpRecvmsgReturnError(u, e)
               /\ \A n \in RecvSize \cup {0} : ~ TcpRecvmsgReturnMissed(u, n)
    BY DEF InetCskAcceptMissed, TcpRecvmsgEntry, TcpRecvmsgReturnNothing, TcpRecvmsgReturn,
       TcpRecvmsgReturnError, CountReceived, TcpRecvmsgReturnMissed, mapVars
  <2> QED BY <1>4, <2>1, <2>2, <2>3, <2>4 DEF LifecycleNext, FlowStep
<1> QED BY <1>2, <1>3, <1>4 DEF OtherStep

\* What a thread opened and used it goes on having opened and used.
LEMMA HistoryGrows ==
  ASSUME SslTypeOK, [TlsNext]_tlsVars, NEW t \in Task
  PROVE  /\ tuple' = tuple
         /\ opened[t] \subseteq opened'[t] /\ sslUsed[t] \subseteq sslUsed'[t]
<1>1. CASE TlsStep
  <2>1. UNCHANGED <<tuple, opened>>
    BY <1>1, TlsStepFrame DEF kernelVars
  <2>2. ASSUME NEW u \in Task, NEW call, SslEntry(u, call)
        PROVE  sslUsed[t] \subseteq sslUsed'[t]
    BY <2>2 DEF SslEntry, SslTypeOK
  <2>3. ASSUME NEW u \in Task,
               (\E op \in Op : SslReturnFailed(u, op)) \/ SslWriteReturn(u) \/ SslReadReturn(u)
        PROVE  sslUsed[t] \subseteq sslUsed'[t]
    BY <2>3 DEF SslReturnFailed, SslWriteReturn, SslReadReturn, SslReturnFrame
  <2> QED BY <1>1, <2>1, <2>2, <2>3 DEF TlsStep, SslWriteEntry, SslReadEntry
<1>2. CASE OtherStep \/ UNCHANGED tlsVars
  <2>1. [LifecycleNext]_lifecycleVars
    BY <1>2, OtherStepLifecycle DEF tlsVars
  <2> QED BY <1>2, <2>1, TuplesFixed DEF OtherStep, SslTypeOK, tlsVars, sslVars
<1> QED BY <1>1, <1>2 DEF TlsNext

LEMMA LedGrows ==
  ASSUME SslTypeOK, [TlsNext]_tlsVars, NEW t \in Task, NEW k \in FlowKey, Led(t, k)
  PROVE  Led(t, k)'
  BY HistoryGrows DEF Led, Key, SslTypeOK

\* A text of a row stays its connection's while neither changes.
LEMMA TextKept ==
  ASSUME SslTypeOK, TextInv, [TlsNext]_tlsVars, NEW k \in FlowKey, flowTable[k] # NoRow,
         owner'[k] = owner[k], NEW f \in TextFields, flowTable'[k][f] = flowTable[k][f],
         OwnCalls(k)'
  PROVE  OwnText(k, flowTable[k][f])'
<1>1. \A t \in Task : Led(t, k) => Led(t, k)'
  BY LedGrows
<1>2. OwnCalls(k)
  BY <1>1, HistoryGrows DEF OwnCalls
<1>3. OwnText(k, flowTable[k][f])
  BY <1>2 DEF TextInv, Rows
<1> QED BY <1>1, <1>3 DEF OwnText

LEMMA TextOtherStep ==
  ASSUME TlsInv, TextInv, OtherStep \/ UNCHANGED tlsVars
  PROVE  TextInv'
<1>1. /\ LifecycleTypeOK /\ FlowTypeOK /\ SslTypeOK
      /\ [LifecycleNext]_lifecycleVars /\ [TlsNext]_tlsVars
  BY OtherStepLifecycle DEF TlsInv, LifecycleTypeOK, TlsNext, tlsVars
<1>2. UNCHANGED <<sslArgs, sslUsed>>
  BY DEF OtherStep, tlsVars, sslVars
<1>3. ASSUME NEW t \in Task, tlsThreadFlow'[t] # NoKey
      PROVE  Led(t, tlsThreadFlow[t])'
  <2>1. CASE tlsThreadFlow'[t] = tlsThreadFlow[t]
    <3>1. tlsThreadFlow[t] \in FlowKey /\ Led(t, tlsThreadFlow[t])
      BY <1>1, <1>3, <2>1 DEF TextInv, FlowTypeOK
    <3>2. opened[t] \subseteq opened'[t] /\ tuple' = tuple
      BY <1>1, HistoryGrows
    <3> QED BY <2>1, <3>1, <3>2 DEF Led, Key
  <2>2. CASE tlsThreadFlow'[t] # tlsThreadFlow[t]
    <3>1. PICK s \in Sock : /\ opened' = [opened EXCEPT ![t] = @ \cup {s}]
                            /\ tlsThreadFlow'[t] = Key(s) /\ tuple' = tuple
      BY <1>1, <2>2, ThreadFlowChange
    <3>2. s \in opened'[t]
      BY <1>1, <3>1 DEF SslTypeOK
    <3> QED BY <3>1, <3>2 DEF Led, Key
  <2> QED BY <2>1, <2>2
<1>4. ASSUME NEW k \in FlowKey, flowTable'[k] # NoRow, NEW f \in TextFields, OwnCalls(k)'
      PROVE  OwnText(k, flowTable[k][f])'
  <2>1. \/ flowTable[k] # NoRow /\ flowTable'[k] \in RowsAfter(flowTable[k]) /\ owner'[k] = owner[k]
        \/ \E t \in Task, dir \in {Outbound, Inbound} : flowTable'[k] = FilledRow(t, dir)
    BY <1>1, <1>4, RowStep DEF RowChange
  <2>2. CASE flowTable[k] # NoRow /\ flowTable'[k] \in RowsAfter(flowTable[k]) /\ owner'[k] = owner[k]
    <3>1. flowTable'[k][f] = flowTable[k][f]
      BY <1>1, <2>2, TextFieldsKept DEF FlowTypeOK
    <3> QED BY <1>1, <1>4, <2>2, <3>1, TextKept
  <2>3. ASSUME NEW t \in Task, NEW dir, flowTable'[k] = FilledRow(t, dir)
        PROVE  OwnText(k, flowTable[k][f])'
    BY <2>3, TextFieldsFresh DEF OwnText
  <2> QED BY <2>1, <2>2, <2>3
<1>5. \A t \in Task, op \in Op : sslArgs'[op][t] # NoArgs => sslArgs'[op][t].sock \in sslUsed'[t]
  BY <1>2 DEF TextInv
<1> QED BY <1>3, <1>4, <1>5 DEF TextInv, Rows

LEMMA TextTlsStep ==
  ASSUME TlsInv, TextInv, TlsStep
  PROVE  TextInv'
<1>1. /\ LifecycleTypeOK /\ FlowTypeOK /\ SslTypeOK /\ [TlsNext]_tlsVars
  BY DEF TlsInv, LifecycleTypeOK, TlsNext
<1>2. UNCHANGED <<tuple, tlsThreadFlow, owner, opened>>
  BY TlsStepFrame DEF kernelVars, historyVars
<1>3. \A t \in Task : sslUsed[t] \subseteq sslUsed'[t]
  BY <1>1, HistoryGrows
<1>4. \A t \in Task : tlsThreadFlow'[t] # NoKey => Led(t, tlsThreadFlow[t])'
  BY <1>2 DEF TextInv, Led, Key
<1>5. ASSUME NEW t \in Task, NEW s \in Sock, NEW buf,
             \/ buf \in Written /\ SslWriteEntry(t, s, buf)
             \/ buf \in Received /\ SslReadEntry(t, s, buf)
      PROVE  /\ \A u \in Task, op \in Op : sslArgs'[op][u] # NoArgs => sslArgs'[op][u].sock \in sslUsed'[u]
             /\ flowTable' = flowTable
  <2>1. PICK call \in SslCall :
           /\ sslUsed' = [sslUsed EXCEPT ![t] = @ \cup {call.sock}]
           /\ SaveArgs(t, call)
           /\ UNCHANGED lifecycleVars
    BY <1>1, <1>5, EntryEffect
  <2>2. call.op \in Op /\ call.sock \in sslUsed'[t]
    BY <1>1, <2>1 DEF SslTypeOK, SslCall
  <2>3. ASSUME NEW u \in Task, NEW op \in Op
        PROVE  sslArgs'[op][u] = sslArgs[op][u] \/ (u = t /\ sslArgs'[op][u] = call)
    <3>1. CASE sslArgs' = sslArgs
      BY <3>1
    <3>2. CASE sslArgs' = [sslArgs EXCEPT ![call.op][t] = call]
      <4>1. sslArgs[call.op] \in [Task -> SslCall \cup {NoArgs}] /\ DOMAIN sslArgs = Op
        BY <1>1, <2>2 DEF SslTypeOK
      <4>2. sslArgs'[op] = IF op = call.op THEN [sslArgs[op] EXCEPT ![t] = call] ELSE sslArgs[op]
        BY <2>2, <3>2, <4>1
      <4> QED BY <4>1, <4>2
    <3> QED BY <2>1, <3>1, <3>2 DEF SaveArgs
  <2>4. ASSUME NEW u \in Task, NEW op \in Op, sslArgs'[op][u] # NoArgs
        PROVE  sslArgs'[op][u].sock \in sslUsed'[u]
    <3>1. CASE sslArgs'[op][u] = sslArgs[op][u]
      BY <1>3, <2>4, <3>1 DEF TextInv
    <3> QED BY <2>2, <2>3, <3>1
  <2>5. flowTable' = flowTable
    BY <2>1 DEF lifecycleVars, flowVars, mapVars
  <2> QED BY <2>4, <2>5
<1>6. ASSUME NEW t \in Task,
             (\E op \in Op : SslReturnFailed(t, op)) \/ SslWriteReturn(t) \/ SslReadReturn(t)
      PROVE  /\ \A u \in Task, op \in Op : sslArgs'[op][u] # NoArgs => sslArgs'[op][u].sock \in sslUsed'[u]
             /\ \/ flowTable' = flowTable
                \/ \E op \in Op : UpdateThreadRow(t, sslArgs[op][t])
  <2>1. PICK op \in Op :
           /\ sslArgs' = [sslArgs EXCEPT ![op][t] = NoArgs]
           /\ flowTable' = flowTable \/ UpdateThreadRow(t, sslArgs[op][t])
    BY <1>6, ReturnEffect
  <2>2. \A u \in Task, o \in Op : sslArgs'[o][u] = NoArgs \/ sslArgs'[o][u] = sslArgs[o][u]
    BY <1>1, <2>1 DEF SslTypeOK
  <2>3. ASSUME NEW u \in Task, NEW o \in Op, sslArgs'[o][u] # NoArgs
        PROVE  sslArgs'[o][u].sock \in sslUsed'[u]
    BY <1>3, <2>2, <2>3 DEF TextInv
  <2> QED BY <2>1, <2>3
<1>7. ASSUME NEW k \in FlowKey, flowTable'[k] # NoRow, NEW f \in TextFields, OwnCalls(k)'
      PROVE  OwnText(k, flowTable[k][f])'
  <2>0. owner'[k] = owner[k]
    BY <1>2
  <2>1. CASE flowTable'[k] = flowTable[k]
    BY <1>1, <1>7, <2>0, <2>1, TextKept
  <2>2. ASSUME flowTable'[k] # flowTable[k], NEW t \in Task, NEW op \in Op,
               UpdateThreadRow(t, sslArgs[op][t])
        PROVE  OwnText(k, flowTable[k][f])'
    <3> DEFINE call == sslArgs[op][t]
    <3>1. call # NoArgs /\ tlsThreadFlow[t] = k /\ flowTable[k] # NoRow
          /\ flowTable'[k] = RowAfter(flowTable[k], call)
      <4>1. /\ call # NoArgs /\ tlsThreadFlow[t] \in FlowKey
            /\ UpdateRow(tlsThreadFlow[t], RowAfter(flowTable[tlsThreadFlow[t]], call))
        BY <1>1, <2>2 DEF UpdateThreadRow, FlowTypeOK
      <4> HIDE DEF call
      <4> QED BY <1>1, <2>2, <4>1 DEF UpdateRow, FlowTypeOK
    <3>2. Led(t, k) /\ call.sock \in sslUsed[t]
      <4>1. tlsThreadFlow[t] # NoKey
        BY <2>2 DEF UpdateThreadRow
      <4> QED BY <3>1, <4>1 DEF TextInv
    <3>3. Led(t, k)'
      BY <1>1, <3>2, LedGrows
    <3>4. call.sock = owner'[k]
      BY <1>3, <1>7, <3>2, <3>3 DEF OwnCalls
    <3>5. flowTable[k] \in FlowState
      BY <1>1, <3>1 DEF FlowTypeOK
    <3>6. flowTable'[k][f] \in {flowTable[k][f], Text[call.sock]}
      BY <3>1, <3>5, TextFieldsAfter
    <3>7. CASE flowTable'[k][f] = flowTable[k][f]
      BY <1>1, <1>7, <2>0, <3>1, <3>7, TextKept
    <3>8. CASE flowTable'[k][f] = Text[call.sock]
      BY <3>3, <3>4, <3>8 DEF OwnText
    <3> QED BY <3>6, <3>7, <3>8
  <2> QED BY <1>5, <1>6, <2>1, <2>2 DEF TlsStep
<1>8. \A u \in Task, op \in Op : sslArgs'[op][u] # NoArgs => sslArgs'[op][u].sock \in sslUsed'[u]
  BY <1>5, <1>6 DEF TlsStep
<1> QED BY <1>4, <1>7, <1>8 DEF TextInv, Rows

\* Names, request and status in a row are its connection's, when no thread
\* that opened one with its key made SSL calls over another.
THEOREM TlsDataOwned == TlsSpec => []TlsDataIsOwn
<1>1. TlsInit => TextInv
  BY DEF TlsInit, LifecycleInit, TextInv, Rows
<1>2. TlsInv /\ TextInv /\ [TlsNext]_tlsVars => TextInv'
  BY TextOtherStep, TextTlsStep DEF TlsNext
<1>3. TextInv => TlsDataIsOwn
  <2> SUFFICES ASSUME TextInv, NEW k \in Rows,
                      \A t \in OpenersOf(k) : sslUsed[t] \subseteq {owner[k]}, NEW f \in TextFields
               PROVE  flowTable[k][f] \in
                        {0} \cup (IF OpenersOf(k) = {} THEN {} ELSE {Text[owner[k]]})
    BY DEF TlsDataIsOwn, TextFields
  <2>1. \A t \in Task : Led(t, k) <=> t \in OpenersOf(k)
    BY DEF Led, OpenersOf
  <2>2. OwnText(k, flowTable[k][f])
    BY <2>1 DEF TextInv, OwnCalls
  <2> QED BY <2>1, <2>2 DEF OwnText
<1> QED BY <1>1, <1>2, <1>3, TlsInvariant, PTL DEF TlsSpec
=============================================================================

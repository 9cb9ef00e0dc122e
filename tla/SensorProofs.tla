---------------------------- MODULE SensorProofs ----------------------------
(***************************************************************************)
(* Proofs about Sensor: how far start-up comes, whose data is read under   *)
(* /proc, and that the daemon takes the steps of EventLoop, for every      *)
(* environment, filter, ring and set of processes.                         *)
(***************************************************************************)
EXTENDS Sensor, SequenceTheorems, FiniteSetTheorems, TLAPS

-----------------------------------------------------------------------------
(* Start-up.                                                               *)

AfterKprobes == {"tls_object", "tls_load", "tls_attach", "header", "run"}

\* How far each loop is, and what it left behind.  A TLS program stays loaded
\* from the first loop to the second, where it is loaded again.
StartupInv ==
  /\ stage \in Starting \cup Ended \cup {"run"}
  /\ env \in Environment
  /\ next \in Nat \ {0}
  /\ stage \in {"root", "object"} => attached = {}
  /\ stage = "kprobes" =>
       /\ next \in DOMAIN ATTACH
       /\ attached = {ATTACH[i] : i \in 1..(next - 1)}
  /\ stage \in AfterKprobes => attached = {ATTACH[i] : i \in DOMAIN ATTACH}
  /\ stage = "tls_load" =>
       /\ next \in DOMAIN TLS_EBPF_PROGRAMS
       /\ next > 1 => TLS_EBPF_PROGRAMS[1] \in loaded
  /\ stage = "tls_attach" =>
       /\ TLS_EBPF_PROGRAMS[1] \in loaded
       /\ \A i \in DOMAIN env.tls_pids : i < next => env.tls_pids[i] \notin env.users \ env.hidden
  /\ stage \in Ended => attached = {}
  /\ stage \in {"header", "run"} =>
       /\ env.tls_pids # <<>>
       /\ \A i \in DOMAIN env.tls_pids : env.tls_pids[i] \notin env.users \ env.hidden

LEMMA AttachTable ==
  /\ DOMAIN ATTACH = 1..17 /\ Len(ATTACH) = 17
  /\ \A i \in DOMAIN ATTACH : <<ATTACH[i][1], ATTACH[i][2]>> = ATTACH[i]
  BY DEF ATTACH

LEMMA TlsTable ==
  DOMAIN TLS_EBPF_PROGRAMS = 1..4 /\ Len(TLS_EBPF_PROGRAMS) = 4
  BY DEF TLS_EBPF_PROGRAMS

LEMMA StartupInitInv == StartupInit => StartupInv
  BY AttachTable DEF StartupInit, StartupInv, Starting, Ended, AfterKprobes, RunsWithKprobesOnly

\* The kernel probes are attached one after the other, or start-up fails.
LEMMA AttachKprobeInv ==
  ASSUME StartupInv, AttachKprobe
  PROVE  StartupInv'
<1>1. /\ stage = "kprobes" /\ next \in 1..17 /\ env' = env
      /\ attached = {ATTACH[i] : i \in 1..(next - 1)}
  BY AttachTable DEF StartupInv, AttachKprobe, Fail
<1>2. CASE Fail
  BY <1>1, <1>2 DEF Fail, StartupInv, Starting, Ended, AfterKprobes, RunsWithKprobesOnly
<1>3. CASE ~ Fail
  <2>1. attached' = attached \cup {ATTACH[next]}
    BY <1>1, <1>3, AttachTable DEF AttachKprobe
  <2>2. attached' = {ATTACH[i] : i \in 1..next}
    BY <1>1, <2>1
  <2>3. CASE next < 17
    <3>1. next' = next + 1 /\ stage' = stage
      BY <1>1, <1>3, <2>3, AttachTable DEF AttachKprobe
    <3>2. next' \in 1..17 /\ 1..(next' - 1) = 1..next
      BY <1>1, <2>3, <3>1
    <3> QED BY <1>1, <2>2, <3>1, <3>2, AttachTable
        DEF StartupInv, Starting, Ended, AfterKprobes, RunsWithKprobesOnly
  <2>4. CASE ~ next < 17
    <3>1. next = 17 /\ next' = 1 /\ stage' = "tls_object"
      BY <1>1, <1>3, <2>4, AttachTable DEF AttachKprobe, Proceed
    <3> QED BY <1>1, <2>2, <3>1, AttachTable
        DEF StartupInv, Starting, Ended, AfterKprobes, RunsWithKprobesOnly
  <2> QED BY <2>3, <2>4
<1> QED BY <1>2, <1>3

\* A TLS program is loaded by now, so that no attach succeeds.
LEMMA AttachToFails ==
  ASSUME StartupInv, stage = "tls_attach", NEW target, NEW to, AttachTo(target, to)
  PROVE  Fail
  BY TlsTable DEF StartupInv, AttachTo

LEMMA StartupStepInv ==
  ASSUME StartupInv, StartupStep \/ Killed \/ UNCHANGED startupVars
  PROVE  StartupInv'
<1> USE DEF Starting, Ended, AfterKprobes, RunsWithKprobesOnly
<1>1. ASSUME Fail \/ Killed
      PROVE  StartupInv'
  BY <1>1 DEF StartupInv, Fail, Killed
<1>2. CASE CheckRoot \/ LoadObject
  BY <1>1, <1>2, AttachTable DEF StartupInv, CheckRoot, LoadObject, Proceed
<1>3. CASE CheckTlsObject
  BY <1>1, <1>3, TlsTable DEF StartupInv, CheckTlsObject, Proceed
<1>4. CASE LoadTlsProgram
  <2>1. /\ stage = "tls_load" /\ next \in 1..4 /\ env' = env /\ attached' = attached
        /\ TLS_EBPF_PROGRAMS[1] \in loaded'
    BY <1>4, TlsTable DEF StartupInv, LoadTlsProgram
  <2>2. CASE next < 4
    BY <1>4, <2>1, <2>2, TlsTable DEF StartupInv, LoadTlsProgram
  <2>3. CASE ~ next < 4
    <3>1. stage' = "tls_attach" /\ next' = 1
      BY <1>4, <2>1, <2>3, TlsTable DEF LoadTlsProgram, Proceed
    <3>2. env.tls_pids \in Seq(Nat)
      BY EnvironmentAssumption DEF StartupInv
    <3>3. \A i \in DOMAIN env.tls_pids : ~ i < next'
      BY <3>1, <3>2
    <3> QED BY <2>1, <3>1, <3>3 DEF StartupInv
  <2> QED BY <2>2, <2>3
<1>5. CASE AttachTlsToPid
  <2>1. CASE FindLibsslForPid(env.tls_pids[next])
    BY <1>1, <1>5, <2>1, AttachToFails DEF AttachTlsToPid
  <2>2. CASE ~ FindLibsslForPid(env.tls_pids[next])
    <3>1. /\ stage = "tls_attach" /\ next' = next + 1
          /\ env.tls_pids[next] \notin env.users \ env.hidden
          /\ UNCHANGED <<env, stage, loaded, attached>>
      BY <1>5, <2>2 DEF AttachTlsToPid, FindLibsslForPid
    <3>2. next \in Nat \ {0} /\ DOMAIN env.tls_pids \subseteq Nat
      BY EnvironmentAssumption DEF StartupInv
    <3>3. \A i \in DOMAIN env.tls_pids : i < next' => env.tls_pids[i] \notin env.users \ env.hidden
      <4> TAKE i \in DOMAIN env.tls_pids
      <4>1. i < next' => (i < next \/ i = next)
        BY <3>1, <3>2
      <4> QED BY <3>1, <4>1 DEF StartupInv
    <3> QED BY <3>1, <3>2, <3>3 DEF StartupInv
  <2> QED BY <2>1, <2>2
<1>6. CASE AttachTlsSystemWide
  BY <1>1, <1>6, AttachToFails DEF AttachTlsSystemWide
<1>7. CASE TlsPidsEnd
  <2>1. /\ stage = "tls_attach" /\ stage' = "header" /\ next' = 1
        /\ env.tls_pids # <<>> /\ next > Len(env.tls_pids)
        /\ UNCHANGED <<env, loaded, attached>>
    BY <1>7 DEF TlsPidsEnd, Proceed
  <2>2. env.tls_pids \in Seq(Nat) /\ next \in Nat
    BY EnvironmentAssumption DEF StartupInv
  <2>3. \A i \in DOMAIN env.tls_pids : i < next
    BY <2>1, <2>2
  <2> QED BY <2>1, <2>3 DEF StartupInv
<1>8. CASE StartLoop
  BY <1>1, <1>8 DEF StartupInv, StartLoop, Proceed
<1>9. CASE UNCHANGED startupVars
  BY <1>9 DEF StartupInv, startupVars
<1> QED BY <1>1, <1>2, <1>3, <1>4, <1>5, <1>6, <1>7, <1>8, <1>9, AttachKprobeInv DEF StartupStep

LEMMA SensorStartup == [SensorNext]_sensorVars => (StartupStep \/ Killed \/ UNCHANGED startupVars)
  BY DEF SensorNext, sensorVars, SensorStep, StartProcess, EndProcess, Submit, StdoutBreaks,
         PressCtrlC, Start, KilledAtStart, SelectCtrlC, SelectSleep, Take, ReadProc, PrintFlow, Panic, DrainEnd

\* A daemon that runs has every kernel probe and, however it was started, no
\* TLS probe.
THEOREM SensorKprobesOnly == SensorSpec => []RunsWithKprobesOnly
<1>1. SensorInit => StartupInv
  BY StartupInitInv DEF SensorInit
<1>2. StartupInv /\ [SensorNext]_sensorVars => StartupInv'
  BY StartupStepInv, SensorStartup
<1>3. StartupInv => RunsWithKprobesOnly
  BY DEF StartupInv, AfterKprobes, RunsWithKprobesOnly
<1> QED BY <1>1, <1>2, <1>3, PTL DEF SensorSpec

-----------------------------------------------------------------------------
(* The loop.                                                               *)

SensorInv ==
  /\ StartupInv
  /\ at \in {"select", "drain", "enrich", "stopped", "panicked"}
  /\ at # "select" => InLoop
  /\ ring \in Seq(Flow) /\ taken \in Seq(Flow) /\ accepted \in Seq(Flow) /\ printed \in Seq(Flow)
  /\ count \in Nat
  /\ UnderWay => ring # <<>> /\ Matches(Head(ring))

LEMMA HeadOfAppend ==
  ASSUME NEW S, NEW s \in Seq(S), NEW e, s # <<>>
  PROVE  Head(Append(s, e)) = Head(s)
  OBVIOUS

LEMMA HeadAndTail ==
  ASSUME NEW S, NEW s \in Seq(S), NEW t \in Seq(S), s # <<>>
  PROVE  /\ Head(s) = s[1] /\ Head(s) \in S /\ 1 \in DOMAIN s
         /\ Tail(s) \in Seq(S)
         /\ \A i \in DOMAIN Tail(s) : i + 1 \in DOMAIN s /\ Tail(s)[i] = s[i + 1]
         /\ Append(t, Head(s)) \in Seq(S) /\ Len(Append(t, Head(s))) = Len(t) + 1
         /\ Append(t, Head(s)) \o Tail(s) = t \o s
  <1>1. Head(s) = s[1] /\ Head(s) \in S /\ 1 \in DOMAIN s /\ Tail(s) \in Seq(S)
    OBVIOUS
  <1>2. \A i \in DOMAIN Tail(s) : i + 1 \in DOMAIN s /\ Tail(s)[i] = s[i + 1]
    OBVIOUS
  <1>3. /\ Append(t, Head(s)) \in Seq(S) /\ Append(t, Head(s)) = t \o <<Head(s)>>
        /\ Len(Append(t, Head(s))) = Len(t) + 1
    BY <1>1
  <1>4. s = <<Head(s)>> \o Tail(s)
    BY HeadTailProperties
  <1>5. (t \o <<Head(s)>>) \o Tail(s) = t \o (<<Head(s)>> \o Tail(s))
    BY <1>1, ConcatAssociative
  <1> QED BY <1>1, <1>2, <1>3, <1>4, <1>5

\* What start-up does, it does before the loop.
LEMMA StartupBeforeLoop ==
  ASSUME StartupStep \/ Killed
  PROVE  stage \in Starting
  BY DEF StartupStep, Killed, CheckRoot, LoadObject, AttachKprobe, CheckTlsObject, LoadTlsProgram,
         AttachTlsToPid, AttachTlsSystemWide, TlsPidsEnd, StartLoop, Starting

LEMMA SensorInitInv == SensorInit => SensorInv
  BY StartupInitInv DEF SensorInit, SensorInv, UnderWay

LEMMA SensorStepInv == SensorInv /\ [SensorNext]_sensorVars => SensorInv'
<1> SUFFICES ASSUME SensorInv, [SensorNext]_sensorVars PROVE SensorInv'
  OBVIOUS
<1> USE DEF SensorInv, InLoop, UnderWay
<1>0. StartupInv'
  BY StartupStepInv, SensorStartup
<1>1. ASSUME NEW p \in Process, StartProcess(p) \/ EndProcess(p)
      PROVE  SensorInv'
  BY <1>0, <1>1 DEF StartProcess, EndProcess, startupVars, loopOnly, Matches
<1>2. ASSUME NEW e \in Flow, Submit(e)
      PROVE  SensorInv'
  <2>1. ring' = Append(ring, e) /\ accepted' = Append(accepted, e)
        /\ UNCHANGED <<startupVars, at, count, printed, reads, taken, signalled, presses>>
    BY <1>2 DEF Submit, itemVars, userVars
  <2>2. ring # <<>> => Head(ring') = Head(ring) /\ ring' # <<>>
    BY <2>1, HeadOfAppend
  <2> QED BY <1>0, <2>1, <2>2 DEF startupVars, Matches
<1>3. CASE PressCtrlC
  BY <1>0, <1>3 DEF PressCtrlC, startupVars, itemVars, Matches
<1>4. CASE Start \/ KilledAtStart
  <2>1. UNCHANGED loopOnly /\ stage \in Starting
    BY <1>4, StartupBeforeLoop DEF Start, KilledAtStart
  <2>2. at = "select"
    BY <2>1 DEF Starting
  <2> QED BY <1>0, <2>1, <2>2 DEF loopOnly
<1>5. CASE SelectCtrlC \/ SelectSleep \/ DrainEnd
  BY <1>0, <1>5 DEF SelectCtrlC, SelectSleep, DrainEnd, startupVars, itemVars, userVars
<1>6. CASE Take
  <2>1. CASE Matches(Head(ring))
    BY <1>0, <1>6, <2>1 DEF Take, startupVars, userVars, Matches
  <2>2. CASE ~ Matches(Head(ring))
    <3>1. Tail(ring) \in Seq(Flow) /\ Append(taken, Head(ring)) \in Seq(Flow)
      BY <1>6, HeadAndTail DEF Take
    <3>2. /\ count' = count + 1 /\ at' = "drain" /\ at = "drain"
          /\ ring' = Tail(ring) /\ taken' = Append(taken, Head(ring))
          /\ UNCHANGED <<stage, printed, accepted>>
      BY <1>6, <2>2 DEF Take, Release, startupVars
    <3> QED BY <1>0, <3>1, <3>2
  <2> QED BY <2>1, <2>2
<1>7. CASE ReadProc
  BY <1>0, <1>7 DEF ReadProc, startupVars, userVars, Matches
<1>8. CASE PrintFlow
  <2>1. /\ Tail(ring) \in Seq(Flow) /\ Append(taken, Head(ring)) \in Seq(Flow)
        /\ Append(printed, Head(ring)) \in Seq(Flow)
    BY <1>8, HeadAndTail DEF PrintFlow
  <2> QED BY <1>0, <1>8, <2>1 DEF PrintFlow, Release, startupVars, userVars
<1>9. CASE Panic
  BY <1>0, <1>9 DEF Panic, startupVars, itemVars, userVars, Matches
<1>10. CASE UNCHANGED sensorVars
  BY <1>0, <1>10 DEF sensorVars, startupVars, loopOnly, Matches
<1>11. CASE StdoutBreaks
  BY <1>0, <1>11 DEF StdoutBreaks, startupVars, loopOnly, Matches
<1> QED BY <1>1, <1>2, <1>3, <1>4, <1>5, <1>6, <1>7, <1>8, <1>9, <1>10, <1>11
        DEF SensorNext, SensorStep

\* What is taken out and what is still in the ring is what was accepted, in
\* that order, and the loop has counted what it took.
TakenInOrder ==
  /\ taken \o ring = accepted
  /\ count = Len(taken) + (IF UnderWay THEN 1 ELSE 0)

LEMMA TakenInOrderStep == SensorInv /\ TakenInOrder /\ [SensorNext]_sensorVars => TakenInOrder'
<1> SUFFICES ASSUME SensorInv, TakenInOrder, [SensorNext]_sensorVars PROVE TakenInOrder'
  OBVIOUS
<1> USE DEF TakenInOrder, UnderWay
<1>0. /\ ring \in Seq(Flow) /\ taken \in Seq(Flow) /\ count \in Nat
      /\ at # "select" => InLoop
  BY DEF SensorInv
<1>1. ASSUME NEW e \in Flow, Submit(e)
      PROVE  TakenInOrder'
  <2>1. ring' = Append(ring, e) /\ accepted' = Append(accepted, e) /\ UNCHANGED <<at, count, taken>>
    BY <1>1 DEF Submit, itemVars
  <2>2. taken \o Append(ring, e) = Append(taken \o ring, e)
    BY <1>0
  <2> QED BY <2>1, <2>2
<1>2. CASE Take
  <2>1. CASE Matches(Head(ring))
    BY <1>0, <1>2, <2>1 DEF Take
  <2>2. CASE ~ Matches(Head(ring))
    <3>1. /\ ring # <<>> /\ count' = count + 1 /\ at' = "drain" /\ at = "drain"
          /\ ring' = Tail(ring) /\ taken' = Append(taken, Head(ring)) /\ UNCHANGED accepted
      BY <1>2, <2>2 DEF Take, Release
    <3>2. /\ Append(taken, Head(ring)) \o Tail(ring) = taken \o ring
          /\ Len(Append(taken, Head(ring))) = Len(taken) + 1
      BY <1>0, <3>1, HeadAndTail
    <3>3. ~ UnderWay /\ ~ UnderWay'
      BY <3>1
    <3> HIDE DEF UnderWay
    <3> QED BY <1>0, <3>1, <3>2, <3>3
  <2> QED BY <2>1, <2>2
<1>3. CASE PrintFlow
  <2>1. ring # <<>>
    BY <1>3 DEF SensorInv, PrintFlow
  <2>2. /\ count' = count /\ at' = "drain" /\ at = "enrich"
        /\ ring' = Tail(ring) /\ taken' = Append(taken, Head(ring)) /\ UNCHANGED accepted
    BY <1>3 DEF PrintFlow, Release
  <2>3. /\ Append(taken, Head(ring)) \o Tail(ring) = taken \o ring
        /\ Len(Append(taken, Head(ring))) = Len(taken) + 1
    BY <1>0, <2>1, HeadAndTail
  <2>4. UnderWay /\ ~ UnderWay'
    BY <2>2
  <2> HIDE DEF UnderWay
  <2>5. count = Len(taken) + 1
    BY <2>4
  <2>6. count' = Len(taken') /\ taken' \o ring' = accepted'
    BY <2>2, <2>3, <2>5
  <2>7. Len(taken') \in Nat
    BY <1>0, <2>3, <2>2
  <2> QED BY <2>4, <2>6, <2>7
<1>4. ASSUME UNCHANGED <<ring, accepted, taken, count>>,
             at' = at \/ (~ UnderWay /\ at' \in {"select", "drain", "stopped"})
                     \/ (at = "enrich" /\ at' = "panicked")
      PROVE  TakenInOrder'
  BY <1>4
<1>5. ASSUME NEW p \in Process, StartProcess(p) \/ EndProcess(p)
      PROVE  TakenInOrder'
  BY <1>4, <1>5 DEF StartProcess, EndProcess, loopOnly
<1>6. CASE PressCtrlC \/ Start \/ KilledAtStart \/ SelectCtrlC \/ SelectSleep \/ ReadProc \/ Panic
           \/ DrainEnd \/ StdoutBreaks \/ UNCHANGED sensorVars
  BY <1>4, <1>6 DEF PressCtrlC, Start, KilledAtStart, SelectCtrlC, SelectSleep, ReadProc, Panic,
     DrainEnd, StdoutBreaks, sensorVars, loopOnly, itemVars
<1> QED BY <1>1, <1>2, <1>3, <1>5, <1>6 DEF SensorNext, SensorStep

LEMMA SensorInvariant == SensorSpec => []SensorInv
  BY SensorInitInv, SensorStepInv, PTL DEF SensorSpec

\* No event is lost, taken twice or out of its order between the ring and the
\* filter (loader.rs:112-127).
THEOREM SensorTakesInOrder == SensorSpec => []TakenInOrder
<1>1. SensorInit => TakenInOrder
  BY DEF SensorInit, TakenInOrder, UnderWay
<1> QED BY <1>1, TakenInOrderStep, SensorInvariant, PTL DEF SensorSpec

-----------------------------------------------------------------------------
(* What is printed.                                                        *)

\* A whole number of milliseconds is as long as the minimum just when it is not
\* below it: the division rounds down.
LEMMA WholeMilliseconds ==
  ASSUME NEW d \in Nat, NEW m \in Nat, NEW n \in Nat \ {0}
  PROVE  d \div n >= m <=> ~ (d < m * n)
<1> DEFINE q == d \div n
           r == d % n
<1>1. q \in Nat /\ r \in 0..(n - 1) /\ d = q * n + r
  OBVIOUS
<1> HIDE DEF q, r
<1>2. CASE q >= m
  <2>1. PICK k \in Nat : q = m + k
    BY <1>1, <1>2, q - m \in Nat, q = m + (q - m)
  <2>2. k * n \in Nat /\ m * n \in Nat
    OBVIOUS
  <2>3. q * n = m * n + k * n
    BY <2>1
  <2>4. ~ (d < m * n)
    BY <1>1, <2>2, <2>3
  <2> QED BY <1>2, <2>4 DEF q
<1>3. CASE ~ (q >= m)
  <2>1. PICK k \in Nat : m = q + 1 + k
    BY <1>1, <1>3, m - q - 1 \in Nat, m = q + 1 + (m - q - 1)
  <2>2. k * n \in Nat /\ q * n \in Nat
    BY <1>1
  <2>3. m * n = q * n + n + k * n
    BY <1>1, <2>1
  <2>4. d < m * n
    BY <1>1, <2>2, <2>3
  <2> QED BY <1>3, <2>4 DEF q
<1> QED BY <1>2, <1>3

\* The remainder is zero for multiples only.
LEMMA Sampled ==
  ASSUME NEW c \in Nat, NEW n \in Nat, n > 1
  PROVE  c % n = 0 <=> \E q \in 0..c : c = q * n
<1> DEFINE q0 == c \div n
           r0 == c % n
<1>1. q0 \in Nat /\ r0 \in 0..(n - 1) /\ c = q0 * n + r0
  OBVIOUS
<1> HIDE DEF q0, r0
<1>2. CASE r0 = 0
  <2>1. c = q0 * n
    BY <1>1, <1>2
  <2>2. PICK k \in Nat : n = 1 + k
    BY n - 1 \in Nat, n = 1 + (n - 1)
  <2>3. q0 * n = q0 + q0 * k /\ q0 * k \in Nat
    BY <1>1, <2>2
  <2>4. q0 \in 0..c
    BY <1>1, <2>1, <2>3
  <2> QED BY <1>2, <2>1, <2>4 DEF r0
<1>3. ASSUME NEW q \in 0..c, c = q * n
      PROVE  r0 = 0
  BY <1>3 DEF r0
<1> QED BY <1>2, <1>3 DEF r0

\* The filter lets through what the command line asks for.
LEMMA MatchesAsked ==
  ASSUME NEW e \in Flow
  PROVE  Matches(e) <=> Asked(e)
<1>1. /\ e.duration_ns \in Nat /\ e.chain_id \in Nat
      /\ MinDurationMs \in Nat /\ SampleRate \in Nat /\ NsPerMs \in Nat \ {0}
  BY FilterAssumption
<1>2. e.duration_ns \div NsPerMs >= MinDurationMs <=> ~ (e.duration_ns < MinDurationMs * NsPerMs)
  BY <1>1, WholeMilliseconds
<1>3. SampleRate > 1 =>
        (e.chain_id % SampleRate = 0 <=> \E q \in 0..e.chain_id : e.chain_id = q * SampleRate)
  BY <1>1, Sampled
<1>4. {e.src_port, e.dst_port} \cap Ports = {} <=> ~ (e.src_port \in Ports \/ e.dst_port \in Ports)
  OBVIOUS
<1> DEFINE rounded == e.duration_ns \div NsPerMs >= MinDurationMs
           least == e.duration_ns < MinDurationMs * NsPerMs
           rest == e.chain_id % SampleRate = 0
           multiple == \E q \in 0..e.chain_id : e.chain_id = q * SampleRate
<1>5. Matches(e) <=> /\ MinDurationMs > 0 => rounded
                     /\ Ports # {} => e.src_port \in Ports \/ e.dst_port \in Ports
                     /\ RetransmitsOnly => e.retransmit_count # 0
                     /\ SampleRate > 1 => rest
  BY DEF Matches
<1>6. Asked(e) <=> /\ MinDurationMs > 0 => ~ least
                   /\ Ports # {} => {e.src_port, e.dst_port} \cap Ports # {}
                   /\ RetransmitsOnly => e.retransmit_count # 0
                   /\ SampleRate > 1 => multiple
  BY DEF Asked
<1>7. (rounded <=> ~ least) /\ (SampleRate > 1 => (rest <=> multiple))
  BY <1>2, <1>3
<1> HIDE DEF rounded, least, rest, multiple
<1> QED BY <1>4, <1>5, <1>6, <1>7

\* Filtering one event more.
LEMMA FilterOneMore ==
  ASSUME NEW p \in Seq(Flow), NEW t \in Seq(Flow), NEW e \in Flow, IsFiltered(p, t)
  PROVE  /\ Asked(e) => IsFiltered(Append(p, e), Append(t, e))
         /\ ~ Asked(e) => IsFiltered(p, Append(t, e))
<1> DEFINE n == Len(t)
           more == Append(t, e)
<1>1. n \in Nat /\ Len(more) = n + 1 /\ more[n + 1] = e /\ \A i \in 1..n : more[i] = t[i]
  OBVIOUS
<1>2. ASSUME NEW i \in 0..n
      PROVE  /\ AskedUpTo(more, i) = AskedUpTo(t, i) /\ IsFiniteSet(AskedUpTo(t, i))
             /\ Cardinality(AskedUpTo(t, i)) \in Nat
             /\ Cardinality(AskedUpTo(t, i)) <= Cardinality(AskedUpTo(t, n))
  <2>1. AskedUpTo(more, i) = AskedUpTo(t, i)
    BY <1>1 DEF AskedUpTo
  <2>2. AskedUpTo(t, n) \subseteq 1..n /\ AskedUpTo(t, i) \subseteq AskedUpTo(t, n)
    BY <1>1 DEF AskedUpTo
  <2>3. IsFiniteSet(1..n)
    BY <1>1, FS_Interval
  <2>4. IsFiniteSet(AskedUpTo(t, n))
    BY <2>2, <2>3, FS_Subset
  <2> QED BY <2>1, <2>2, <2>4, FS_Subset, FS_CardinalityType
<1>3. AskedUpTo(more, n + 1) = IF Asked(e) THEN AskedUpTo(t, n) \cup {n + 1} ELSE AskedUpTo(t, n)
  <2>1. \A i : i \in 1..(n + 1) <=> i \in 1..n \/ i = n + 1
    BY <1>1
  <2> HIDE DEF n, more
  <2> QED BY <1>1, <2>1 DEF AskedUpTo
<1>4. n + 1 \notin AskedUpTo(t, n)
  BY <1>1 DEF AskedUpTo
<1>5. n \in 0..n
  BY <1>1
<1>6. Len(p) = Cardinality(AskedUpTo(t, n)) /\ \A i \in AskedUpTo(t, n) : p[Cardinality(AskedUpTo(t, i))] = t[i]
  BY DEF IsFiltered
<1>7. \A i \in AskedUpTo(t, n) : i \in 1..n /\ i \in AskedUpTo(t, i)
  BY <1>1 DEF AskedUpTo
<1> HIDE DEF n, more
<1>8. \A i \in AskedUpTo(t, n) : Cardinality(AskedUpTo(t, i)) \in 1..Len(p)
  <2> TAKE i \in AskedUpTo(t, n)
  <2>1. i \in 0..n /\ AskedUpTo(t, i) # {}
    BY <1>1, <1>7
  <2>2. Cardinality(AskedUpTo(t, i)) # 0
    BY <1>2, <2>1, FS_EmptySet
  <2> QED BY <1>2, <1>6, <2>1, <2>2
<1>9. \A i \in AskedUpTo(t, n) : more[i] = t[i] /\ AskedUpTo(more, i) = AskedUpTo(t, i)
  BY <1>1, <1>2, <1>7
<1>10. CASE Asked(e)
  <2>1. Cardinality(AskedUpTo(more, n + 1)) = Cardinality(AskedUpTo(t, n)) + 1
    <3>1. IsFiniteSet(AskedUpTo(t, n))
      BY <1>2, <1>5
    <3>2. Cardinality(AskedUpTo(t, n) \cup {n + 1}) = Cardinality(AskedUpTo(t, n)) + 1
      BY <1>4, <3>1, FS_AddElement
    <3> QED BY <1>3, <1>10, <3>2
  <2>2. /\ Len(Append(p, e)) = Len(p) + 1 /\ Append(p, e)[Len(p) + 1] = e
        /\ \A k \in 1..Len(p) : Append(p, e)[k] = p[k]
    OBVIOUS
  <2>3. Len(Append(p, e)) = Cardinality(AskedUpTo(more, n + 1))
    BY <1>6, <2>1, <2>2
  <2>4. ASSUME NEW i \in AskedUpTo(more, n + 1)
        PROVE  Append(p, e)[Cardinality(AskedUpTo(more, i))] = more[i]
    <3>1. CASE i \in AskedUpTo(t, n)
      BY <1>6, <1>8, <1>9, <2>2, <3>1
    <3>2. CASE i = n + 1
      BY <1>1, <1>6, <2>1, <2>2, <3>2
    <3> QED BY <1>3, <1>10, <3>1, <3>2
  <2>5. IsFiltered(Append(p, e), more)
    BY <1>1, <2>3, <2>4 DEF IsFiltered
  <2> QED BY <1>10, <2>5 DEF more
<1>11. CASE ~ Asked(e)
  <2>1. IsFiltered(p, more)
    BY <1>1, <1>3, <1>6, <1>9, <1>11 DEF IsFiltered
  <2> QED BY <1>11, <2>1 DEF more
<1> QED BY <1>10, <1>11

LEMMA PrintedStep ==
  SensorInv /\ IsFiltered(printed, taken) /\ [SensorNext]_sensorVars => IsFiltered(printed, taken)'
<1> SUFFICES ASSUME SensorInv, IsFiltered(printed, taken), [SensorNext]_sensorVars
             PROVE  IsFiltered(printed', taken')
  OBVIOUS
<1>1. /\ ring \in Seq(Flow) /\ taken \in Seq(Flow) /\ printed \in Seq(Flow)
      /\ UnderWay => ring # <<>> /\ Matches(Head(ring))
  BY DEF SensorInv
<1>2. ring # <<>> => Head(ring) \in Flow /\ (Matches(Head(ring)) <=> Asked(Head(ring)))
  BY <1>1, HeadAndTail, MatchesAsked
<1>3. ASSUME UNCHANGED <<printed, taken>>
      PROVE  IsFiltered(printed', taken')
  BY <1>3
<1>4. CASE Take
  <2>1. CASE Matches(Head(ring))
    BY <1>3, <1>4, <2>1 DEF Take
  <2>2. CASE ~ Matches(Head(ring))
    <3>1. ring # <<>> /\ printed' = printed /\ taken' = Append(taken, Head(ring))
      BY <1>4, <2>2 DEF Take, Release
    <3> QED BY <1>1, <1>2, <2>2, <3>1, FilterOneMore
  <2> QED BY <2>1, <2>2
<1>5. CASE PrintFlow
  <2>1. printed' = Append(printed, Head(ring)) /\ taken' = Append(taken, Head(ring))
    BY <1>5 DEF PrintFlow, Release
  <2>2. ring # <<>> /\ Matches(Head(ring))
    BY <1>1, <1>5 DEF PrintFlow, UnderWay
  <2> QED BY <1>1, <1>2, <2>1, <2>2, FilterOneMore
<1>6. ASSUME NEW p \in Process, StartProcess(p) \/ EndProcess(p)
      PROVE  IsFiltered(printed', taken')
  BY <1>3, <1>6 DEF StartProcess, EndProcess, loopOnly
<1>7. ASSUME NEW e \in Flow, Submit(e)
      PROVE  IsFiltered(printed', taken')
  BY <1>3, <1>7 DEF Submit, itemVars
<1>8. CASE PressCtrlC \/ Start \/ KilledAtStart \/ SelectCtrlC \/ SelectSleep \/ ReadProc \/ Panic
           \/ DrainEnd \/ StdoutBreaks \/ UNCHANGED sensorVars
  BY <1>3, <1>8 DEF PressCtrlC, Start, KilledAtStart, SelectCtrlC, SelectSleep, ReadProc, Panic,
     DrainEnd, StdoutBreaks, sensorVars, loopOnly, itemVars
<1> QED BY <1>4, <1>5, <1>6, <1>7, <1>8 DEF SensorNext, SensorStep

\* Loop has a copy of each operator of EventFilter.
LEMMA LoopFilter == IsFiltered(printed, taken) => Loop!IsFiltered(printed, taken)
<1>1. \A e : Loop!Asked(e) = Asked(e)
  BY DEF Asked, Loop!Asked
<1>2. \A t, n : Loop!AskedUpTo(t, n) = AskedUpTo(t, n)
  BY <1>1 DEF AskedUpTo, Loop!AskedUpTo
<1>3. \A S : Loop!Cardinality(S) = Cardinality(S)
  BY DEF Cardinality, Loop!Cardinality
<1> QED BY <1>2, <1>3 DEF IsFiltered, Loop!IsFiltered

\* What is printed is what the ring accepted, in order and once each, less what
\* the filters of the command line reject, except for what is still in the ring
\* (loader.rs:112-127, main.rs:126-151).
THEOREM SensorPrintsFiltered == SensorSpec => []PrintedIsFiltered
<1>1. SensorInit => IsFiltered(printed, taken)
  <2> SUFFICES ASSUME SensorInit PROVE IsFiltered(<<>>, <<>>)
    BY DEF SensorInit
  <2>1. AskedUpTo(<<>>, 0) = {} /\ Len(<<>>) = 0
    BY DEF AskedUpTo
  <2> QED BY <2>1, FS_EmptySet DEF IsFiltered
<1>2. SensorInv /\ TakenInOrder /\ IsFiltered(printed, taken) => PrintedIsFiltered
  <2> SUFFICES ASSUME SensorInv, TakenInOrder, IsFiltered(printed, taken)
               PROVE  Loop!PrintedIsFiltered
    BY DEF PrintedIsFiltered
  <2>1. Len(taken) \in Nat
    BY DEF SensorInv
  <2>2. (IF UnderWay THEN count - 1 ELSE count) = Len(taken)
    BY <2>1 DEF TakenInOrder
  <2> QED BY <2>2, LoopFilter DEF TakenInOrder, Loop!PrintedIsFiltered
<1> QED BY <1>1, <1>2, PrintedStep, SensorInvariant, SensorTakesInOrder, PTL DEF SensorSpec

-----------------------------------------------------------------------------
(* The processes.                                                          *)

\* A pid is one process's at a time, and whoever made the events has run.
HostInv ==
  /\ running \subseteq Process
  /\ running \cap ended = {}
  /\ \A p, q \in running : PidOf[p] = PidOf[q] => p = q
  /\ \A i \in DOMAIN ring : ring[i].owner \in running \cup ended
  /\ reads \in Seq(Process \cup {Gone})
  /\ ProcessDataIsOwn

LEMMA ProcOfPid ==
  ASSUME HostInv, NEW p \in Process
  PROVE  /\ ProcOf(PidOf[p]) \in running \cup {Gone}
         /\ p \in running => ProcOf(PidOf[p]) = p
  BY DEF HostInv, ProcOf

LEMMA HostStepInv == SensorInv /\ HostInv /\ [SensorNext]_sensorVars => HostInv'
<1> SUFFICES ASSUME SensorInv, HostInv, [SensorNext]_sensorVars PROVE HostInv'
  OBVIOUS
<1> DEFINE own == Head(ring).owner
<1>0. /\ ring \in Seq(Flow)
      /\ at = "enrich" => ring # <<>> /\ Head(ring) = ring[1] /\ own \in running \cup ended
                         /\ own \in Process /\ own # Gone /\ Head(ring).pid = PidOf[own]
  <2>1. ring \in Seq(Flow) /\ (at = "enrich" => ring # <<>>)
    BY DEF SensorInv, UnderWay
  <2>2. ASSUME ring # <<>>
        PROVE  Head(ring) = ring[1] /\ Head(ring) \in Flow /\ 1 \in DOMAIN ring
    BY <2>1, <2>2
  <2> QED BY <2>1, <2>2, SensorAssumption DEF HostInv
<1>1. ASSUME NEW p \in Process, StartProcess(p)
      PROVE  HostInv'
  <2>1. /\ p \notin running \cup ended /\ \A q \in running : PidOf[q] # PidOf[p]
        /\ running' = running \cup {p} /\ UNCHANGED <<at, ring, reads, ended>>
    BY <1>1 DEF StartProcess, loopOnly
  <2>2. at = "enrich" => p # own
    BY <1>0, <2>1
  <2> QED BY <1>0, <2>1, <2>2 DEF HostInv, ProcessDataIsOwn
<1>2. ASSUME NEW p \in Process, EndProcess(p)
      PROVE  HostInv'
  <2>1. running' = running \ {p} /\ ended' = ended \cup {p} /\ p \in running
        /\ UNCHANGED <<at, ring, reads>>
    BY <1>2 DEF EndProcess, loopOnly
  <2> QED BY <2>1 DEF HostInv, ProcessDataIsOwn
<1>3. ASSUME NEW e \in Flow, Submit(e)
      PROVE  HostInv'
  <2>1. /\ e.owner \in running \cup ended /\ ring' = Append(ring, e)
        /\ UNCHANGED <<at, reads, running, ended>>
    BY <1>3 DEF Submit, itemVars, hostVars
  <2>2. \A i \in DOMAIN ring' : ring'[i].owner \in running \cup ended
    <3> TAKE i \in DOMAIN ring'
    <3>1. CASE i \in DOMAIN ring
      BY <1>0, <2>1, <3>1 DEF HostInv
    <3>2. CASE i = Len(ring) + 1
      BY <1>0, <2>1, <3>2
    <3> QED BY <1>0, <2>1, <3>1, <3>2
  <2>3. at = "enrich" => Head(ring') = Head(ring)
    BY <1>0, <2>1, HeadOfAppend
  <2> QED BY <2>1, <2>2, <2>3 DEF HostInv, ProcessDataIsOwn
<1>4. CASE Take
  <2>1. CASE Matches(Head(ring))
    <3>1. reads' = <<>> /\ UNCHANGED <<ring, running, ended>>
      BY <1>4, <2>1 DEF Take, hostVars
    <3> QED BY <3>1 DEF HostInv, ProcessDataIsOwn
  <2>2. CASE ~ Matches(Head(ring))
    <3>1. ring # <<>> /\ ring' = Tail(ring) /\ at' = "drain" /\ UNCHANGED <<reads, running, ended>>
      BY <1>4, <2>2 DEF Take, Release, hostVars
    <3> QED BY <1>0, <3>1, HeadAndTail DEF HostInv, ProcessDataIsOwn
  <2> QED BY <2>1, <2>2
<1>5. CASE ReadProc
  <2>1. /\ at = "enrich" /\ reads' = Append(reads, ProcOf(PidOf[own]))
        /\ UNCHANGED <<at, ring, running, ended>>
    BY <1>0, <1>5 DEF ReadProc, hostVars
  <2>2. /\ ProcOf(PidOf[own]) \in running \cup {Gone}
        /\ own \in running => ProcOf(PidOf[own]) = own
    BY <1>0, <2>1, ProcOfPid
  <2>3. /\ DOMAIN reads' = 1..(Len(reads) + 1) /\ DOMAIN reads = 1..Len(reads) /\ Len(reads) \in Nat
        /\ \A i \in DOMAIN reads : reads'[i] = reads[i]
        /\ reads'[Len(reads) + 1] = ProcOf(PidOf[own])
        /\ reads' \in Seq(Process \cup {Gone})
    BY <2>1, <2>2 DEF HostInv
  <2>4. own \in running => \A i \in DOMAIN reads' : reads'[i] = own
    BY <2>1, <2>2, <2>3 DEF HostInv, ProcessDataIsOwn
  <2>5. \A i \in DOMAIN reads' : \A j \in 1..i : reads'[i] = own => reads'[j] = own
    <3> TAKE i \in DOMAIN reads'
    <3> TAKE j \in 1..i
    <3>1. CASE i \in DOMAIN reads
      BY <2>1, <2>3, <3>1 DEF HostInv, ProcessDataIsOwn
    <3>2. CASE i = Len(reads) + 1
      <4>1. reads'[i] = own => own \in running
        BY <1>0, <2>1, <2>2, <2>3, <3>2
      <4> QED BY <2>3, <2>4, <3>2, <4>1
    <3> QED BY <2>3, <3>1, <3>2
  <2> QED BY <2>1, <2>3, <2>4, <2>5 DEF HostInv, ProcessDataIsOwn
<1>6. CASE PrintFlow
  <2>1. ring # <<>> /\ ring' = Tail(ring) /\ at' = "drain" /\ UNCHANGED <<reads, running, ended>>
    BY <1>0, <1>6 DEF PrintFlow, Release, hostVars
  <2> QED BY <1>0, <2>1, HeadAndTail DEF HostInv, ProcessDataIsOwn
<1>7. ASSUME UNCHANGED <<ring, reads, running, ended>>, at' = at \/ at' # "enrich"
      PROVE  HostInv'
  BY <1>7 DEF HostInv, ProcessDataIsOwn
<1>8. CASE PressCtrlC \/ Start \/ KilledAtStart \/ SelectCtrlC \/ SelectSleep \/ Panic \/ DrainEnd
           \/ StdoutBreaks \/ UNCHANGED sensorVars
  BY <1>7, <1>8 DEF PressCtrlC, Start, KilledAtStart, SelectCtrlC, SelectSleep, Panic, DrainEnd,
     StdoutBreaks, sensorVars, loopOnly, hostVars, itemVars
<1> QED BY <1>1, <1>2, <1>3, <1>4, <1>5, <1>6, <1>8 DEF SensorNext, SensorStep

\* The data of another process is never taken for that of one that still runs
\* (enricher.rs:38-41).
THEOREM SensorProcessData == SensorSpec => []ProcessDataIsOwn
<1>1. SensorInit => HostInv
  BY DEF SensorInit, HostInv, ProcessDataIsOwn
<1>2. HostInv => ProcessDataIsOwn
  BY DEF HostInv
<1> QED BY <1>1, <1>2, HostStepInv, SensorInvariant, PTL DEF SensorSpec

-----------------------------------------------------------------------------
(* The types.                                                              *)

Programs == {ATTACH[i][1] : i \in DOMAIN ATTACH}
            \cup {TLS_EBPF_PROGRAMS[i] : i \in DOMAIN TLS_EBPF_PROGRAMS}

\* What the types say beyond SensorInv and HostInv.
LimitInv ==
  /\ loaded \subseteq Programs
  /\ Len(ring) <= RingCap
  /\ signalled \in BOOLEAN
  /\ presses \in 0..MaxPresses
  /\ Len(reads) <= 4
  /\ ended \subseteq Process
  /\ broken \in BOOLEAN

\* Whatever start-up loads is a program of one of its two tables.
LEMMA LoadedPrograms ==
  ASSUME StartupInv, loaded \subseteq Programs, StartupStep \/ Killed \/ UNCHANGED startupVars
  PROVE  loaded' \subseteq Programs
<1>1. CASE AttachKprobe
  BY <1>1 DEF AttachKprobe, StartupInv, Programs, Fail
<1>2. CASE LoadTlsProgram
  BY <1>2 DEF LoadTlsProgram, StartupInv, Programs, Fail
<1>3. CASE AttachTlsToPid \/ AttachTlsSystemWide
  BY <1>3 DEF AttachTlsToPid, AttachTlsSystemWide, AttachTo, Programs, Fail
<1>4. CASE CheckRoot \/ LoadObject \/ CheckTlsObject \/ TlsPidsEnd \/ StartLoop \/ Killed
           \/ UNCHANGED startupVars
  BY <1>4 DEF CheckRoot, LoadObject, CheckTlsObject, TlsPidsEnd, StartLoop, Killed, Fail, startupVars
<1> QED BY <1>1, <1>2, <1>3, <1>4 DEF StartupStep

LEMMA LimitStepInv == SensorInv /\ HostInv /\ LimitInv /\ [SensorNext]_sensorVars => LimitInv'
<1> SUFFICES ASSUME SensorInv, HostInv, LimitInv, [SensorNext]_sensorVars PROVE LimitInv'
  OBVIOUS
<1> USE DEF LimitInv
<1>0. /\ ring \in Seq(Flow) /\ reads \in Seq(Process \cup {Gone}) /\ running \subseteq Process
      /\ RingCap \in Nat /\ MaxPresses \in Nat
  BY SensorAssumption DEF SensorInv, HostInv
<1>1. loaded' \subseteq Programs
  BY LoadedPrograms, SensorStartup DEF SensorInv
<1>2. Len(ring') <= RingCap
  <2>1. ASSUME NEW e \in Flow, Submit(e)
        PROVE  Len(ring') <= RingCap
    BY <1>0, <2>1 DEF Submit
  <2>2. ASSUME ring # <<>>, ring' = Tail(ring)
        PROVE  Len(ring') <= RingCap
    BY <1>0, <2>2
  <2>3. CASE Take \/ PrintFlow
    BY <2>2, <2>3 DEF Take, PrintFlow, Release, SensorInv, UnderWay
  <2>4. ASSUME NEW p \in Process, StartProcess(p) \/ EndProcess(p)
        PROVE  ring' = ring
    BY <2>4 DEF StartProcess, EndProcess, loopOnly
  <2>5. CASE PressCtrlC \/ Start \/ KilledAtStart \/ SelectCtrlC \/ SelectSleep \/ ReadProc \/ Panic
             \/ DrainEnd \/ StdoutBreaks \/ UNCHANGED sensorVars
    BY <2>5 DEF StdoutBreaks, PressCtrlC, Start, KilledAtStart, SelectCtrlC, SelectSleep, ReadProc, Panic,
       DrainEnd, sensorVars, loopOnly
  <2> QED BY <2>1, <2>3, <2>4, <2>5 DEF SensorNext, SensorStep
<1>3. signalled' \in BOOLEAN /\ presses' \in 0..MaxPresses
  <2>1. CASE PressCtrlC
    BY <1>0, <2>1 DEF PressCtrlC
  <2>2. CASE SelectSleep \/ DrainEnd
    BY <2>2 DEF SelectSleep, DrainEnd
  <2>3. CASE UNCHANGED userVars
    BY <2>3 DEF userVars
  <2>4. (\E p \in Process : StartProcess(p) \/ EndProcess(p)) => UNCHANGED userVars
    BY DEF StartProcess, EndProcess, loopOnly, userVars
  <2>5. Start \/ KilledAtStart \/ StdoutBreaks \/ UNCHANGED sensorVars => UNCHANGED userVars
    BY DEF StdoutBreaks, Start, KilledAtStart, sensorVars, loopOnly, userVars
  <2>6. (\E e \in Flow : Submit(e)) \/ SelectCtrlC \/ Take \/ ReadProc \/ PrintFlow \/ Panic
          => UNCHANGED userVars
    BY DEF Submit, SelectCtrlC, Take, ReadProc, PrintFlow, Panic
  <2> QED BY <2>1, <2>2, <2>3, <2>4, <2>5, <2>6 DEF SensorNext, SensorStep
<1>4. Len(reads') <= 4
  <2>1. CASE Take
    BY <1>0, <2>1 DEF Take
  <2>2. CASE ReadProc
    <3>1. Len(reads) < 4 /\ reads' = Append(reads, ProcOf(Head(ring).pid))
      BY <2>2 DEF ReadProc
    <3>2. Len(Append(reads, ProcOf(Head(ring).pid))) = Len(reads) + 1 /\ Len(reads) \in Nat
      BY <1>0
    <3> QED BY <3>1, <3>2
  <2>3. CASE UNCHANGED reads
    BY <2>3
  <2>4. (\E p \in Process : StartProcess(p) \/ EndProcess(p)) \/ (\E e \in Flow : Submit(e))
          => UNCHANGED reads
    BY DEF StartProcess, EndProcess, Submit, loopOnly, itemVars
  <2>5. PressCtrlC \/ Start \/ KilledAtStart \/ SelectCtrlC \/ SelectSleep \/ PrintFlow \/ Panic
          \/ DrainEnd \/ StdoutBreaks \/ UNCHANGED sensorVars => UNCHANGED reads
    BY DEF StdoutBreaks, PressCtrlC, Start, KilledAtStart, SelectCtrlC, SelectSleep, PrintFlow, Panic, DrainEnd,
       sensorVars, loopOnly, itemVars
  <2> QED BY <2>1, <2>2, <2>3, <2>4, <2>5 DEF SensorNext, SensorStep
<1>5. ended' \subseteq Process
  <2>1. ASSUME NEW p \in Process, EndProcess(p)
        PROVE  ended' \subseteq Process
    BY <2>1 DEF EndProcess
  <2>2. (\E p \in Process : StartProcess(p)) => ended' = ended
    BY DEF StartProcess
  <2>3. (\E e \in Flow : Submit(e)) \/ StdoutBreaks \/ PressCtrlC \/ SensorStep
          \/ UNCHANGED sensorVars => ended' = ended
    BY DEF Submit, StdoutBreaks, PressCtrlC, SensorStep, Start, KilledAtStart, SelectCtrlC, SelectSleep, Take,
       ReadProc, PrintFlow, Panic, DrainEnd, sensorVars, hostVars
  <2> QED BY <2>1, <2>2, <2>3 DEF SensorNext
<1>6. broken' \in BOOLEAN
  <2>1. (\E p \in Process : StartProcess(p) \/ EndProcess(p)) \/ (\E e \in Flow : Submit(e))
          \/ PressCtrlC \/ SensorStep \/ UNCHANGED sensorVars => broken' = broken
    BY DEF StartProcess, EndProcess, Submit, PressCtrlC, SensorStep, Start, KilledAtStart,
       SelectCtrlC, SelectSleep, Take, ReadProc, PrintFlow, Panic, DrainEnd, sensorVars, hostVars
  <2>2. StdoutBreaks => broken' = TRUE
    BY DEF StdoutBreaks
  <2> QED BY <2>1, <2>2 DEF SensorNext
<1> QED BY <1>1, <1>2, <1>3, <1>4, <1>5, <1>6

\* The types of start-up and loop: the ring keeps to its size, an event is read
\* about four times at most, and the loop turns only after start-up
\* (loader.rs:83-133).
THEOREM SensorTypeCorrect == SensorSpec => []SensorTypeOK
<1>1. SensorInit => HostInv /\ LimitInv
  <2>1. RingCap \in Nat /\ MaxPresses \in Nat
    BY SensorAssumption
  <2>2. SensorInit => HostInv
    BY DEF SensorInit, HostInv, ProcessDataIsOwn
  <2>3. SensorInit => LimitInv
    <3> SUFFICES ASSUME SensorInit PROVE LimitInv
      OBVIOUS
    <3>1. /\ ring = <<>> /\ reads = <<>> /\ signalled = FALSE /\ presses = 0
          /\ loaded = {} /\ ended = {} /\ broken = FALSE
      BY DEF SensorInit, StartupInit
    <3>2. Len(ring) = 0 /\ Len(reads) = 0
      BY <3>1
    <3>3. 0 <= RingCap /\ presses \in 0..MaxPresses
      BY <2>1, <3>1
    <3>4. Len(ring) <= RingCap /\ Len(reads) <= 4
      BY <2>1, <3>2
    <3>5. loaded \subseteq Programs /\ ended \subseteq Process /\ {signalled, broken} \subseteq BOOLEAN
      BY <3>1
    <3> QED BY <3>3, <3>4, <3>5 DEF LimitInv
  <2> QED BY <2>2, <2>3
<1>2. SensorInv /\ HostInv /\ LimitInv => SensorTypeOK
  BY DEF SensorInv, StartupInv, HostInv, LimitInv, Programs, SensorTypeOK, StartupTypeOK
<1> QED BY <1>1, <1>2, HostStepInv, LimitStepInv, SensorInvariant, PTL DEF SensorSpec

-----------------------------------------------------------------------------
(* The refinement.                                                         *)

LEMMA LoopStart == SensorInit => Loop!LoopInit
  BY DEF SensorInit, StartupInit, Loop!LoopInit, LoopPc, UnderWay

LEMMA LoopStep ==
  ASSUME SensorInv, SensorInv', SensorNext
  PROVE  [Loop!LoopNext]_Loop!loopVars
<1> USE DEF LoopPc, UnderWay, InLoop
<1>1. /\ at \in {"select", "drain", "enrich", "stopped", "panicked"}
      /\ at # "select" => stage = "run"
      /\ count \in Nat /\ (at = "enrich" => ring # <<>> /\ Matches(Head(ring)))
      /\ stage \in Starting \cup Ended \cup {"run"}
  BY DEF SensorInv, StartupInv
<1>2. LoopPc \in {"stopped", "crashed"} <=> SensorOver
  BY <1>1 DEF SensorOver, Ended
<1>3. Loop!Over <=> SensorOver
  BY <1>2 DEF Loop!Over
<1>4. ~ SensorOver => (LoopPc = "select" <=> at = "select")
  BY <1>1 DEF SensorOver, Ended
<1>5. ASSUME NEW p \in Process, StartProcess(p) \/ EndProcess(p)
      PROVE  UNCHANGED Loop!loopVars
  BY <1>5 DEF StartProcess, EndProcess, startupVars, loopOnly, Loop!loopVars
<1>17. CASE StdoutBreaks
  BY <1>17 DEF StdoutBreaks, startupVars, loopOnly, Loop!loopVars
<1>6. ASSUME NEW e \in Flow, Submit(e)
      PROVE  Loop!Submit(e)
  BY <1>3, <1>6 DEF Submit, Loop!Submit, startupVars, itemVars, userVars
<1>7. CASE PressCtrlC
  <2>1. ~ Loop!Over /\ (LoopPc = "select" <=> at = "select")
    BY <1>3, <1>4, <1>7 DEF PressCtrlC
  <2>2. /\ presses < MaxPresses /\ presses' = presses + 1
        /\ signalled' = (signalled \/ at = "select")
        /\ UNCHANGED <<stage, at, ring, count, printed, accepted, taken>>
    BY <1>7 DEF PressCtrlC, startupVars, itemVars
  <2>3. signalled' = (signalled \/ LoopPc = "select")
    BY <2>1, <2>2
  <2>4. LoopPc' = LoopPc
    BY <2>2
  <2> HIDE DEF LoopPc
  <2> QED BY <2>1, <2>2, <2>3, <2>4 DEF Loop!PressCtrlC, Loop!LoopNext
<1>8. CASE Start
  <2>1. stage \in Starting /\ at = "select" /\ UNCHANGED loopOnly
    BY <1>1, <1>8, StartupBeforeLoop DEF Start, Starting
  <2>2. stage' # "killed"
    BY <1>8, <2>1 DEF Start, StartupStep, CheckRoot, LoadObject, AttachKprobe, CheckTlsObject,
       LoadTlsProgram, AttachTlsToPid, AttachTo, AttachTlsSystemWide, TlsPidsEnd, StartLoop, Proceed,
       Fail,
       Starting
  <2>3. CASE stage' = "failed"
    <3>1. LoopPc = "select" /\ LoopPc' = "crashed"
      BY <2>1, <2>3 DEF Starting, loopOnly
    <3>2. Loop!Crash
      BY <2>1, <3>1 DEF Loop!Crash, Loop!Over, loopOnly
    <3> QED BY <3>2 DEF Loop!LoopNext
  <2>4. CASE stage' # "failed"
    <3>1. LoopPc = "select" /\ LoopPc' = "select"
      BY <2>1, <2>2, <2>4 DEF Starting, loopOnly
    <3> QED BY <2>1, <3>1 DEF Loop!loopVars, loopOnly
  <2> QED BY <2>3, <2>4
<1>9. CASE KilledAtStart
  <2>1. /\ stage \in Starting /\ at = "select" /\ stage' = "killed" /\ signalled
        /\ UNCHANGED loopOnly
    BY <1>1, <1>9 DEF KilledAtStart, Killed, Starting
  <2>2. LoopPc = "select" /\ LoopPc' = "stopped"
    BY <2>1 DEF Starting, loopOnly
  <2> QED BY <2>1, <2>2 DEF Loop!SelectCtrlC, Loop!LoopNext, loopOnly
<1>10. CASE SelectCtrlC
  BY <1>10 DEF SelectCtrlC, Loop!SelectCtrlC, Loop!LoopNext, startupVars, itemVars, userVars
<1>11. CASE SelectSleep
  BY <1>11 DEF SelectSleep, Loop!SelectSleep, Loop!LoopNext, startupVars, itemVars
<1>12. CASE Take
  <2>1. CASE Matches(Head(ring))
    BY <1>1, <1>12, <2>1 DEF Take, Loop!loopVars, startupVars, userVars
  <2>2. CASE ~ Matches(Head(ring))
    <3>1. ~ Loop!Matches(Head(ring))
      BY <2>2 DEF Matches, Loop!Matches
    <3> QED BY <1>1, <1>12, <2>2, <3>1 DEF Take, Release, Loop!DrainOne, Loop!LoopNext, startupVars, userVars
  <2> QED BY <2>1, <2>2
<1>13. CASE ReadProc
  BY <1>13 DEF ReadProc, Loop!loopVars, startupVars, userVars
<1>14. CASE PrintFlow
  <2>1. Loop!Matches(Head(ring)) /\ ring # <<>> /\ stage = "run"
    BY <1>1, <1>14 DEF PrintFlow, Matches, Loop!Matches
  <2> QED BY <1>1, <1>14, <2>1 DEF PrintFlow, Release, Loop!DrainOne, Loop!LoopNext, startupVars, userVars
<1>15. CASE Panic
  BY <1>1, <1>15 DEF Panic, Loop!Crash, Loop!Over, Loop!LoopNext, startupVars, itemVars, userVars
<1>16. CASE DrainEnd
  BY <1>1, <1>16 DEF DrainEnd, Loop!DrainEnd, Loop!LoopNext, startupVars, itemVars
<1> QED BY <1>5, <1>6, <1>7, <1>8, <1>9, <1>10, <1>11, <1>12, <1>13, <1>14, <1>15, <1>16,
           <1>17
        DEF SensorNext, SensorStep, Loop!LoopNext

\* The daemon takes only steps that the loop it promises may take: the safety
\* half of ImplementsEventLoop (loader.rs:97-133).
THEOREM SensorImplementsLoop == SensorSpec => Loop!LoopInit /\ [][Loop!LoopNext]_Loop!loopVars
<1>1. UNCHANGED sensorVars => UNCHANGED Loop!loopVars
  BY DEF sensorVars, startupVars, loopOnly, Loop!loopVars, LoopPc, UnderWay
<1>2. SensorInv /\ SensorInv' /\ [SensorNext]_sensorVars => [Loop!LoopNext]_Loop!loopVars
  BY <1>1, LoopStep
<1> QED BY <1>2, LoopStart, SensorInvariant, PTL DEF SensorSpec

-----------------------------------------------------------------------------
(* The end.                                                                *)

LEMMA MatchesIsAsked ==
  ASSUME NEW e \in Flow
  PROVE  Matches(e) => Asked(e)
<1>1. /\ MinDurationMs \in Nat /\ SampleRate \in Nat /\ NsPerMs \in Nat \ {0}
      /\ e.duration_ns \in Nat /\ e.chain_id \in Nat
  BY FilterAssumption
<1>2. ASSUME e.duration_ns \div NsPerMs >= MinDurationMs
      PROVE  ~ e.duration_ns < MinDurationMs * NsPerMs
  <2> DEFINE q == e.duration_ns \div NsPerMs
  <2>1. q \in Nat /\ q >= MinDurationMs /\ e.duration_ns >= q * NsPerMs
    BY <1>1, <1>2
  <2> HIDE DEF q
  <2>2. q * NsPerMs >= MinDurationMs * NsPerMs
    BY <1>1, <2>1
  <2> QED BY <1>1, <2>1, <2>2
<1>3. ASSUME SampleRate > 1, e.chain_id % SampleRate = 0
      PROVE  \E q \in 0..e.chain_id : e.chain_id = q * SampleRate
  <2> DEFINE q == e.chain_id \div SampleRate
  <2>1. q \in Nat /\ e.chain_id = q * SampleRate /\ q <= e.chain_id
    BY <1>1, <1>3
  <2> QED BY <1>1, <2>1
<1> QED BY <1>1, <1>2, <1>3 DEF Matches, Asked

\* A panic is over the event at the head of the ring.
PanicReason ==
  \/ broken
  \/ \E p \in WideCgroup : PidOf[p] = Head(ring).pid
  \/ Pretty /\ \E p \in WideCommand : PidOf[p] = Head(ring).pid

\* The signal is there because the user sent it, and what was read under /proc
\* is of processes with the pid of the event.
EndInv ==
  /\ presses \in Nat
  /\ signalled => presses > 0
  /\ (stage = "killed" \/ at = "stopped") => presses > 0
  /\ at = "enrich" => \A i \in DOMAIN reads : reads[i] = Gone \/ PidOf[reads[i]] = Head(ring).pid
  /\ at = "panicked" => PanicReason

LEMMA PanicHasReason ==
  ASSUME HostInv, EndInv, Panic
  PROVE  PanicReason
<1>1. at = "enrich" /\ Len(reads) = 4 /\ (CutsCgroup \/ CutsCommand \/ broken)
  BY DEF Panic
<1>2. 3 \in DOMAIN reads /\ 4 \in DOMAIN reads
  BY <1>1 DEF HostInv
<1>3. \A i \in DOMAIN reads : reads[i] = Gone \/ PidOf[reads[i]] = Head(ring).pid
  BY <1>1 DEF EndInv
<1>4. Gone \notin WideCgroup /\ Gone \notin WideCommand
  BY SensorAssumption
<1>5. ASSUME CutsCgroup
      PROVE  \E p \in WideCgroup : PidOf[p] = Head(ring).pid
  <2>1. reads[4] \in WideCgroup /\ PidOf[reads[4]] = Head(ring).pid
    BY <1>2, <1>3, <1>4, <1>5 DEF CutsCgroup
  <2> QED BY <2>1
<1>6. ASSUME CutsCommand
      PROVE  Pretty /\ \E p \in WideCommand : PidOf[p] = Head(ring).pid
  <2>1. Pretty /\ reads[3] \in WideCommand /\ PidOf[reads[3]] = Head(ring).pid
    BY <1>2, <1>3, <1>4, <1>6 DEF CutsCommand
  <2> QED BY <2>1
<1> QED BY <1>1, <1>5, <1>6 DEF PanicReason

LEMMA EndStepInv == SensorInv /\ HostInv /\ EndInv /\ [SensorNext]_sensorVars => EndInv'
<1> SUFFICES ASSUME SensorInv, HostInv, EndInv, [SensorNext]_sensorVars PROVE EndInv'
  OBVIOUS
<1> USE DEF EndInv
<1>0. /\ ring \in Seq(Flow) /\ reads \in Seq(Process \cup {Gone})
      /\ at = "enrich" => ring # <<>>
  BY DEF SensorInv, HostInv, UnderWay
<1>1. ASSUME NEW p \in Process, StartProcess(p) \/ EndProcess(p)
      PROVE  EndInv'
  BY <1>1 DEF StartProcess, EndProcess, startupVars, loopOnly, PanicReason
<1>2. ASSUME NEW e \in Flow, Submit(e)
      PROVE  EndInv'
  <2>1. /\ at # "panicked" /\ ring' = Append(ring, e)
        /\ UNCHANGED <<stage, at, reads, signalled, presses>>
    BY <1>2 DEF Submit, SensorOver, startupVars, userVars, itemVars
  <2>2. at = "enrich" => Head(ring') = Head(ring)
    BY <1>0, <2>1, HeadOfAppend
  <2> QED BY <2>1, <2>2
<1>3. CASE PressCtrlC
  BY <1>3 DEF PressCtrlC, SensorOver, startupVars, itemVars
<1>4. CASE Start
  <2>1. stage' # "killed" /\ UNCHANGED loopOnly
    BY <1>4 DEF Start, StartupStep, CheckRoot, LoadObject, AttachKprobe, CheckTlsObject,
       LoadTlsProgram, AttachTlsToPid, AttachTo, AttachTlsSystemWide, TlsPidsEnd, StartLoop, Proceed,
       Fail
  <2>2. at = "select"
    BY <1>4, StartupBeforeLoop DEF Start, SensorInv, InLoop, Starting
  <2> QED BY <2>1, <2>2 DEF loopOnly
<1>5. CASE KilledAtStart
  <2>1. at = "select"
    BY <1>5, StartupBeforeLoop DEF KilledAtStart, SensorInv, InLoop, Starting
  <2> QED BY <1>5, <2>1 DEF KilledAtStart, loopOnly
<1>6. CASE SelectCtrlC \/ SelectSleep \/ DrainEnd
  BY <1>6 DEF SelectCtrlC, SelectSleep, DrainEnd, startupVars, userVars
<1>7. CASE Take
  BY <1>7 DEF Take, startupVars, userVars
<1>8. CASE ReadProc
  <2>1. /\ at = "enrich" /\ reads' = Append(reads, ProcOf(Head(ring).pid))
        /\ UNCHANGED <<stage, at, ring, signalled, presses>>
    BY <1>8 DEF ReadProc, startupVars, userVars
  <2>2. ProcOf(Head(ring).pid) = Gone \/ PidOf[ProcOf(Head(ring).pid)] = Head(ring).pid
    BY DEF ProcOf
  <2>3. /\ DOMAIN reads' = 1..(Len(reads) + 1) /\ DOMAIN reads = 1..Len(reads)
        /\ Len(reads) \in Nat /\ \A i \in DOMAIN reads : reads'[i] = reads[i]
        /\ reads'[Len(reads) + 1] = ProcOf(Head(ring).pid)
    BY <1>0, <2>1
  <2>4. ASSUME NEW i \in DOMAIN reads'
        PROVE  reads'[i] = Gone \/ PidOf[reads'[i]] = Head(ring).pid
    <3>1. i \in DOMAIN reads \/ i = Len(reads) + 1
      BY <2>3
    <3> QED BY <2>1, <2>2, <2>3, <3>1
  <2> QED BY <2>1, <2>4
<1>9. CASE PrintFlow
  BY <1>9 DEF PrintFlow, startupVars, userVars
<1>10. CASE Panic
  <2>1. PanicReason
    BY <1>10, PanicHasReason DEF EndInv
  <2>2. /\ at' = "panicked"
        /\ UNCHANGED <<stage, ring, signalled, presses, broken>>
    BY <1>10 DEF Panic, startupVars, userVars, hostVars
  <2> QED BY <2>1, <2>2 DEF PanicReason
<1>11. CASE StdoutBreaks
  BY <1>11 DEF StdoutBreaks, startupVars, loopOnly, PanicReason
<1>12. CASE UNCHANGED sensorVars
  BY <1>12 DEF sensorVars, startupVars, loopOnly, hostVars, PanicReason
<1> QED BY <1>1, <1>2, <1>3, <1>4, <1>5, <1>6, <1>7, <1>8, <1>9, <1>10, <1>11, <1>12
        DEF SensorNext, SensorStep

\* Nothing but a failed start, Ctrl+C, an output that cannot be written or a
\* string of /proc that cannot be cut ends the sensor (loader.rs:107-110,
\* printer.rs:38, 113 and 237, enricher.rs:143).
THEOREM SensorEnds == SensorSpec => []EndsForAReason
<1>1. SensorInit => EndInv /\ HostInv
  BY DEF SensorInit, StartupInit, EndInv, HostInv, ProcessDataIsOwn
<1>2. SensorInv /\ EndInv => EndsForAReason
  <2> SUFFICES ASSUME SensorInv, EndInv, SensorOver, stage # "failed", ~ presses > 0
               PROVE  at = "panicked" /\ Asked(Head(ring)) /\ PanicReason
    BY DEF EndsForAReason, PanicReason
  <2>1. at = "panicked" /\ PanicReason
    BY DEF EndInv, SensorOver, Ended
  <2>2. ring # <<>> /\ ring \in Seq(Flow) /\ Matches(Head(ring))
    BY <2>1 DEF SensorInv, UnderWay
  <2>3. Head(ring) \in Flow
    BY <2>2
  <2> QED BY <2>1, <2>2, <2>3, MatchesIsAsked
<1> QED BY <1>1, <1>2, EndStepInv, HostStepInv, SensorInvariant, PTL DEF SensorSpec
=============================================================================

------------------------------- MODULE Sensor -------------------------------
(***************************************************************************)
(* The daemon from its start to its end: start-up (Startup), then          *)
(* event_loop of flow-sensor/src/loader.rs with the steps inside a turn:   *)
(* take an item, count and filter it, read the four files of its process   *)
(* under /proc (enricher.rs), print it (printer.rs), release its slot.     *)
(* Processes start and end, and their ids are used again, between any two  *)
(* of those reads.  It implements EventLoop.                               *)
(*                                                                         *)
(* An event has, besides what the filter reads, the pid that the kernel    *)
(* wrote and, as history, the process that had it (owner).                 *)
(***************************************************************************)
EXTENDS Startup, EventFilter

CONSTANTS
  RingCap,      \* events that the ring can hold
  MaxPresses,   \* bound on the Ctrl+C the user sends
  MaxFlows,     \* bound on the events submitted
  Process,      \* processes of the host
  PidOf,        \* the pid of each
  Gone,         \* what is read of a pid that no process has
  WideCommand,  \* processes with a command line that cannot be cut at byte 80
  WideCgroup    \* and with a pod whose container id cannot be cut at byte 12

ASSUME SensorAssumption ==
  /\ RingCap \in Nat \ {0} /\ MaxPresses \in Nat /\ MaxFlows \in Nat
  /\ Gone \notin Process /\ WideCommand \cup WideCgroup \subseteq Process
  /\ \A e \in Flow : e.owner \in Process /\ e.pid = PidOf[e.owner]

VARIABLES
  at,         \* where the loop is: "select", "drain", "enrich", or how it ended
  ring,       \* FLOW_EVENTS, with the item under way at its head
  signalled,  \* the ctrl_c future of this turn, or the process, has its signal
  count,      \* flows received
  printed,    \* events enriched and printed
  reads,      \* what the reads under /proc found for the last item
  accepted,   \* events that found room in the ring
  taken,      \* events whose slot was released
  presses,    \* Ctrl+C sent so far
  running,    \* processes that run
  ended       \* processes that ran

itemVars == <<count, printed, reads, taken>>
userVars == <<signalled, presses>>
loopOnly == <<at, ring, count, printed, reads, accepted, taken, signalled, presses>>
hostVars == <<running, ended, broken>>
sensorVars == <<startupVars, loopOnly, hostVars>>

SensorInit ==
  /\ StartupInit
  /\ at = "select"
  /\ ring = <<>> /\ printed = <<>> /\ reads = <<>> /\ accepted = <<>> /\ taken = <<>>
  /\ signalled = FALSE
  /\ count = 0 /\ presses = 0
  /\ running = {} /\ ended = {}

Pretty == Output \notin {"json", "jsonl"}

SensorOver == stage \in Ended \/ at \in {"stopped", "panicked"}
InLoop == stage = "run"

\* What /proc/<pid> shows.
ProcOf(pid) ==
  IF \E p \in running : PidOf[p] = pid THEN CHOOSE p \in running : PidOf[p] = pid ELSE Gone

-----------------------------------------------------------------------------
(* The host, as long as the sensor is there to see it.                     *)

StartProcess(p) ==
  /\ ~ SensorOver
  /\ p \notin running \cup ended
  /\ \A q \in running : PidOf[q] # PidOf[p]
  /\ running' = running \cup {p}
  /\ UNCHANGED <<startupVars, loopOnly, ended, broken>>

EndProcess(p) ==
  /\ ~ SensorOver
  /\ p \in running
  /\ running' = running \ {p}
  /\ ended' = ended \cup {p}
  /\ UNCHANGED <<startupVars, loopOnly, broken>>

\* The reader of the standard output ends, at any time.
StdoutBreaks ==
  /\ ~ SensorOver /\ ~ broken
  /\ broken' = TRUE
  /\ UNCHANGED <<startupVars, loopOnly, running, ended>>

\* A connection of a process closes, by it or by another that has it too, and
\* a connect or an accept made its row before.
Submit(e) ==
  /\ {<<"tcp_close", "tcp_close">>, <<"tcp_connect", "tcp_connect">>} \subseteq attached
  /\ ~ SensorOver
  /\ e.owner \in running \cup ended
  /\ \A i \in DOMAIN accepted : accepted[i] # e
  /\ Len(ring) < RingCap
  /\ Len(accepted) < MaxFlows
  /\ ring' = Append(ring, e)
  /\ accepted' = Append(accepted, e)
  /\ UNCHANGED <<startupVars, at, itemVars, userVars, hostVars>>

PressCtrlC ==
  /\ ~ SensorOver
  /\ presses < MaxPresses
  /\ presses' = presses + 1
  /\ signalled' = (signalled \/ at = "select")
  /\ UNCHANGED <<startupVars, at, ring, itemVars, accepted, hostVars>>

-----------------------------------------------------------------------------
(* The sensor.                                                             *)

Start ==
  /\ ~ signalled
  /\ StartupStep
  /\ UNCHANGED <<loopOnly, hostVars>>

\* A signal during start-up.
KilledAtStart ==
  /\ signalled
  /\ Killed
  /\ UNCHANGED <<loopOnly, hostVars>>

SelectCtrlC ==
  /\ InLoop
  /\ at = "select"
  /\ signalled
  /\ at' = "stopped"
  /\ UNCHANGED <<startupVars, ring, itemVars, accepted, userVars, hostVars>>

MutSelectKeepsSignal ==
  /\ InLoop
  /\ at = "select"
  /\ at' = "drain"
  /\ UNCHANGED <<startupVars, ring, itemVars, accepted, userVars, hostVars>>
MutSelectBeforeLoop ==
  /\ stage \notin Ended
  /\ at = "select"
  /\ at' = "drain"
  /\ signalled' = FALSE
  /\ UNCHANGED <<startupVars, ring, itemVars, accepted, presses, hostVars>>
SelectSleep ==
  /\ InLoop
  /\ at = "select"
  /\ at' = "drain"
  /\ signalled' = FALSE
  /\ UNCHANGED <<startupVars, ring, itemVars, accepted, presses, hostVars>>

\* The item at the head is dropped: its slot can be written again.
Release ==
  /\ ring' = Tail(ring)
  /\ taken' = Append(taken, Head(ring))

\* ring.next, the count and the filter.
MutPeeksAtFiltered ==
  /\ at = "drain"
  /\ ring # <<>>
  /\ IF Matches(Head(ring))
     THEN at' = "enrich" /\ reads' = <<>> /\ count' = count + 1 /\ UNCHANGED <<ring, taken>>
     ELSE UNCHANGED <<at, reads, count, ring, taken>>
  /\ UNCHANGED <<startupVars, printed, accepted, userVars, hostVars>>
MutEnrichesAll ==
  /\ at = "drain"
  /\ ring # <<>>
  /\ count' = count + 1
  /\ at' = "enrich" /\ reads' = <<>> /\ UNCHANGED <<ring, taken>>
  /\ UNCHANGED <<startupVars, printed, accepted, userVars, hostVars>>
MutKeepsReadsOfPid ==
  /\ at = "drain"
  /\ ring # <<>>
  /\ count' = count + 1
  /\ IF Matches(Head(ring))
     THEN /\ at' = "enrich"
          /\ reads' = IF printed # <<>> /\ printed[Len(printed)].pid = Head(ring).pid
                      THEN SubSeq(reads, 1, 3) ELSE <<>>
          /\ UNCHANGED <<ring, taken>>
     ELSE Release /\ UNCHANGED <<at, reads>>
  /\ UNCHANGED <<startupVars, printed, accepted, userVars, hostVars>>
Take ==
  /\ at = "drain"
  /\ ring # <<>>
  /\ count' = count + 1
  /\ IF Matches(Head(ring))
     THEN at' = "enrich" /\ reads' = <<>> /\ UNCHANGED <<ring, taken>>
     ELSE Release /\ UNCHANGED <<at, reads>>
  /\ UNCHANGED <<startupVars, printed, accepted, userVars, hostVars>>

\* enrich: status, exe, cmdline and, since no event has a cgroup, cgroup.
ReadProc ==
  /\ at = "enrich"
  /\ Len(reads) < 4
  /\ reads' = Append(reads, ProcOf(Head(ring).pid))
  /\ UNCHANGED <<startupVars, at, ring, count, printed, accepted, taken, userVars, hostVars>>

\* A string is cut inside a character: the container id, or in the pretty
\* printer the command line.
CutsCgroup == reads[4] \in WideCgroup
CutsCommand == Pretty /\ reads[3] \in WideCommand

PrintFlow ==
  /\ at = "enrich"
  /\ Len(reads) = 4
  /\ ~ (CutsCgroup \/ CutsCommand \/ broken)
  /\ printed' = Append(printed, Head(ring))
  /\ Release
  /\ at' = "drain"
  /\ UNCHANGED <<startupVars, count, reads, accepted, userVars, hostVars>>

\* Or println! fails, which both printers end a flow with.
Panic ==
  /\ at = "enrich"
  /\ Len(reads) = 4
  /\ CutsCgroup \/ CutsCommand \/ broken
  /\ at' = "panicked"
  /\ UNCHANGED <<startupVars, ring, itemVars, accepted, userVars, hostVars>>

DrainEnd ==
  /\ at = "drain"
  /\ ring = <<>>
  /\ at' = "select"
  /\ signalled' = FALSE
  /\ UNCHANGED <<startupVars, ring, itemVars, accepted, presses, hostVars>>

SensorStep ==
  \/ Start
  \/ KilledAtStart
  \/ SelectCtrlC
  \/ SelectSleep
  \/ Take
  \/ ReadProc
  \/ PrintFlow
  \/ Panic
  \/ DrainEnd

SensorNext ==
  \/ \E p \in Process : StartProcess(p) \/ EndProcess(p)
  \/ \E e \in Flow : Submit(e)
  \/ StdoutBreaks
  \/ PressCtrlC
  \/ SensorStep

\* The sensor is one thread that never blocks but in select!, where the sleep
\* always comes to its end.
SensorSpec == SensorInit /\ [][SensorNext]_sensorVars /\ WF_sensorVars(SensorStep)

-----------------------------------------------------------------------------
(* The refinement: a start-up is a select that has not ended; an item under *)
(* way is not yet counted.                                                  *)

UnderWay == at \in {"enrich", "panicked"}

LoopPc ==
  CASE stage = "failed" \/ at = "panicked" -> "crashed"
    [] stage = "killed" -> "stopped"
    [] at = "enrich" -> "drain"
    [] OTHER -> at

Loop == INSTANCE EventLoop WITH
          pc <- LoopPc, count <- IF UnderWay THEN count - 1 ELSE count

-----------------------------------------------------------------------------
(* Properties.                                                             *)

\* Types, and what is read of /proc is read for the item under way.
SensorTypeOK ==
  /\ StartupTypeOK
  /\ at \in {"select", "drain", "enrich", "stopped", "panicked"}
  /\ ring \in Seq(Flow) /\ Len(ring) <= RingCap
  /\ count \in Nat /\ signalled \in BOOLEAN /\ presses \in 0..MaxPresses
  /\ {printed, accepted, taken} \subseteq Seq(Flow)
  /\ reads \in Seq(Process \cup {Gone}) /\ Len(reads) <= 4
  /\ running \subseteq Process /\ ended \subseteq Process \ running
  /\ at # "select" => InLoop

\* The steps of the daemon are steps of the loop it promises (loader.rs:97-133).
ImplementsEventLoop == Loop!LoopSpec

\* PrintedIsFiltered of EventLoop, of the daemon.
PrintedIsFiltered == Loop!PrintedIsFiltered

\* EventsAreReceived of EventLoop, of the daemon: also the events of the
\* start-up, and though an item under way holds the head of the ring.
EventsAreReceived == Loop!EventsAreReceived

\* The daemon ends when it cannot start, for Ctrl+C, or over an event that the
\* filter let through (loader.rs:107-110): because there is nowhere left to
\* write it (printer.rs:38, 237), or because of what some process with the pid
\* of the event shows under /proc (enricher.rs:143, printer.rs:113), which need
\* not be the one that had the connection.
EndsForAReason ==
  SensorOver =>
    \/ stage = "failed"
    \/ presses > 0
    \/ /\ at = "panicked" /\ Asked(Head(ring))
       /\ \/ broken
          \/ \E p \in WideCgroup : PidOf[p] = Head(ring).pid
          \/ Pretty /\ \E p \in WideCommand : PidOf[p] = Head(ring).pid

\* What is read under /proc is the process's own as long as it runs, and once
\* it is not, it is never again: the reads of one event are some of its own
\* process, then some of what came after it (enricher.rs:38-41).
ProcessDataIsOwn ==
  at = "enrich" =>
    LET own == Head(ring).owner IN
    /\ own \in running => \A i \in DOMAIN reads : reads[i] = own
    /\ \A i \in DOMAIN reads : \A j \in 1..i : reads[i] = own => reads[j] = own
=============================================================================

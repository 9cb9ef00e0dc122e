----------------------------- MODULE EventLoop -----------------------------
(***************************************************************************)
(* What the consumer of FLOW_EVENTS promises: every event in the ring is   *)
(* taken out, counted, and printed when the filter lets it, until the user *)
(* stops the sensor or it fails.  It is event_loop of                      *)
(* flow-sensor/src/loader.rs with each turn of its while in one step;      *)
(* Sensor has the steps inside a turn, and start-up before the loop.       *)
(*                                                                         *)
(* Every turn of the loop makes a new ctrl_c future and a new sleep, and   *)
(* select! drops both before it runs the branch of the one that finished.  *)
(* A ctrl_c future sees the signals that arrive while it exists.           *)
(*                                                                         *)
(* accepted, taken and presses are history.                                *)
(***************************************************************************)
EXTENDS EventFilter

CONSTANTS
  RingCap,          \* events that the ring can hold
  MaxPresses        \* bound on the Ctrl+C the user sends

VARIABLES
  pc,         \* "select", "drain", "stopped" or "crashed"
  ring,       \* FLOW_EVENTS
  signalled,  \* the ctrl_c future of this turn has its signal
  count,      \* flows received
  printed,    \* events enriched and printed
  accepted,   \* events that found room in the ring
  taken,      \* events taken out of it
  presses     \* Ctrl+C sent so far

loopVars == <<pc, ring, signalled, count, printed, accepted, taken, presses>>

Over == pc \in {"stopped", "crashed"}

LoopInit ==
  /\ pc = "select"
  /\ ring = <<>> /\ printed = <<>> /\ accepted = <<>> /\ taken = <<>>
  /\ signalled = FALSE
  /\ count = 0
  /\ presses = 0

-----------------------------------------------------------------------------
\* A close submits its event, while there is room.
Submit(e) ==
  /\ ~ Over
  /\ \A i \in DOMAIN accepted : accepted[i] # e
  /\ Len(ring) < RingCap
  /\ ring' = Append(ring, e)
  /\ accepted' = Append(accepted, e)
  /\ UNCHANGED <<pc, signalled, count, printed, taken, presses>>

\* The user presses Ctrl+C.  Only a future that exists is told.
PressCtrlC ==
  /\ ~ Over
  /\ presses < MaxPresses
  /\ presses' = presses + 1
  /\ signalled' = (signalled \/ pc = "select")
  /\ UNCHANGED <<pc, ring, count, printed, accepted, taken>>

\* The ctrl_c branch.
SelectCtrlC ==
  /\ pc = "select"
  /\ signalled
  /\ pc' = "stopped"
  /\ UNCHANGED <<ring, signalled, count, printed, accepted, taken, presses>>

\* The sleep branch: both futures are dropped.
SelectSleep ==
  /\ pc = "select"
  /\ pc' = "drain"
  /\ signalled' = FALSE
  /\ UNCHANGED <<ring, count, printed, accepted, taken, presses>>

\* One turn of the while: count, filter, enrich and print.
DrainOne ==
  /\ pc = "drain"
  /\ ring # <<>>
  /\ ring' = Tail(ring)
  /\ taken' = Append(taken, Head(ring))
  /\ count' = count + 1
  /\ printed' = IF Matches(Head(ring)) THEN Append(printed, Head(ring)) ELSE printed
  /\ UNCHANGED <<pc, signalled, accepted, presses>>

\* The ring is empty: the next turn of the loop, with new futures.
DrainEnd ==
  /\ pc = "drain"
  /\ ring = <<>>
  /\ pc' = "select"
  /\ signalled' = FALSE
  /\ UNCHANGED <<ring, count, printed, accepted, taken, presses>>

\* Start-up fails, or a turn panics.
Crash ==
  /\ ~ Over
  /\ pc' = "crashed"
  /\ UNCHANGED <<ring, signalled, count, printed, accepted, taken, presses>>

LoopNext ==
  \/ \E e \in Flow : Submit(e)
  \/ PressCtrlC
  \/ SelectCtrlC
  \/ SelectSleep
  \/ DrainOne
  \/ DrainEnd
  \/ Crash

\* The runtime polls the task whenever one of its futures is ready, and the
\* drain is a plain loop: neither branch, nor the loop, waits for ever.
LoopFairness ==
  /\ WF_loopVars(SelectCtrlC \/ SelectSleep)
  /\ WF_loopVars(DrainOne)
  /\ WF_loopVars(DrainEnd)

LoopSpec == LoopInit /\ [][LoopNext]_loopVars /\ LoopFairness

-----------------------------------------------------------------------------
(* Properties.                                                             *)

\* What is printed is what was accepted, in order and once each, less what the
\* filters of the command line reject; what the loop counts is all it took
\* (loader.rs:112-127, main.rs:126-151).
PrintedIsFiltered ==
  /\ taken \o ring = accepted
  /\ IsFiltered(printed, taken)
  /\ count = Len(taken)

\* An event in the ring is received unless the sensor ends first
\* (loader.rs:112): the sleep branch comes again and again.
EventsAreReceived ==
  \A e \in Flow :
    (\E i \in DOMAIN ring : ring[i] = e) ~> (Over \/ \E i \in DOMAIN taken : taken[i] = e)

\* main.rs:100: "Listening for flows... (Ctrl+C to stop)".
CtrlCStops == (presses > 0) ~> Over
=============================================================================

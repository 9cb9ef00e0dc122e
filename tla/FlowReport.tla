----------------------------- MODULE FlowReport -----------------------------
(***************************************************************************)
(* What the sensor promises of the connections of a host: each is reported *)
(* at most once, in a bounded outbox that is read in order.  A connection  *)
(* may be lost, by eviction or because its row was never made, and a lost  *)
(* or reported connection never comes back.  A stranded one is over while  *)
(* its row is still there; the row may yet be reported or be lost.         *)
(***************************************************************************)
EXTENDS Integers, Sequences

CONSTANTS
  Sock,     \* connections
  RingCap   \* capacity of the outbox

VARIABLES
  fate,    \* what became of each connection
  outbox   \* connections whose event waits to be read

Fates == {"untracked", "live", "stranded", "reported", "lost"}

FlowReportInit ==
  /\ fate = [s \in Sock |-> "untracked"]
  /\ outbox = <<>>

\* A row is made for s, at the cost of the rows in L, which may be its own.
Admit(s, L) ==
  /\ fate[s] = "untracked"
  /\ \A l \in L \ {s} : fate[l] \in {"live", "stranded"}
  /\ fate' = [o \in Sock |-> IF o \in L THEN "lost"
                             ELSE IF o = s THEN "live" ELSE fate[o]]
  /\ UNCHANGED outbox

\* The connection goes, the row stays.
Strand(s) ==
  /\ fate[s] = "live"
  /\ fate' = [fate EXCEPT ![s] = "stranded"]
  /\ UNCHANGED outbox

\* The row becomes an event.
Emit(s) ==
  /\ fate[s] \in {"live", "stranded"}
  /\ Len(outbox) < RingCap
  /\ fate' = [fate EXCEPT ![s] = "reported"]
  /\ outbox' = Append(outbox, s)

Deliver ==
  /\ outbox # <<>>
  /\ outbox' = Tail(outbox)
  /\ UNCHANGED fate

FlowReportNext ==
  \/ \E s \in Sock :
       \/ \E L \in SUBSET Sock : Admit(s, L)
       \/ Strand(s)
       \/ Emit(s)
  \/ Deliver

FlowReportSpec == FlowReportInit /\ [][FlowReportNext]_<<fate, outbox>>

-----------------------------------------------------------------------------
\* Every connection in the outbox was reported, and is there once.
ReportedOnce ==
  /\ \A i \in DOMAIN outbox : fate[outbox[i]] = "reported"
  /\ \A i, j \in DOMAIN outbox : outbox[i] = outbox[j] => i = j
=============================================================================

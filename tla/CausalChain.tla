---------------------------- MODULE CausalChain ----------------------------
(***************************************************************************)
(* CAUSAL_MAP and the two probes that write it, on_new_task and on_exit    *)
(* (flow-sensor-ebpf/src/causal.rs).                                       *)
(*                                                                         *)
(* A thread is named as bpf_get_current_pid_tgid names it: a pair          *)
(* <<tgid, tid>>.  The leader of a process has tid = tgid.  The map is     *)
(* total over its keys, with NoCtx for an absent entry.                    *)
(*                                                                         *)
(* The variables inherited and dropped are history: no probe reads them.   *)
(***************************************************************************)
EXTENDS Integers, FiniteSets

CONSTANTS
  Task,     \* the <<tgid, tid>> names that threads may be given
  Boot,     \* the threads that run when the probes attach
  MaxTime,  \* bound on the clock
  MaxCtx,   \* max_entries of CAUSAL_MAP
  U32Size,  \* 2^32, the modulus of the depth counter
  NoCtx     \* no entry

ASSUME TaskAssumption ==
  /\ Task \subseteq (Nat \X Nat)
  /\ Boot \subseteq Task

ASSUME BoundAssumption ==
  /\ MaxTime \in Nat \ {0}
  /\ MaxCtx \in Nat
  /\ U32Size \in Nat \ {0}

\* The key on_new_task builds for a child: its tid in both halves.
MutChildKeyIsParents(p, c) == p
ChildKey(p, c) == <<c[2], c[2]>>

CtxKey == Task \cup {ChildKey(p, c) : p \in Task, c \in Task}

\* chain_id is a ktime reading, so is parent_chain_id (or 0).
Ctx == [chain_id : 0..MaxTime, parent_chain_id : 0..MaxTime,
        depth : 0..(U32Size - 1), origin_pid : Nat]

ASSUME NoCtxAssumption == NoCtx \notin Ctx

VARIABLES
  now,        \* bpf_ktime_get_ns
  alive,      \* the threads that exist
  causalMap,  \* CAUSAL_MAP
  inherited,  \* the context on_new_task computed for the thread of that name
  dropped     \* threads whose context the full map refused

causalVars == <<now, alive, causalMap, inherited, dropped>>

CausalTypeOK ==
  /\ now \in 1..MaxTime
  /\ alive \subseteq Task
  /\ causalMap \in [CtxKey -> Ctx \cup {NoCtx}]
  /\ inherited \in [Task -> Ctx \cup {NoCtx}]
  /\ dropped \subseteq Task

CausalInit ==
  /\ now = 1
  /\ alive = Boot
  /\ causalMap = [k \in CtxKey |-> NoCtx]
  /\ inherited = [t \in Task |-> NoCtx]
  /\ dropped = {}

-----------------------------------------------------------------------------
IsLeader(t) == t[1] = t[2]

\* The kernel gives a new thread a tid that no live thread uses, neither as
\* its tid nor as its tgid.
PidFree(id) == \A t \in alive : t[1] # id /\ t[2] # id

\* A thread that has no entry passes on a chain that starts now.  Nothing is
\* stored for the parent itself.
ParentCtx(p) ==
  IF causalMap[p] # NoCtx
  THEN causalMap[p]
  ELSE [chain_id |-> now, parent_chain_id |-> 0, depth |-> 0, origin_pid |-> p[1]]

\* The child joins its parent's chain, one level deeper.  depth wraps.
MutDepthGrows(p) ==
  [chain_id |-> ParentCtx(p).chain_id, parent_chain_id |-> ParentCtx(p).chain_id,
   depth |-> ParentCtx(p).depth + 1, origin_pid |-> ParentCtx(p).origin_pid]
ChildCtx(p) ==
  [chain_id |-> ParentCtx(p).chain_id, parent_chain_id |-> ParentCtx(p).chain_id,
   depth |-> (ParentCtx(p).depth + 1) % U32Size,
   origin_pid |-> ParentCtx(p).origin_pid]

\* A BPF hash map takes an existing key always and a new one while it has room.
MutRoomOnlyForNewKeys(k) ==
  causalMap[k] = NoCtx /\ Cardinality({j \in CtxKey : causalMap[j] # NoCtx}) < MaxCtx
CtxInsertSucceeds(k) ==
  \/ causalMap[k] # NoCtx
  \/ Cardinality({j \in CtxKey : causalMap[j] # NoCtx}) < MaxCtx

-----------------------------------------------------------------------------
Tick ==
  /\ now < MaxTime
  /\ now' = now + 1
  /\ UNCHANGED <<alive, causalMap, inherited, dropped>>

\* wake_up_new_task: thread p starts thread c, in its own process or as the
\* leader of a new one.
NewTask(p, c) ==
  /\ p \in alive
  /\ PidFree(c[2])
  /\ IsLeader(c) \/ c[1] = p[1]
  /\ alive' = alive \cup {c}
  /\ inherited' = [inherited EXCEPT ![c] = ChildCtx(p)]
  /\ LET k == ChildKey(p, c) IN
       \/ /\ CtxInsertSucceeds(k)
          /\ causalMap' = [causalMap EXCEPT ![k] = ChildCtx(p)]
          /\ dropped' = dropped \ {c}
       \/ /\ ~ CtxInsertSucceeds(k)
          /\ dropped' = dropped \cup {c}
          /\ UNCHANGED causalMap
  /\ UNCHANGED now

\* do_exit: the thread removes the entry of its own pid_tgid.
MutExitForgetsEntry(t) ==
  /\ t \in alive
  /\ alive' = alive \ {t}
  /\ UNCHANGED <<now, causalMap, inherited, dropped>>
Exit(t) ==
  /\ t \in alive
  /\ alive' = alive \ {t}
  /\ causalMap' = [causalMap EXCEPT ![t] = NoCtx]
  /\ UNCHANGED <<now, inherited, dropped>>

CausalNext ==
  \/ Tick
  \/ \E p, c \in Task : NewTask(p, c)
  \/ \E t \in Task : Exit(t)

CausalSpec == CausalInit /\ [][CausalNext]_causalVars

-----------------------------------------------------------------------------
\* A live thread never sees the context of another one, in particular not
\* the entry that an earlier thread with a reused tid left behind: what the
\* map holds under its name is what on_new_task computed at its own creation
\* (causal.rs:59, insert with flags 0, against leftovers of causal.rs:67).
RightOrAbsent ==
  \A t \in alive : causalMap[t] # NoCtx => causalMap[t] = inherited[t]

\* A process created under the probes carries its parent's chain for as long
\* as it lives, unless the map was full when it was created (causal.rs:59
\* ignores the result of the insert).
ProcessInherits ==
  \A t \in alive :
    (IsLeader(t) /\ inherited[t] # NoCtx /\ t \notin dropped)
      => causalMap[t] = inherited[t]

\* The only entries that outlive their thread are those written for a
\* thread that is no leader: its exit removes <<tgid, tid>>, which is not the
\* key it was written under (causal.rs:48 and causal.rs:67).  When every
\* thread is a leader the map holds entries of live threads only.
OrphansNameThreads ==
  \A k \in CtxKey : (causalMap[k] # NoCtx /\ k \notin alive) =>
    \E t \in Task : t[2] = k[2] /\ ~ IsLeader(t) /\ inherited[t] # NoCtx

\* No step changes the context of a thread that lives before and after it
\* (the flows it opens stay in one chain: tcp_lifecycle.rs:106).
ContextStable ==
  [][\A t \in alive \cap alive' : causalMap'[t] = causalMap[t]]_causalVars

\* causal.rs:13: "child inherits parent's causal chain", on clone and on fork,
\* and maps.rs:185: "Per-thread causal context".  Every thread that was
\* created under the probes, and for which the map had room, has the context
\* that was computed for it.
ThreadsInherit ==
  \A t \in alive : (inherited[t] # NoCtx /\ t \notin dropped) => causalMap[t] = inherited[t]

\* The inductive invariant: an entry lives under a key with equal halves, so
\* that a thread that is no leader has none.
KeysAreLeaders == \A k \in CtxKey : causalMap[k] # NoCtx => IsLeader(k)

CausalInv ==
  /\ CausalTypeOK
  /\ KeysAreLeaders
  /\ RightOrAbsent
  /\ ProcessInherits
=============================================================================

# Formal models of flow-sensor

flow-sensor watches the TCP connections of a Linux host from eBPF probes and
prints one event for each connection when it is closed. This directory holds
TLA+ models of the probes, of the start-up that attaches them and of the loop that
consumes their events, TLC configurations that check them on small instances, and
TLAPS proofs of the properties that matter most for every size of the maps, the
ring and the sets of threads, connections, processes and events.

Paths are relative to the repository (`src/` in `PROJECT.json`).

## 1. Inventory

| Component | State | Operations | Talks to |
|---|---|---|---|
| Causal chains, `flow-sensor-ebpf/src/causal.rs` | `CAUSAL_MAP` (hash, 10,000 entries, key `pid_tgid`) | `on_new_task` (`wake_up_new_task`), `on_exit` (`do_exit`) | read by `fill_new_flow_state` when a row is made |
| TCP lifecycle, `tcp_lifecycle.rs` | `FLOW_TABLE` (LRU hash, 100,000), `FLOW_EVENTS` (ring, 16 MiB), `RECVMSG_SOCK` (4,096), `TLS_THREAD_FLOW` (8,192) | `tcp_connect`, `inet_csk_accept` (return), `tcp_sendmsg`, `tcp_recvmsg` (entry and return), `tcp_send_active_reset`, `tcp_close` | makes, updates and removes the rows all other probes update |
| TCP quality, `tcp_quality.rs` | none of its own | `tcp_rcv_established`, `tcp_enter_cwr`, `tcp_enter_loss`, `tcp_enter_recovery` | updates rows, found with a second way of building the key |
| Retransmissions, `retransmit.rs` | none of its own | `tcp_retransmit_skb`, `tcp_send_loss_probe`, `tcp_retransmit_timer`, `tcp_sacktag_write_queue` | updates rows with that second key |
| TLS and HTTP, `tls.rs` | `SSL_WRITE_ARGS`, `SSL_READ_ARGS` (4,096), a per-CPU scratch buffer | entry and return of `SSL_write` and `SSL_read`; ClientHello and HTTP parsers | finds the row through `TLS_THREAD_FLOW` |
| Maps and rows, `maps.rs`, `flow-sensor-common/src/lib.rs` | layout of rows and events | none | all probes |
| Start-up, `loader.rs`, `main.rs`, `tls_attach.rs` | loaded programs, links | check of the user, load, attach 17 kernel probes, load and attach the TLS probes | once, before the loop |
| Event loop, `flow-sensor/src/loader.rs`, `main.rs` | a counter, the ring's read side, one `ctrl_c` future a turn | `select!` between Ctrl+C and 50 ms of sleep, drain, `EventFilter::matches` | consumes `FLOW_EVENTS`, calls enricher and printer |
| Enricher, `enricher.rs` | none | four reads under `/proc/<pid>`; classifies addresses and ports | called for each event that passes the filter |
| Printer, `printer.rs` | none | formatting; can panic | called for each event that passes the filter |
| Kernel reads, `kread.rs` | none | wrappers of `bpf_probe_read_kernel` | called by the probes |

The probes interact only through the maps, and with the daemon only through the
ring. A probe runs on the CPU of the thread or of the interrupt that reached the
probed function, so probes of different connections, of one connection and of
one thread name follow each other, or run at once, in any way that the kernel
allows. What makes the system hard:

* **Lost steps.** An insertion fails or evicts a row; the ring is full at close; a
  return probe does not run because all its instances are taken; a thread is
  killed between entry and return. No probe can wait or retry.
* **Reused names.** Thread ids, four-tuples, sockets and the memory of rows come
  back. State left by an earlier one (a context of a cloned thread, a row of a
  connection that never reached `tcp_close`, a `RECVMSG_SOCK` entry of a missed
  return, the arguments of a killed thread, the flow a thread once opened, the end
  of a longer text) must not be taken for the new one's.
* **Keys.** The key of a row is built twice, and neither way names a connection.
* **Interleaving.** Probes on two CPUs read and write one row without a lock, and a
  row's memory can be given out while a probe still points to it.
* **Order.** Two probes run for one kernel event; a RST comes before or after the
  close; a process is gone when its event is printed; Ctrl+C comes while nobody
  listens.

What makes each component correct:

* *Causal chains*: a live thread sees its own context or none; a process keeps its
  parent's chain; a thread's context does not change while it lives.
* *Lifecycle*: a row belongs to the connection that made it; the bytes of a row and
  of its event are those of that connection; a connection is reported at most
  once and never after it was lost; another one's row is reported for known
  reasons only; the times of an event are in order.
* *Quality, retransmissions*: a row has the samples and counts of its connection
  only; counters saturate; the parts add up to the total.
* *TLS*: a return probe has its own call's arguments; a row gets the names of its
  own connection; a parser returns what is in the buffer and nothing else.
* *Start-up*: on success every probe is attached; on failure none stays.
* *Event loop*: everything accepted is received, in order and once; what is
  printed is what the filters let through; the daemon ends only for a reason.
* *Enricher*: what is printed of a process is that process's.

`PROJECT.json` lists the hazards with their lines and the properties that cover
them.

## 2. Modules

    FlowTypes ──┐                ┌── TcpQuality ── Retransmit
                ├── TcpLifecycle ┤
    CausalChain ┘        │       └── TlsProbe            TlsParse    RowRace
                         └─ INSTANCE ─ FlowReport (abstract)

    EventFilter ──┬── EventLoop (abstract)
                  │       ↑ INSTANCE
    Startup ──────┴── Sensor

    TcpLifecycleProofs ── TcpRowProofs ─┬─ ProbesProofs
    FlowReportProofs ─ INSTANCE ─┘      └─ TlsProbeProofs
    SensorProofs    RowRaceProofs    TlsParseProofs

A proof module extends the modules it is about. `TcpLifecycleProofs` has the
proofs of `CausalChain` too, which has none of its own.

**FlowTypes** (data, no state): keys, rows, events. `KeyFromSock` and `KeyFromSk`
are `flow_key_from_sock` and `flow_key_from_sk`. A `Tuple` has the first words of
`struct sock_common` at the offsets the code reads. In that layout 0xC is
`skc_dport`, 0xA is the upper half of `skc_hash`, 0xE is `skc_num`; so
`src_port` of a key is the *remote* port, `dst_port` is half of a hash, and the
local port is in no key. (`--ports` therefore cannot select a local port.)
`KeyFromSk` reads the protocol at 0x3, the last octet of the destination
address: the two keys agree when that octet is 6. `FlowEventOf` is the event that
`handle_tcp_close` makes of a row; the fields that are copied and the ones that
are computed are kept apart.

**CausalChain**: threads as `<<tgid, tid>>`, `NewTask` for `on_new_task` with the
kernel's part (which id a new thread may be given: `PidFree`), `Exit` for
`on_exit`, a clock. `ChildKey` is the key the code builds, the tid in both
halves, so that a thread of `clone` never finds its context (`ThreadsInherit` is the
claim of the comments, which fails). A full map refuses new keys.

**TcpLifecycle** extends the two. For its process a connection goes `new` →
(`queued` →) `open` → `closed`. For the kernel it is `hashed` from then on until it
is done with it (`Finish`: a reset by the peer, a timeout, the end of what a close
leaves to do), before or after the process closes it; only a hashed connection keeps
its four-tuple from others (`TupleFree`). One action for each probe; for the two
return probes also an action for the return that is missed; `Establish`, `Finish`
and `Abandon` are the kernel's. `tcp_recvmsg` returns an int, which the probe reads as
an i64: an error comes as nothing (`TcpRecvmsgReturnNothing`) or, with a zero upper
half of the register, as 2^32 less its number (`TcpRecvmsgReturnError`), as the
kernel's compiler has it. `InitFlowRow` has the three outcomes of an LRU insertion: a row (some rows
evicted), a row that is evicted again before `get_ptr_mut`, no row. `TcpClose` has
the three of `handle_tcp_close`: no row, no room in the ring (the row stays), an
event. History variables say what the maps cannot: who made a row (`owner`),
what the connection did (`asked`, `recvd`, `reset`), what its errors were taken for
(`misread`), what became of its row (`tracked`, `stranded`, `reported`), and which
connections of one four-tuple were held at one time (`overlaps`).

**FlowReport** is what the above promises: a connection is `untracked`, `live`,
`stranded` (over, its row left behind), `reported` or `lost`, and reported ones
go through a bounded outbox. `TcpLifecycle!FlowFate` and `FlowOutbox` are the
refinement mapping, `ImplementsFlowReport` the claim.

**TcpQuality** and **Retransmit** add the probes of the two other files on the
rows of `TcpLifecycle`, through `KeyFromSk`. The kernel's retransmission paths
(which probe runs for which event) are external.

**TlsProbe** adds the four probes of `tls.rs` to `TcpLifecycle`. `sslCalls` is the
stack of SSL calls a thread is inside: one may be made within another (TLS in
TLS), fail, and be cut short by the thread's end. `SaveArgs` and `RemoveArgs` are
the two argument maps, keyed by thread only; `UpdateThreadRow` is the way from the
thread to `TLS_THREAD_FLOW` to the row, or to none. A buffer is known by what
the parsers find in it. The probes are modelled as attached, whatever start-up
does (see section 4).

**TlsParse** has those parsers: the copy into the scratch buffer over what the
last buffer left, the ClientHello walk field by field, request line, Host
header, status line, and the texts of a row, written over and never cleared. A
message is its bytes, the place of each text it is to show (`parts`), and where the
extensions of a hello start (`exts`). That these places are right is
`ParseAssumption`, stated by the grammars of TLS (`HelloMessage`, `NamedMessage`) and
HTTP (`RequestMessage`, `ResponseMessage`) and never by parsing; a Host header is one
that starts a line (`HostHeaders`), and what else looks like one to the parser makes a
request `Misleading`. Three histories keep what the passed part of each message says
(`Says`): the last of each field (`latest`), the length of the longest (`longest`), and
whether some request was misleading (`misled`). The properties compare them with what
the accessors show. Bytes that do not
start like a hello or a request are in `Written` too, with nothing to show. A
ClientHello is taken to be one record, the extensions its last block; one that is
malformed is outside of the assumption.

**RowRace** takes back the atomicity of the other modules. Handlers of connect,
accept, send, ACK and close run load by load and store by store on two CPUs; a row
is a *node* of the preallocated table, which is given out again when the row is
removed or evicted, pointers to it notwithstanding. A row has the three kinds of
fields there are: one that is added to, one that is a minimum, one that is
overwritten. Two histories say what a property may not hold: `recycled`, the handlers
that had a node when it was last given out, with their connections, and `evicted`,
the connections that lost their row to another's.

**EventFilter** is `EventFilter::matches`, beside `Asked`, what the options ask for, and
`IsFiltered`, which says that one sequence is another without what is not asked for.

**EventLoop** is what the consumer promises: each turn of the drain is one step.
A `ctrl_c` future exists only while `select!` waits. `Crash` is what may happen to
any process.

**Startup** is `main` up to the loop, step by step, in an environment that decides
which steps fail, and which processes map a libssl (`users`), some of them by a path
that the sensor does not have (`hidden`). The last step is the header line, which
panics when standard output is broken. The rule of aya 0.13 that a program can be
loaded once is external.

**Sensor** is the daemon: `Startup`, then the loop with the steps inside a turn
(take, count and filter, the four reads under `/proc`, print, release the slot),
with processes that start, end and reuse pids between any two, and a standard output
that breaks at any time. Three things panic once an event is enriched (`Panic`): a
container id that cannot be cut at byte 12, in either format; a command line that
cannot be cut at byte 80, in the pretty one; a `println!` that cannot write.
`SelectCtrlC` and `SelectSleep` are separate actions of one fair step. Its `Loop` is the
refinement mapping to `EventLoop`: start-up is a select that goes on, an item
under way is not yet counted, a panic or a failed start-up is a crash, and a
Ctrl+C that ends start-up is one that was heard.

The `map` of `PROJECT.json` gives the lines of each definition. Definitions that
start with `Mut` are altered forms of the definition that follows them: each
shows that a property notices the slip it stands for, and nothing else uses them.

## 3. Runs

Each run's cfg names its bounds. All make the limits small enough to be hit.

| Run | Question | Instance |
|---|---|---|
| `lifecycle` | Whose context does a thread see? What becomes of rows and events? Whose bytes are counted? | processes 1 to 3 and a thread of process 1 whose tid process 2 may be given, two alive at a time; 2 connections with one four-tuple, two four-tuples with one key, or two keys; 1 row, 1 ring slot, 1 entry in each other map; u32 modulo 2, counters saturate at 1; a send, a receive and an error that reads as bytes; clock to 2 |
| `probes` | Are RTT, window and retransmissions those of the connection? | 2 connections, destination ending in .6 or .7, three samples, one with an RTT that reads as zero; up to 4 retransmissions each, counters saturate at 3, sequence numbers that wrap |
| `tls` | Whose arguments, whose row? | 2 processes, 2 connections, 1 entry in each map, calls nested 2 deep; hello, request and response |
| `tls_parse` | What do the parsers find? | 8 hellos, 7 requests (two with a header that ends like Host, before or after it), 4 responses, with each field at its shortest, at its limit and past it, each passed in every length, 2 calls one after another; scratch of 37 bytes |
| `row_race` | What is lost when handlers interleave? | 2 CPUs, two connections connected and one accepted, 2 nodes; the more connections, the fewer sends and ACKs |
| `sensor` | Does the daemon keep the promise of `EventLoop`? | 8 environments: start-up fails at each kind of step in seven, and in one it does not, for the process to probe maps a libssl of its container; 2 processes with one pid, one after the other; 5 events of which 3 are submitted, for duration, port and sampling to reject; one process whose container id and command line cannot be cut, standard output that breaks; ring of 2; one Ctrl+C |
| `hash_collision`, `quality_key`, `ctrl_c`, `tls_attach`, `cloned_thread`, `stale_text` | What a comment or the README says and the code does not do | as above; `ctrl_c` on `EventLoop`, `cloned_thread` on `CausalChain` alone; `stale_text` with two requests |

Two connections are enough for one to inherit from the other whatever can be
inherited: a row, a four-tuple, a ring slot, a thread's entry. A third would repeat
that with the second. `row_race` alone has three, for there a connection that is
evicted may evict a third while a handler still has its first node. With one row and
one ring slot every insertion may evict and every close may find the ring full. Two
calls through one scratch buffer are enough for the second to read what the first
left. The proofs remove the bounds for the properties of section 5.

State constraints, each in its MC module:

* `TupleBound`: one of the two connections has the first four-tuple (the values are
  interchangeable up to which of them share a key).
* `NoReset`: nothing is explored beyond a RST, whose only effect is a field that the
  properties of these runs do not read.
* `ThreadsOrFlows` of `lifecycle` is three runs in one state space, which share its
  beginning: threads alone (`OnlyThreads`), one process with sends, a receive and
  whatever happens to rows (`OneProcess`), and processes 1 and 2 that exit and come
  anew while they connect, accept and receive (`TwoProcesses`). The causal map reads
  nothing of connections, and a row reads of threads only who made it.
* `FinishBound` of `lifecycle`: the kernel is done with a connection that is still held
  only if the other has its four-tuple, which is where it matters.
* `ProbesBound`: the thread stays, and either ACKs are seen with one congestion
  signal a row, or segments are sent again, all but one of them on one connection.
  The two kinds of probe write different fields; `LossAddsUp` and `ProbesExact` read
  those of the second, `QualityExact` and `EventRttOrdered` those of the first.
* `OneBufferEach` and `Callers` of the run `tls`: one connection writes its hello, the
  other its request; and either one process makes the calls, not nested
  (`OneCaller`), or both make nested ones over one connection (`TwoCallers`), or
  one thread calls while time passes (`SlowCaller`).
* `TrafficBound` of `row_race`: sends, ACKs and connections are four in all, so three
  sends and ACKs on one connection, one with three.

`MaxTime`, `MaxBytes`, `MaxMisread`, `MaxRetransmits`, `MaxNest`, `MaxCalls`,
`MaxSends`, `MaxAcks`, `MaxFlows` (of `Sensor`) and `MaxPresses` bound counters in
guards. Connections are symmetric in `lifecycle`, `probes`, `hash_collision` and
`quality_key`, CPUs, nodes and the connected connections in `row_race`. No run with a
liveness property uses symmetry or a constraint; the temporal properties of `lifecycle`
say what a step may do, and name no connection. A sampling rate of one, filters that
are off and events without retransmissions are not in the run `sensor`; the theorem
`SensorPrintsFiltered` covers them. Deadlock is not checked: a
host may have no thread, no connection and no event left, and a daemon may have
ended.

**Fairness.** `SensorSpec` has weak fairness of `SensorStep`, the disjunction of all
steps of the daemon: it is one thread that blocks nowhere but in `select!`, where
the sleep always ends. `EventLoop` has it of its parts: `SelectCtrlC \/ SelectSleep`
as *one* action, for `select!` picks at random and neither branch alone is
guaranteed, and each of the two steps of the drain, a plain loop. That the first
fairness yields the second is part of `ImplementsEventLoop`. Nothing is assumed of
the host, of producers or of the user. The probes have no fairness, for nothing
in them waits.

## 4. Where the code differs from what it says

Each of these is a run that violates one property:

1. `hash_collision`: two open connections to one server whose hashes agree in
   their upper halves share a row (`tcp_lifecycle.rs:44-45`).
2. `quality_key`: the quality and retransmission probes reach only connections
   whose destination address ends in .6 (`tcp_quality.rs:28`).
3. `ctrl_c`: `ctrl_c()` and the sleep are futures of one turn. When both are ready in
   one poll, `select!` may pick the sleep, and the future that has the signal is
   dropped unread; the handler is installed, so the process does not die either
   (`loader.rs:107`). A Ctrl+C during the drain is lost too, for no future is there
   to be told; the counterexample has the first case.
4. `tls_attach`: the TLS programs are loaded by `load_tls_programs` and again at each
   attach; the second load fails, and start-up with it (`tls_attach.rs:98`). Since
   `--tls` is on by default and cannot be turned off, the daemon reaches its loop
   only when it is told to probe processes none of which maps a libssl that the
   sensor has too, and then without any TLS probe: `RunsWithKprobesOnly`.
5. `cloned_thread`: threads made by `clone` get no context. It is stored under
   `<<tid, tid>>` and looked up under `<<tgid, tid>>` (`causal.rs:48`), while the
   comments say that a child of clone inherits its parent's chain.
6. `stale_text`: a shorter text leaves the end of a longer one behind it
   (`tls.rs:48-52`). The run shows the method, GETT after POST and GET; the SNI, the
   host and the path are copied in the same way.

These are in the models, and the passing runs are stated around them:

7. An error of `tcp_recvmsg` whose upper half of the register is zero is counted as
   some 4 GiB, a packet and a first byte received (`tcp_lifecycle.rs:387` reads an i64,
   where `tls.rs:412` reads an i32): `RecvNeverOvercounted` allows for it.
8. A connection that its peer ended keeps the words of its key until its process
   closes it, and a new one may have its four-tuple by then. Sends of the old one go
   to the new one's row, and the late `tcp_close` reports that row and removes it
   (`tcp_lifecycle.rs:205-213`): the second reason of `WrongRowsExplained`; `SentExact`
   leaves such pairs out (`Unshared`).
9. The reset probe writes `congestion_state_final`; the event always says
   `LocalClose` (`tcp_lifecycle.rs:322`, `:290`): `DerivedFields` of `FlowTypes`.
10. The fast-retransmission counter counts timeouts (`retransmit.rs:36-38`), and the
    one for timeouts every call of `tcp_retransmit_skb`: the actions of `Retransmit`.
    `LossAddsUp` and `ProbesExact` do not tell the two apart.
11. The first header whose name ends in `host` is taken for Host (`tls.rs:305-317`), as
    is one in the body when the request has none; `RequestShown` sets such requests
    apart (`misled`). A Host header without a space after its colon is not
    found, and one with two keeps the second; `HostHeaders` takes both as the code does.
12. `ssl_write_ts_ns` keeps the last write and `first_recv_ts_ns` the first read, so
    the response time of a second request comes out as zero (`tls.rs:489`). No
    property looks at it.
13. Strings of other processes' making, and the end of a reader, can end the daemon: a
    container id cut at byte 12 (`enricher.rs:143`) and a command line cut at byte 80
    (`printer.rs:113`) inside a character, and `println!` without a reader
    (`printer.rs:38`, `:237`, and the header line before the loop). `EndsForAReason`
    names them.

The properties of the passing runs are stated around these: `SentExact`,
`QualityExact` and others speak of connections whose key no other four-tuple has, and
whose four-tuple no connection had that was held at one time with it (`Unshared`), and, for the quality probes, reachable; `TlsDataIsOwn` of connections
whose opener made SSL calls over no other.

## 5. Proofs

All theorems are for every set of threads, connections, processes and events and
every capacity, from the assumptions named in the modules: thread names are pairs of
numbers (`TaskAssumption`), capacities and sizes are numbers (`BoundAssumption`,
`CapacityAssumption`, `WidthAssumption`), the words of a sample are u32s
(`SampleAssumption`), absent entries differ from present ones (`NoneAssumption`,
`NoCtxAssumption`, `TlsAssumption`), an event carries the pid of its process
(`SensorAssumption`), durations and chains of events are numbers
(`FilterAssumption`), CPUs are finitely many and RTTs lie between 0 and `u32::MAX`
(`RaceAssumption`), messages keep to their grammars (`ParseAssumption`).
`CausalTypeOK`, a part of `LifecycleTypeOK`, and the rest of that include the bounds on
clock and counters, which may be any number.

**TcpLifecycleProofs.** `CausalInv` is types, `KeysAreLeaders`, `RightOrAbsent`
and `ProcessInherits`. `KeysAreLeaders` is what makes it inductive: every entry
lives under a key with equal halves, so a non-leader has none, and an insertion
for a new thread can only replace the leftovers of a thread that is dead,
because `PidFree` keeps its tid from the live ones. `ContextStable` follows
from it step by step.

`LifecycleImplementsCausal` carries those theorems over.
`RecvCreditsOwnSocket` is inductive by itself with types: every entry to
`tcp_recvmsg` either replaces the thread's entry in `RECVMSG_SOCK` or finds the map
full *and* no entry of its own, for replacing always succeeds.
`RowsOfOpenConnections` and `SentExact` need `LifecycleInv`:

* `SharersOverlap`: a connection that is held has its four-tuple for itself, apart from
  those that `overlaps` names. It is what makes the row under the key of an open
  connection with an unshared key its own.
* `OpenFirst`: a connection that is not open yet sent nothing and had no row, so
  a new row may say that nothing was sent.
* `StrandedClosed`: an open connection's own row is not one left behind.
* `EventsOfClosed`: a connection with an event sends nothing more, so the event
  stays exact.

There is one lemma for each kind of step; `GoneInv` is shared by the ways a
connection can end.

**FlowReportProofs** and **TcpRowProofs.** The refinement rests on
`LifecycleInv` and `FatesFinal`: who is reported or stranded had a row, and who is
reported has none. `AdmitStep` maps an insertion, with all it evicts, to `Admit`;
`StrandStep` a row left behind to `Strand`, or to a stutter when it had been left
behind before; `EmitStep` a reported row to `Emit`; `OutboxTail` the consumer's
step to `Deliver`; `FateFrame` everything else to a stutter. Then
`EventsReportedOnce` of the probes is `ReportedOnce` of the abstract
specification (`FlowReportedOnce`) under the mapping.

`RowChange` sums up what any step can do to one row: keep it, let a
handler write to it, put a fresh row in its place for a connection that opens,
remove it. Three theorems need no more:

* `EventTimesOrdered`, with `TimesInv`: the times of a row lie between its start and
  now, so those of an event lie between start and close. It also carries the TLS
  time, for use below.
* `RowMonotone`, with `CountersInv`: a counter at most at its limit cannot be taken
  down by a saturating addition.

Two are about which connection a row is of, and use `SockChange`, what a step does to
the connections, and `RecvingOpen`: a thread is in `tcp_recvmsg` only over an open
connection.

* `RecvNeverOvercounted`, with `RecvInv`: by `RecvCreditsOwnSocket` the return finds
  the socket it read from, and by `SharersOverlap` that socket's row is the one found
  (`ReadsOwnRow`), so a row never gains more than its connection received and what
  its own errors were read as.
* `WrongRowsExplained`, with `TrackedRows`: under the key of a tracked open
  connection there is no row of another with its four-tuple, but for one it overlaps
  with.

**ProbesProofs.** `ProbeEffect` says that all probes of `tcp_quality.rs` and
`retransmit.rs` change one row and no map, so the lifecycle invariant survives
them (`ProbesKeepLifecycle`). `OrderInv` is `EventRttOrdered` and `LossAddsUp` of rows
as well as of events: for rows the least RTT may be the unset `u32::MAX`, and the
sum is compared after each of its three terms saturated. `ExactInv` is the equality of
row and history for `OwnRows`, those that only one connection writes to; it
needs that a connection that was never tracked has counted nothing, since a fresh
row says so.

**TlsProbeProofs.** `ArgsInv` is what `ArgsOfThisCall` needs to be inductive under
nesting: an entry is that of the *innermost call of that operation*, not of the
innermost call; the return removes it, and an enclosing call then finds none.
`ArgsLeakOnlyWhenKilled` is proved with it. `TlsReadyInLife` is `TimesInv` over the
steps of `TlsProbe`. `TextInv` is what `TlsDataIsOwn` needs: `TLS_THREAD_FLOW` leads a
thread name only to a key it opened a connection with, the arguments it left are of a
connection it made SSL calls over, and a row whose openers made them over its own
connection alone says of names, request and status nothing or its own. The probes of
`TcpLifecycle` write none of those fields (`TextFieldsKept`).

**SensorProofs.** `StartupInv` follows the two loops of start-up: how many kernel
probes are attached, and that one TLS program stays loaded from the first loop
into the second, which is why the second cannot attach. `SensorInv` adds the loop;
with it `SensorImplementsLoop` maps every step to a step of `EventLoop` or a
stutter. `TakenInOrder` is that nothing is lost or taken twice between ring and
printer. `HostInv`, one process to a pid at a time, gives `ProcessDataIsOwn`.
`EndInv` gives `EndsForAReason`, with the lemma that `Matches` implies `Asked` and what
the third and the fourth read can have shown.
`LimitInv` adds the bounds that `SensorTypeOK` states. `SensorPrintsFiltered` adds
to `TakenInOrder` that what is printed is what was taken, filtered, but for an item
under way. It rests on `MatchesAsked`, where the two forms of every filter meet: a
truncating division and a comparison in nanoseconds, a remainder and the absence of a
multiple. `IsFiltered` counts and places the events rather than computing the filtered
sequence with `SelectSeq`, a recursive definition about which nothing could be proved.

**RowRaceProofs.** The structure first: what a handler is doing suits its connection
(`HandlerInv`); which kinds of handlers can run on one connection at once
(`OverlapInv`); that a connection in use has its row unless that was evicted
(`StateInv`); and that a handler's node is the row of its connection as long as there is
one, while a handler that points to another's row is named by the node's history
(`PointerInv`). `OnlyAcksOutliveRows` follows. On it rests what the
rows say: `SentAt` and `MinAt` strengthen `SentUnlessRaced` and `MinUnlessRaced` by what a
handler has loaded and not stored yet, `CopyAt` says what a close has copied so far, and
`EventInv` what is submitted. The proofs go handler by handler; a step on one node leaves
the rest alone (`SentFrame`, `MinFrame`, `CopyFrame`). The attempt at
`OnlyAcksOutliveRows` showed that an earlier form of the history was wrong with three
connections, one more than the run had then: it named no connections, and so took a
handler whose own row had been evicted for one whose row had not.

**TlsParseProofs.** `ParseInv` says of each text of a row (`TextHeld`) that it starts
with the last that was said, is as long as the longest, is followed by zeros, and ends
before its array does; of the host that it does so unless some request was misleading,
and otherwise only that it ends (`HostEnded`); and of the status that it is what the
last digits said. The rest is about one call.
`HelloCut`: a hello that is cut short is refused, since its record length
exceeds what was passed. `HelloPlaces`: read through `len` and the scratch area, the
blocks of a whole hello are where its grammar has them. `StartsAre`: the walk
reaches the extensions one by one; the recursive function `ExtStart` is first shown to
have a value at all (`StartsExist`), by a least counterexample over its finite domain.
`SniIs` puts them together. `RequestIs` does the same for method, path and host,
`StatusIs` for the status. `CopyLays` and `LaidOver` say that copying over a text that ends
leaves a text that ends, and `LaidShows` that the accessor returns it. No byte of an
earlier buffer counts, because every lemma about a message reads it below `len` only.

**Only model-checked:** `EventsAreReceived` and the fairness part of
`ImplementsEventLoop`, which are liveness. Every other property of a passing run is
stated by a theorem. The six violations need no proof.

## 6. Abstractions

* A handler is atomic everywhere but in `RowRace`. What atomicity hides is bounded
  there: `SentUnlessRaced`, `MinUnlessRaced` and `EventUnlessRaced` say that the
  values the other modules prove exact are exact unless named handlers met on one row
  or a row's node was given out under one.
* A read of a live kernel object succeeds. Where one fails the code either returns
  before it changes a map or goes on with zero (`unwrap_or(0)`, `retransmit.rs:58-60`,
  `tcp_quality.rs:77`, `causal.rs:46`); the models show neither. Reads of user memory
  do fail (`UpdateThreadRow`).
* A thread is in `tcp_recvmsg` or in user space; sends and closes do not
  involve the thread's entries and so carry no thread. An exec by a non-leader,
  which renames the thread, is left out.
* A four-tuple names one *hashed* connection at a time (`TupleFree`): IPv4 within
  one network namespace. One that the kernel is done with keeps the words of its key
  until its process closes it, beside a new one of the same four-tuple. The key reads
  nothing of an IPv6 address or of a namespace.
* `RowRace` has connect, accept, send, ACK and close. The timer and the TLS return
  probes, which can hold a pointer to a row beyond its life as ACKs do, are not in it,
  so `OnlyAcksOutliveRows` says nothing of them.
* Which register half an error of `tcp_recvmsg` leaves is the kernel compiler's choice
  for each return: both are possible at each.
* Standard output that breaks stays broken, as a closed pipe does.
* Time is a counter that may stand still between steps and starts at 1, as
  `bpf_ktime_get_ns` is never 0 when the probes run.
* u32 and u64 limits are constants (`U32Max`, `U64Max`, `U32Size`); `depth` wraps as
  in a release build. The limits of the parsers are constants too. Texts of a row are
  numbers outside `TlsParse`, with 0 for an empty one.
* Left out of rows: uid, gid, comm (copied, never compared), ppid and cgroup
  (never filled); of contexts, `origin_ts_ns` (never read).
* The ring's capacity is in events. `item.len()` is never short of an event,
  since only `FlowEvent` is submitted.
* What the enricher reads under `/proc` is known by whose it is; the printer by
  whether it panics.

## 7. Not modelled

* What the enricher parses out of the files it read, its guesses from address and
  port, and the printer's formatting: functions of one event, without state.
* `kread.rs`: wrappers of one helper each.
* The stub of the daemon for other systems, which emits one constant event, and
  `find_interesting_processes`, whose result is only logged.
* `RETRANSMIT_EVENTS`, `QUALITY_EVENTS`, `TLS_EVENTS` and `CONFIG`, declared and never
  used.
* IPv6 and network namespaces (`tcp_lifecycle.rs:38`).

Worth doing next: the causal theorems carried on to `Retransmit`, failed kernel reads as
outcomes of the quality probes, and malformed hellos in `TlsParse`.

## 8. Running

    tlc -config MCTcpLifecycle.cfg MCTcpLifecycle.tla
    tlapm TcpRowProofs.tla

Each cfg goes with the module named in `PROJECT.json`. No run takes more than
about half a minute with two workers; the proofs take some minutes together.

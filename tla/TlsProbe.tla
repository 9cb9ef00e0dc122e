------------------------------ MODULE TlsProbe ------------------------------
(***************************************************************************)
(* The probes of flow-sensor-ebpf/src/tls.rs on SSL_write and SSL_read of  *)
(* libssl.  The entry probe leaves the arguments of the call under the     *)
(* name of the thread; the return probe takes them, finds a row through    *)
(* TLS_THREAD_FLOW, and writes into it what its parsers found in the       *)
(* buffer.                                                                 *)
(*                                                                         *)
(* A buffer is known by what the parsers find in it (TlsParse has the      *)
(* parsers), and by the connection its text is about: Text gives each      *)
(* connection a name of its own.  A thread may call SSL_write inside an    *)
(* SSL_write (TLS in TLS), and may be killed inside a call.                *)
(*                                                                         *)
(* opened, sslUsed and killed are history: no probe reads them.            *)
(***************************************************************************)
EXTENDS TcpLifecycle, SequencesExt

CONSTANTS
  Text,      \* [Sock -> Nat]: what SNI, request and status of a connection say
  Written,   \* what an SSL_write may pass: subset of WriteBuffer
  Received,  \* what an SSL_read may return: subset of ReadBuffer
  MaxArgs,   \* max_entries of SSL_WRITE_ARGS and of SSL_READ_ARGS
  MaxNest,   \* bound on SSL calls of a thread inside each other
  NoArgs     \* no entry

WriteBuffer == {"hello", "nameless_hello", "request", "other"}
ReadBuffer == {"response", "other"}
Op == {"write", "read"}

\* A call of SSL_write or SSL_read by its arguments: the connection, what the
\* buffer holds at the return, and the time of the entry.
SslCall == [op : Op, sock : Sock, buf : WriteBuffer \cup ReadBuffer, ts_ns : 1..MaxTime]

ASSUME TlsAssumption ==
  /\ Text \in [Sock -> Nat \ {0}]
  /\ Written \subseteq WriteBuffer /\ Received \subseteq ReadBuffer
  /\ MaxArgs \in Nat /\ MaxNest \in Nat
  /\ NoArgs \notin SslCall

VARIABLES
  sslCalls,  \* the SSL calls a thread is inside, the innermost last
  sslArgs,   \* SSL_WRITE_ARGS and SSL_READ_ARGS
  opened,    \* connections opened by a thread of that name
  sslUsed,   \* connections that a thread of that name made SSL calls over
  killed     \* names of threads that ended inside an SSL call

sslVars == <<sslCalls, sslArgs, opened, sslUsed, killed>>
tlsVars == <<lifecycleVars, sslVars>>

TlsInit ==
  /\ LifecycleInit
  /\ sslCalls = [t \in Task |-> <<>>]
  /\ sslArgs = [op \in Op |-> [t \in Task |-> NoArgs]]
  /\ opened = [t \in Task |-> {}]
  /\ sslUsed = [t \in Task |-> {}]
  /\ killed = {}

-----------------------------------------------------------------------------
(* Entry.                                                                  *)

InCall(t, op) == sslCalls[t] # <<>> /\ Last(sslCalls[t]).op = op

\* The insertion of ssl_write_entry and of ssl_read_entry.  Its error ends
\* the handler, which has nothing left to do.
MutSaveOnlyFirst(t, call) ==
  IF sslArgs[call.op][t] = NoArgs /\ Fits(sslArgs[call.op], NoArgs, MaxArgs, t)
  THEN sslArgs' = [sslArgs EXCEPT ![call.op][t] = call]
  ELSE UNCHANGED sslArgs
SaveArgs(t, call) ==
  IF Fits(sslArgs[call.op], NoArgs, MaxArgs, t)
  THEN sslArgs' = [sslArgs EXCEPT ![call.op][t] = call]
  ELSE UNCHANGED sslArgs

SslEntry(t, call) ==
  /\ Idle(t)
  /\ sockState[call.sock] = "open"
  /\ call.ts_ns = now
  /\ Len(sslCalls[t]) < MaxNest
  /\ sslCalls' = [sslCalls EXCEPT ![t] = Append(@, call)]
  /\ sslUsed' = [sslUsed EXCEPT ![t] = @ \cup {call.sock}]
  /\ SaveArgs(t, call)
  /\ UNCHANGED <<lifecycleVars, opened, killed>>

SslWriteEntry(t, s, buf) ==
  SslEntry(t, [op |-> "write", sock |-> s, buf |-> buf, ts_ns |-> now])

SslReadEntry(t, s, buf) ==
  SslEntry(t, [op |-> "read", sock |-> s, buf |-> buf, ts_ns |-> now])

-----------------------------------------------------------------------------
(* Return.                                                                 *)

Leave(t) == sslCalls' = [sslCalls EXCEPT ![t] = Front(@)]

RemoveArgs(t, op) == sslArgs' = [sslArgs EXCEPT ![op][t] = NoArgs]

\* The result is an error or no byte.
MutFailureKeepsArgs(t, op) ==
  /\ InCall(t, op)
  /\ Leave(t)
  /\ UNCHANGED <<sslArgs, lifecycleVars, opened, sslUsed, killed>>
SslReturnFailed(t, op) ==
  /\ InCall(t, op)
  /\ Leave(t)
  /\ RemoveArgs(t, op)
  /\ UNCHANGED <<lifecycleVars, opened, sslUsed, killed>>

SslReturnFrame ==
  UNCHANGED <<kernelVars, causalVars, tlsThreadFlow, recvmsgSock, flowEvents,
              historyVars, opened, sslUsed, killed>>

\* What ssl_write_return makes of a row.
MutReadyAtEntry(st, call) ==
  LET tls == call.buf \in {"hello", "nameless_hello"}
      http == call.buf = "request"
      text == Text[call.sock]
  IN [st EXCEPT
        !.tls_sni = IF call.buf = "hello" THEN text ELSE @,
        !.http_method = IF http THEN text ELSE @,
        !.http_host = IF http THEN text ELSE @,
        !.http_path = IF http THEN text ELSE @,
        !.has_tls = IF tls THEN 1 ELSE @,
        !.tls_ready_ts_ns = IF tls /\ @ = 0 THEN call.ts_ns ELSE @,
        !.has_http = IF http THEN 1 ELSE @,
        !.ssl_write_ts_ns = IF tls \/ http THEN call.ts_ns ELSE @]
RowWritten(st, call) ==
  LET tls == call.buf \in {"hello", "nameless_hello"}
      http == call.buf = "request"
      text == Text[call.sock]
  IN [st EXCEPT
        !.tls_sni = IF call.buf = "hello" THEN text ELSE @,
        !.http_method = IF http THEN text ELSE @,
        !.http_host = IF http THEN text ELSE @,
        !.http_path = IF http THEN text ELSE @,
        !.has_tls = IF tls THEN 1 ELSE @,
        !.tls_ready_ts_ns = IF tls /\ @ = 0 THEN now ELSE @,
        !.has_http = IF http THEN 1 ELSE @,
        !.ssl_write_ts_ns = IF tls \/ http THEN call.ts_ns ELSE @]

\* What ssl_read_return makes of a row.
RowRead(st, call) ==
  [st EXCEPT !.http_status = IF call.buf = "response" THEN Text[call.sock] ELSE @]

RowAfter(st, call) == IF call.op = "write" THEN RowWritten(st, call) ELSE RowRead(st, call)

\* The row of the connection that TLS_THREAD_FLOW names, unless there is none,
\* the arguments are gone, or the buffer cannot be read.
MutMakesRow(t, call) ==
  \/ /\ call # NoArgs
     /\ tlsThreadFlow[t] # NoKey
     /\ LET k == tlsThreadFlow[t]
            st == IF k \in Rows THEN flowTable[k] ELSE EMPTY_FLOW_STATE
        IN flowTable' = [flowTable EXCEPT ![k] = RowAfter(st, call)]
  \/ UNCHANGED flowTable
UpdateThreadRow(t, call) ==
  \/ /\ call # NoArgs
     /\ tlsThreadFlow[t] # NoKey
     /\ UpdateRow(tlsThreadFlow[t], RowAfter(flowTable[tlsThreadFlow[t]], call))
  \/ UNCHANGED flowTable

SslWriteReturn(t) ==
  /\ InCall(t, "write")
  /\ Leave(t)
  /\ RemoveArgs(t, "write")
  /\ UpdateThreadRow(t, sslArgs["write"][t])
  /\ SslReturnFrame

SslReadReturn(t) ==
  /\ InCall(t, "read")
  /\ Leave(t)
  /\ RemoveArgs(t, "read")
  /\ UpdateThreadRow(t, sslArgs["read"][t])
  /\ SslReturnFrame

-----------------------------------------------------------------------------
TlsStep ==
  \E t \in Task :
    \/ \E s \in Sock :
         \/ \E buf \in Written : SslWriteEntry(t, s, buf)
         \/ \E buf \in Received : SslReadEntry(t, s, buf)
    \/ \E op \in Op : SslReturnFailed(t, op)
    \/ SslWriteReturn(t)
    \/ SslReadReturn(t)

\* A step that opens connection s.
Opens(s) == sockState[s] = "new" /\ sockState'[s] = "open"

\* The steps of TcpLifecycle.  A thread that exits leaves its SSL calls, and
\* their arguments stay in the maps.
OtherStep ==
  /\ \/ \E t \in Task, s \in Sock :
          /\ TcpConnect(t, s)
          /\ opened' = [opened EXCEPT ![t] = @ \cup {s}]
     \/ LifecycleNext /\ (\A s \in Sock : ~ Opens(s)) /\ UNCHANGED opened
  /\ sslCalls' = [t \in Task |-> IF t \in alive' THEN sslCalls[t] ELSE <<>>]
  /\ killed' = killed \cup {t \in Task \ alive' : sslCalls[t] # <<>>}
  /\ UNCHANGED <<sslArgs, sslUsed>>

TlsNext == TlsStep \/ OtherStep

TlsSpec == TlsInit /\ [][TlsNext]_tlsVars

-----------------------------------------------------------------------------
(* Properties.                                                             *)

\* A row that a return probe writes to is a row that a connection made.
TlsTypeOK ==
  /\ LifecycleTypeOK
  /\ sslCalls \in [Task -> Seq(SslCall)]
  /\ \A t \in Task : Len(sslCalls[t]) <= MaxNest /\ (t \notin alive => sslCalls[t] = <<>>)
  /\ sslArgs \in [Op -> [Task -> SslCall \cup {NoArgs}]]
  /\ opened \in [Task -> SUBSET Sock]
  /\ sslUsed \in [Task -> SUBSET Sock]
  /\ killed \subseteq Task

\* The arguments that a return probe takes are those of the call that
\* returns, or there are none: never those that an enclosing call, or an
\* earlier thread of the same name, left there (tls.rs:401 against
\* tls.rs:421-425, and the same for SSL_read).
ArgsOfThisCall ==
  \A t \in Task, op \in Op :
    (InCall(t, op) /\ sslArgs[op][t] # NoArgs) => sslArgs[op][t] = Last(sslCalls[t])

\* The 4096 entries are given back: what stays in a map belongs to a thread
\* inside a call, or to a name whose thread was killed inside one
\* (tls.rs:417, 425, 529, 537).
ArgsLeakOnlyWhenKilled ==
  \A t \in Task, op \in Op :
    sslArgs[op][t] # NoArgs =>
      (\E i \in DOMAIN sslCalls[t] : sslCalls[t][i].op = op) \/ t \in killed

\* Threads whose SSL calls may be credited to the row of key k.
OpenersOf(k) == {t \in Task : \E s \in opened[t] : Key(s) = k}

\* The names, the request and the status in a row are those of its own
\* connection, unless a thread name that once opened a connection with this
\* key made SSL calls over another one: TLS_THREAD_FLOW outlives thread and
\* connection (tcp_lifecycle.rs:91, tls.rs:427).  An accepted connection on
\* a key that was never opened from here has none at all.
TlsDataIsOwn ==
  \A k \in Rows :
    (\A t \in OpenersOf(k) : sslUsed[t] \subseteq {owner[k]}) =>
      \A f \in {"tls_sni", "http_method", "http_host", "http_path", "http_status"} :
        flowTable[k][f] \in {0} \cup (IF OpenersOf(k) = {} THEN {} ELSE {Text[owner[k]]})

\* TLS is ready within the life of the connection that the row is of, however
\* late the call that shows it returns, and so the handshake is no longer
\* than the connection (tls.rs:477-482, tcp_lifecycle.rs:278-282).
TlsReadyInLife ==
  /\ \A k \in Rows :
       LET st == flowTable[k] IN
       /\ st.has_tls = 1 <=> st.tls_ready_ts_ns # 0
       /\ st.has_tls = 1 => st.connect_ts_ns <= st.tls_ready_ts_ns /\ st.tls_ready_ts_ns <= now
  /\ \A i \in DOMAIN flowEvents :
       flowEvents[i].event.tls_handshake_ns <= flowEvents[i].event.duration_ns
=============================================================================

------------------------------ MODULE Startup ------------------------------
(***************************************************************************)
(* The start of the sensor: main of flow-sensor/src/main.rs,               *)
(* load_and_attach of loader.rs and attach_tls_probes of tls_attach.rs.    *)
(* It ends at the first step that fails, and when the process goes its     *)
(* programs are detached.                                                  *)
(*                                                                         *)
(* The switch --tls is on by default and nothing on the command line turns *)
(* it off.  A program of aya 0.13 can be loaded once: load fails when it   *)
(* already is.                                                             *)
(***************************************************************************)
EXTENDS Integers, Sequences

CONSTANTS
  Environment,  \* the systems and command lines it is started with
  Output        \* --output

\* root: started by root.  object: the BPF object is there and valid, and so
\* are (tls_object) its TLS programs.  missing: kernel functions that cannot
\* be probed.  libssl: one is installed.  tls_pids: --tls-pids.  users:
\* processes that map libssl; hidden: those that map one by a path that the
\* sensor does not have: of another mount namespace, or of a deleted file.
ASSUME EnvironmentAssumption ==
  \A env \in Environment :
    /\ {env.root, env.object, env.tls_object, env.libssl} \subseteq BOOLEAN
    /\ env.tls_pids \in Seq(Nat) /\ env.users \subseteq Nat /\ env.hidden \subseteq Nat
    /\ env.missing \subseteq STRING

VARIABLES
  env,       \* the environment of this start
  stage,     \* what start-up does next, or how it ended
  next,      \* how far it is in a loop
  loaded,    \* programs that were loaded
  attached,  \* what is attached: <<program, to what>>
  broken     \* what is written to standard output fails: its reader is gone

startupVars == <<env, stage, next, loaded, attached>>

\* Program and kernel function.
ATTACH ==
  <<<<"tcp_connect", "tcp_connect">>, <<"inet_csk_accept", "inet_csk_accept">>,
    <<"tcp_close", "tcp_close">>, <<"tcp_send_active_reset", "tcp_send_active_reset">>,
    <<"tcp_sendmsg", "tcp_sendmsg">>, <<"tcp_recvmsg_entry", "tcp_recvmsg">>,
    <<"tcp_recvmsg", "tcp_recvmsg">>, <<"tcp_rcv_established", "tcp_rcv_established">>,
    <<"tcp_enter_cwr", "tcp_enter_cwr">>, <<"tcp_enter_loss", "tcp_enter_loss">>,
    <<"tcp_enter_recovery", "tcp_enter_recovery">>,
    <<"tcp_retransmit_skb", "tcp_retransmit_skb">>,
    <<"tcp_send_loss_probe", "tcp_send_loss_probe">>,
    <<"tcp_fast_retransmit", "tcp_retransmit_timer">>,
    <<"tcp_sacktag", "tcp_sacktag_write_queue">>,
    <<"on_new_task", "wake_up_new_task">>, <<"on_exit", "do_exit">>>>

TLS_EBPF_PROGRAMS ==
  <<"ssl_write_entry", "ssl_write_return", "ssl_read_entry", "ssl_read_return">>

SystemWide == 0
Starting == {"root", "object", "kprobes", "tls_object", "tls_load", "tls_attach", "header"}
Ended == {"failed", "killed"}

StartupInit ==
  /\ env \in Environment
  /\ stage = "root"
  /\ next = 1
  /\ loaded = {}
  /\ attached = {}
  /\ broken = FALSE

-----------------------------------------------------------------------------
Fail ==
  /\ stage' = "failed"
  /\ attached' = {}
  /\ UNCHANGED <<env, next, loaded>>

Proceed(to) == stage' = to /\ next' = 1

CheckRoot ==
  /\ stage = "root"
  /\ IF env.root
     THEN Proceed("object") /\ UNCHANGED <<env, loaded, attached>>
     ELSE Fail

\* The object is read and its maps are made.
LoadObject ==
  /\ stage = "object"
  /\ IF env.object
     THEN Proceed("kprobes") /\ UNCHANGED <<env, loaded, attached>>
     ELSE Fail

\* attach_kprobe, once for every entry of ATTACH; then the ring is taken.
MutSkipMissingFunction ==
  /\ stage = "kprobes"
  /\ LET prog == ATTACH[next][1]
         fn == ATTACH[next][2]
     IN /\ loaded' = loaded \cup {prog}
        /\ attached' = IF fn \in env.missing THEN attached ELSE attached \cup {<<prog, fn>>}
        /\ IF next < Len(ATTACH)
           THEN next' = next + 1 /\ UNCHANGED stage
           ELSE Proceed("tls_object")
        /\ UNCHANGED env
AttachKprobe ==
  /\ stage = "kprobes"
  /\ LET prog == ATTACH[next][1]
         fn == ATTACH[next][2]
     IN IF prog \in loaded \/ fn \in env.missing
        THEN Fail
        ELSE /\ loaded' = loaded \cup {prog}
             /\ attached' = attached \cup {<<prog, fn>>}
             /\ IF next < Len(ATTACH)
                THEN next' = next + 1 /\ UNCHANGED stage
                ELSE Proceed("tls_object")
             /\ UNCHANGED env

\* assert_tls_programs_non_empty_elf
CheckTlsObject ==
  /\ stage = "tls_object"
  /\ IF env.tls_object
     THEN Proceed("tls_load") /\ UNCHANGED <<env, loaded, attached>>
     ELSE Fail

\* load_tls_programs
LoadTlsProgram ==
  /\ stage = "tls_load"
  /\ loaded' = loaded \cup {TLS_EBPF_PROGRAMS[next]}
  /\ IF next < Len(TLS_EBPF_PROGRAMS)
     THEN next' = next + 1 /\ UNCHANGED stage
     ELSE Proceed("tls_attach")
  /\ UNCHANGED <<env, attached>>

\* attach_ssl_symbol for the four programs, each loaded again first.
AttachTo(target, to) ==
  IF \E i \in DOMAIN TLS_EBPF_PROGRAMS : TLS_EBPF_PROGRAMS[i] \in loaded
  THEN Fail
  ELSE /\ loaded' = loaded \cup {TLS_EBPF_PROGRAMS[i] : i \in DOMAIN TLS_EBPF_PROGRAMS}
       /\ attached' = attached \cup
            {<<TLS_EBPF_PROGRAMS[i], target>> : i \in DOMAIN TLS_EBPF_PROGRAMS}
       /\ stage' = to
       /\ next' = next + 1
       /\ UNCHANGED env

\* find_libssl, by ldconfig or the usual paths, and find_libssl_for_pid, by
\* what the process maps, if the sensor has that path too.
FindLibssl == env.libssl
FindLibsslForPid(pid) == pid \in env.users \ env.hidden

\* A process of --tls-pids: its own libssl, or none and a warning.
AttachTlsToPid ==
  /\ stage = "tls_attach"
  /\ next <= Len(env.tls_pids)
  /\ IF FindLibsslForPid(env.tls_pids[next])
     THEN AttachTo(env.tls_pids[next], "tls_attach")
     ELSE next' = next + 1 /\ UNCHANGED <<env, stage, loaded, attached>>

AttachTlsSystemWide ==
  /\ stage = "tls_attach"
  /\ env.tls_pids = <<>>
  /\ IF FindLibssl THEN AttachTo(SystemWide, "header") ELSE Fail

TlsPidsEnd ==
  /\ stage = "tls_attach"
  /\ env.tls_pids # <<>> /\ next > Len(env.tls_pids)
  /\ Proceed("header")
  /\ UNCHANGED <<env, loaded, attached>>

\* print_header, and on to event_loop: println! panics when it cannot write.
StartLoop ==
  /\ stage = "header"
  /\ IF Output = "pretty" /\ broken
     THEN Fail
     ELSE Proceed("run") /\ UNCHANGED <<env, loaded, attached>>

\* SIGINT before the loop listens for it ends the process.
Killed ==
  /\ stage \in Starting
  /\ stage' = "killed"
  /\ attached' = {}
  /\ UNCHANGED <<env, next, loaded>>

StartupStep ==
  \/ CheckRoot
  \/ LoadObject
  \/ AttachKprobe
  \/ CheckTlsObject
  \/ LoadTlsProgram
  \/ AttachTlsToPid
  \/ AttachTlsSystemWide
  \/ TlsPidsEnd
  \/ StartLoop

-----------------------------------------------------------------------------
(* Properties.                                                             *)

StartupTypeOK ==
  /\ env \in Environment
  /\ stage \in Starting \cup Ended \cup {"run"}
  /\ next \in Nat \ {0} /\ broken \in BOOLEAN
  /\ loaded \subseteq {ATTACH[i][1] : i \in DOMAIN ATTACH}
                      \cup {TLS_EBPF_PROGRAMS[i] : i \in DOMAIN TLS_EBPF_PROGRAMS}

\* A sensor that runs has every kernel probe, and no TLS probe: it came so far
\* because it was told to probe processes none of which maps a libssl that the
\* sensor has too (loader.rs:83, tls_attach.rs:146-152, 219 and 98).  A process
\* in a container may be one of these: it is passed by with a warning.
RunsWithKprobesOnly ==
  stage = "run" =>
    /\ attached = {ATTACH[i] : i \in DOMAIN ATTACH}
    /\ env.tls_pids # <<>>
    /\ \A i \in DOMAIN env.tls_pids : env.tls_pids[i] \notin env.users \ env.hidden

\* tls_attach.rs:126: "If `pids` is empty → system-wide attachment (all
\* processes using that `libssl` path)".  With all it needs in place, start-up
\* does not fail.
AttachesSystemWide ==
  (stage = "failed" /\ env.tls_pids = <<>>) =>
    \/ ~ (env.root /\ env.object /\ env.tls_object /\ env.libssl)
    \/ env.missing # {}
=============================================================================

----------------------------- MODULE Supervisor -----------------------------
(***************************************************************************)
(* The life of one usque_tunnel: usque_tunnel_new, the reconnect loop of   *)
(* usque_tunnel_run with the steps of run_connection (src/tunnel.cpp), and *)
(* the threads or signal handlers that call usque_tunnel_stop while it     *)
(* runs.  What happens inside one event loop is EventLoop's subject; here  *)
(* the loop only waits for stop_async.                                     *)
(*                                                                         *)
(* A resource is tracked twice: live counts the objects that exist in the  *)
(* process, held says whether a field of usque_tunnel or of its QuicEngine *)
(* refers to one.  An object that is live and no longer held has leaked.   *)
(* For "route" the object is one usque_route_setup that is still owed its  *)
(* usque_route_cleanup.                                                    *)
(*                                                                         *)
(* A definition named <action>_<slip> is the action with a slip a change   *)
(* of the code could make; it is no part of Next.                          *)
(***************************************************************************)
EXTENDS Integers

CONSTANTS Callers,      \* threads and handlers that call usque_tunnel_stop
          AutoRoute,    \* cfg.tun.auto_route
          MaxFailures,  \* bound: failed connection attempts of a behaviour
          MaxStops      \* bound: calls of usque_tunnel_stop in a behaviour

ASSUME SupervisorAssumption ==
  /\ AutoRoute \in BOOLEAN
  /\ MaxFailures \in Nat
  /\ MaxStops \in Nat

VARIABLES
  pc,         \* where the thread that owns the tunnel is
  running,    \* t->running
  live,       \* objects of each kind that exist
  held,       \* kinds a non-null field refers to
  watch,      \* libuv state of udp_poll, tun_poll and quic_timer
  misuse,     \* watchers initialised again while the loop still lists them
  stopAsync,  \* stop_async has a wake-up pending (uv_async_send coalesces)
  caller,     \* how far each caller is in usque_tunnel_stop
  failures,   \* attempts that ended before their event loop
  stops,      \* wake-ups sent by usque_tunnel_stop
  exits       \* times uv_run returned

vars == <<pc, running, live, held, watch, misuse, stopAsync, caller,
          failures, stops, exits>>

Resources == {"tun", "dns", "sock", "route", "conn", "ssl"}
Watchers  == {"udp_poll", "tun_poll", "quic_timer"}

Phases == {"none", "idle", "create", "socket", "connect", "route", "setup",
           "watch", "start", "loop", "exit", "teardown", "release", "delay",
           "returned", "destroyed", "aborted"}

TypeOK ==
  /\ pc \in Phases
  /\ running \in BOOLEAN
  /\ live \in [Resources -> Nat]
  /\ held \in SUBSET Resources
  /\ watch \in [Watchers -> {"uninit", "active", "stopped", "closing"}]
  /\ misuse \in SUBSET Watchers
  /\ stopAsync \in BOOLEAN
  /\ caller \in [Callers -> {"out", "flagged"}]
  /\ failures \in Nat
  /\ stops \in Nat
  /\ exits \in Nat

Init ==
  /\ pc = "none"
  /\ running = FALSE
  /\ live = [r \in Resources |-> 0]
  /\ held = {}
  /\ watch = [w \in Watchers |-> "uninit"]
  /\ misuse = {}
  /\ stopAsync = FALSE
  /\ caller = [c \in Callers |-> "out"]
  /\ failures = 0
  /\ stops = 0
  /\ exits = 0

-----------------------------------------------------------------------------
(* Helpers: the fields an attempt assigns and clears.                      *)

\* Create one object of each kind in S and store it in its field.  A field
\* that still referred to an object is overwritten without freeing it.
Acquire(S) ==
  /\ live' = [r \in Resources |-> IF r \in S THEN live[r] + 1 ELSE live[r]]
  /\ held' = held \cup S

Release_always(S) ==
  /\ live' = [r \in Resources |-> IF r \in S THEN live[r] - 1 ELSE live[r]]
  /\ held' = held \ S

\* Free what the fields in S refer to and clear them.
Release(S) ==
  /\ live' = [r \in Resources |-> IF r \in S \cap held THEN live[r] - 1
                                                      ELSE live[r]]
  /\ held' = held \ S

\* The early returns of run_connection: give up what the branch frees.
Fail(S) ==
  /\ failures < MaxFailures
  /\ failures' = failures + 1
  /\ Release(S)
  /\ pc' = "delay"

loopVars == <<watch, misuse, stopAsync, caller, stops, exits>>

-----------------------------------------------------------------------------
(* usque_tunnel_new and usque_tunnel_destroy.                              *)

\* A failing tls_context_create destroys the half-built tunnel: no step.
New ==
  /\ pc = "none"
  /\ pc' = "idle"
  /\ UNCHANGED <<running, live, held, failures, loopVars>>

\* The caller owns the tunnel exclusively: no stop call is in flight.
\* ~QuicEngine runs its cleanup; dns_hj and tun are not looked at.
Destroy ==
  /\ pc \in {"idle", "returned"}
  /\ \A c \in Callers : caller[c] = "out"
  /\ pc' = "destroyed"
  /\ Release({"conn", "ssl"})
  /\ stopAsync' = FALSE
  /\ UNCHANGED <<running, watch, misuse, caller, failures, stops, exits>>

-----------------------------------------------------------------------------
(* run_connection, up to the event loop.                                   *)

Run ==
  /\ pc = "idle"
  /\ pc' = "create"
  /\ UNCHANGED <<running, live, held, failures, loopVars>>

\* usque_tun_create, then usque_dns_hijack_create, whose calloc may fail.
TunCreate ==
  /\ pc = "create"
  /\ \/ Fail({})
     \/ /\ Acquire({"tun", "dns"})
        /\ pc' = "socket"
        /\ UNCHANGED failures
     \/ /\ live' = [live EXCEPT !["tun"] = @ + 1]
        /\ held' = (held \cup {"tun"}) \ {"dns"}
        /\ pc' = "socket"
        /\ UNCHANGED failures
  /\ UNCHANGED <<running, loopVars>>

OpenSocket_keepTun ==
  /\ pc = "socket"
  /\ \/ Fail({})
     \/ Acquire({"sock"}) /\ pc' = "connect" /\ UNCHANGED failures
  /\ UNCHANGED <<running, loopVars>>

OpenSocket ==
  /\ pc = "socket"
  /\ \/ Fail({"tun"})
     \/ Acquire({"sock"}) /\ pc' = "connect" /\ UNCHANGED failures
  /\ UNCHANGED <<running, loopVars>>

Connect_breakOut ==
  /\ pc = "connect"
  /\ \/ Fail({"tun", "sock"})
     \/ Release({"sock", "tun"}) /\ pc' = "returned" /\ UNCHANGED failures
     \/ pc' = "route" /\ UNCHANGED <<live, held, failures>>
  /\ UNCHANGED <<running, loopVars>>

\* Binding to the physical NIC and the pre-noise burst touch no state here.
Connect ==
  /\ pc = "connect"
  /\ \/ Fail({"sock", "tun"})
     \/ pc' = "route" /\ UNCHANGED <<live, held, failures>>
  /\ UNCHANGED <<running, loopVars>>

\* The result of usque_route_setup is only printed.
RouteSetup ==
  /\ pc = "route"
  /\ IF AutoRoute THEN Acquire({"route"}) ELSE UNCHANGED <<live, held>>
  /\ pc' = "setup"
  /\ UNCHANGED <<running, failures, loopVars>>

\* engine.setup: ngtcp2_conn_client_new fails, or tls_create_session fails
\* with engine.conn already set, or both succeed.  The error branch of
\* run_connection closes the socket and destroys the TUN device, no more.
EngineSetup ==
  /\ pc = "setup"
  /\ \/ Fail({"sock", "tun"})
     \/ /\ failures < MaxFailures
        /\ failures' = failures + 1
        /\ live' = [live EXCEPT !["conn"] = @ + 1, !["sock"] = @ - 1,
                                !["tun"] = @ - 1]
        /\ held' = (held \cup {"conn"}) \ {"sock", "tun", "ssl"}
        /\ pc' = "delay"
     \/ Acquire({"conn", "ssl"}) /\ pc' = "watch" /\ UNCHANGED failures
  /\ UNCHANGED <<running, loopVars>>

StartWatchers_early ==
  /\ pc \in {"route", "watch"}
  /\ watch' = [w \in Watchers |-> "active"]
  /\ misuse' = misuse \cup {w \in Watchers : watch[w] # "uninit"}
  /\ pc' = IF pc = "route" THEN "setup" ELSE "start"
  /\ UNCHANGED <<running, live, held, stopAsync, caller, failures, stops,
                 exits>>

\* uv_poll_init twice, uv_timer_init, update_timer, first on_write.  A
\* watcher of an earlier attempt was never closed, or is still closing.
StartWatchers ==
  /\ pc = "watch"
  /\ watch' = [w \in Watchers |-> "active"]
  /\ misuse' = misuse \cup {w \in Watchers : watch[w] # "uninit"}
  /\ pc' = "start"
  /\ UNCHANGED <<running, live, held, stopAsync, caller, failures, stops,
                 exits>>

StartLoop_dropStop ==
  /\ pc = "start"
  /\ running' = TRUE
  /\ stopAsync' = FALSE
  /\ pc' = "loop"
  /\ UNCHANGED <<live, held, failures, watch, misuse, caller, stops, exits>>

StartLoop ==
  /\ pc = "start"
  /\ running' = TRUE
  /\ pc' = "loop"
  /\ UNCHANGED <<live, held, failures, loopVars>>

-----------------------------------------------------------------------------
(* The event loop, and run_connection after it.                            *)

on_stop_keepPending ==
  /\ pc = "loop"
  /\ stopAsync
  /\ running' = FALSE
  /\ exits' = exits + 1
  /\ pc' = "exit"
  /\ UNCHANGED <<stopAsync, live, held, watch, misuse, caller, failures,
                 stops>>

\* on_stop: the only caller of uv_stop, and stop_async keeps the loop alive,
\* so this is the only way out of uv_run.
on_stop ==
  /\ pc = "loop"
  /\ stopAsync
  /\ stopAsync' = FALSE
  /\ running' = FALSE
  /\ exits' = exits + 1
  /\ pc' = "exit"
  /\ UNCHANGED <<live, held, watch, misuse, caller, failures, stops>>

\* A timer initialised again while libuv was closing it: the pending close
\* reaches an assertion of libuv, or an NDEBUG build carries on.
Abort ==
  /\ pc = "loop"
  /\ "quic_timer" \in misuse
  /\ pc' = "aborted"
  /\ UNCHANGED <<running, live, held, failures, loopVars>>

StopWatchers_late ==
  /\ pc = "exit"
  /\ Release({"conn", "ssl", "sock"})
  /\ pc' = "teardown"
  /\ UNCHANGED <<running, failures, loopVars>>

\* Polls are stopped and not closed; uv_close of the timer takes effect
\* only in a later iteration of the loop.
StopWatchers ==
  /\ pc = "exit"
  /\ watch' = [w \in Watchers |->
                 IF w = "quic_timer" THEN "closing" ELSE "stopped"]
  /\ pc' = "teardown"
  /\ UNCHANGED <<running, live, held, misuse, stopAsync, caller, failures,
                 stops, exits>>

\* engine.cleanup and close_socket.
EngineCleanup ==
  /\ pc = "teardown"
  /\ Release({"conn", "ssl", "sock"})
  /\ pc' = "release"
  /\ UNCHANGED <<running, failures, loopVars>>

FinishAttempt_keepDns ==
  /\ pc = "release"
  /\ Release({"tun"} \cup (IF AutoRoute THEN {"route"} ELSE {}))
  /\ pc' = IF running THEN "returned" ELSE "delay"
  /\ UNCHANGED <<running, failures, loopVars>>

\* usque_route_cleanup, usque_dns_hijack_destroy, usque_tun_destroy, then
\* "return t->running ? 0 : -1", which usque_tunnel_run breaks on.
FinishAttempt ==
  /\ pc = "release"
  /\ Release({"dns", "tun"} \cup (IF AutoRoute THEN {"route"} ELSE {}))
  /\ pc' = IF running THEN "returned" ELSE "delay"
  /\ UNCHANGED <<running, failures, loopVars>>

\* nanosleep(reconnect_delay_ms), which a stop does not cut short.
Reconnect ==
  /\ pc = "delay"
  /\ pc' = "create"
  /\ UNCHANGED <<running, live, held, failures, loopVars>>

-----------------------------------------------------------------------------
(* usque_tunnel_stop: a plain store, then uv_async_send.                   *)

StopFlag(c) ==
  /\ pc \notin {"none", "destroyed", "aborted"}
  /\ caller[c] = "out"
  /\ stops < MaxStops
  /\ running' = FALSE
  /\ caller' = [caller EXCEPT ![c] = "flagged"]
  /\ UNCHANGED <<pc, live, held, watch, misuse, stopAsync, failures, stops,
                 exits>>

StopSend(c) ==
  /\ pc # "aborted"
  /\ caller[c] = "flagged"
  /\ stopAsync' = TRUE
  /\ stops' = stops + 1
  /\ caller' = [caller EXCEPT ![c] = "out"]
  /\ UNCHANGED <<pc, running, live, held, watch, misuse, failures, exits>>

-----------------------------------------------------------------------------
\* The thread inside usque_tunnel_run.
RunThread ==
  \/ TunCreate
  \/ OpenSocket
  \/ Connect
  \/ RouteSetup
  \/ EngineSetup
  \/ StartWatchers
  \/ StartLoop
  \/ on_stop
  \/ StopWatchers
  \/ EngineCleanup
  \/ FinishAttempt
  \/ Reconnect

Next ==
  \/ New
  \/ Destroy
  \/ Run
  \/ RunThread
  \/ Abort
  \/ \E c \in Callers : StopFlag(c) \/ StopSend(c)

\* A thread inside usque_tunnel_run and a caller inside usque_tunnel_stop go
\* on; nobody has to call New, Run, Destroy or usque_tunnel_stop.
Fairness ==
  /\ WF_vars(RunThread)
  /\ \A c \in Callers : WF_vars(StopSend(c))

Spec == Init /\ [][Next]_vars

FairSpec == Spec /\ Fairness

-----------------------------------------------------------------------------
(* Properties.                                                             *)

One(r) == IF r \in held THEN 1 ELSE 0

\* Every TUN device, socket and TLS session that exists is the one its field
\* refers to: none is lost on any path through run_connection, and two
\* attempts never own one at the same time.
NoDescriptorLeak ==
  \A r \in {"tun", "sock", "ssl"} : live[r] = One(r)

\* What does leak is paid for by failed attempts: an attempt that reached its
\* event loop gives back its DNS context, its QUIC connection and its route
\* set-up, so a process that reconnects after good connections does not grow.
LeakPaidByFailures ==
  \A r \in {"dns", "conn", "route"} : live[r] - One(r) <= failures

\* A watcher that can call back finds what its callback dereferences: the
\* UDP poll an open socket, the TUN poll a TUN device, the QUIC timer a
\* connection and its TLS session.
WatchersServed ==
  /\ watch["udp_poll"] = "active" => "sock" \in held
  /\ watch["tun_poll"] = "active" => "tun" \in held
  /\ watch["quic_timer"] = "active" => {"conn", "ssl"} \subseteq held

\* Retries that fail early never touch a libuv handle: a handle is initialised
\* a second time only after some event loop has been left.
HandlesSoundUntilExit == exits = 0 => misuse = {}

\* Every exit of the event loop uses up a stop request of its own.
ExitNeedsStop == exits + (IF stopAsync THEN 1 ELSE 0) <= stops

\* t->running is FALSE from the exit of the event loop to the statement that
\* tests it, so run_connection always returns -1.
ExitFlagClear == pc \in {"exit", "teardown", "release"} => ~running

\* The "break" of usque_tunnel_run is unreachable: however often it is asked
\* to stop, the run loop goes on to the next attempt.
NeverReturns == pc # "returned"

\* A stop request is never lost, in whatever phase it arrives: although
\* run_connection overwrites t->running, a call begun before, during or
\* between attempts makes the run loop leave an event loop.
StopHeard ==
  \A c \in Callers :
    caller[c] = "flagged" /\ pc # "idle" ~> pc \in {"exit", "aborted"}

\* include/usque/tunnel.h: usque_tunnel_run "Blocks until usque_tunnel_stop()
\* is called or a fatal error occurs": a stop request ends it.
StopEndsRun ==
  \A c \in Callers :
    caller[c] = "flagged" /\ pc # "idle" ~> pc \in {"returned", "aborted"}
=============================================================================

---------------------------- MODULE WintunReader ----------------------------
(***************************************************************************)
(* The TUN device of a Windows build: usque_tun_create and                 *)
(* usque_tun_destroy (src/tun/tun_windows.c) with what each stage holds,   *)
(* and the reader thread that run_connection (src/tunnel.cpp) starts for   *)
(* an attempt, which turns the session's read event into wake-ups of       *)
(* tun_async, against the event loop that drains the session's ring.       *)
(*                                                                         *)
(* External: wintun.dll sets the event, which resets itself when a wait    *)
(* returns, for every packet it puts into the ring.  uv_close takes effect *)
(* in a later iteration of the loop, which only the next attempt runs.     *)
(* tun_thread_running is a plain bool: as the reader calls into the system *)
(* between any two tests of it, a store reaches the next one.              *)
(*                                                                         *)
(* A definition named <action>_<slip> is the action with a slip a change   *)
(* of the code could make; it is no part of Next.                          *)
(***************************************************************************)
EXTENDS Naturals, FiniteSets

CONSTANTS MaxDevices,  \* bound: attempts to create the device
          MaxArrivals  \* bound: packets the host sends in a behaviour

\* What is asked of the constants; the composing MC module assumes it.
WintunAssumption == MaxDevices \in Nat /\ MaxArrivals \in Nat

VARIABLES
  main,      \* where run_connection is
  staged,    \* what usque_tun_create has acquired so far
  field,     \* t->tun is not null
  ring,      \* packets in the session's ring
  broken,    \* the ring is corrupt: every further read is an error
  event,     \* the read event is set
  flag,      \* t->tun_thread_running
  reader,    \* where tun_read_thread is
  handle,    \* libuv state of tun_async
  wake,      \* tun_async has a wake-up pending
  devices,   \* devices asked for so far
  arrivals   \* packets that came so far

vars == <<main, staged, field, ring, broken, event, flag, reader, handle,
          wake, devices, arrivals>>

Stages == <<"memory", "dll", "adapter", "session">>
Parts  == {Stages[k] : k \in 1 .. 4}

TypeOK ==
  /\ main \in {"delay", "create", "attempt", "start", "loop", "drain", "exit",
               "join", "close", "destroy"}
  /\ staged \subseteq Parts
  /\ {field, broken, event, flag, wake} \subseteq BOOLEAN
  /\ ring \in 0 .. MaxArrivals
  /\ reader \in {"none", "test", "wait", "signalled", "send"}
  /\ handle \in {"uninit", "open", "closing"}
  /\ devices \in 0 .. MaxDevices
  /\ arrivals \in 0 .. MaxArrivals

Init ==
  /\ main = "delay"
  /\ staged = {}
  /\ field = FALSE
  /\ ring = 0
  /\ broken = FALSE
  /\ event = FALSE
  /\ flag = FALSE
  /\ reader = "none"
  /\ handle = "uninit"
  /\ wake = FALSE
  /\ devices = 0
  /\ arrivals = 0

session == <<ring, broken, event>>
thread  == <<flag, reader>>
async   == <<handle, wake>>
counts  == <<devices, arrivals>>

-----------------------------------------------------------------------------
(* usque_tun_create and usque_tun_destroy.                                 *)

Connect ==
  /\ main = "delay"
  /\ devices < MaxDevices
  /\ devices' = devices + 1
  /\ main' = "create"
  /\ UNCHANGED <<staged, field, session, thread, async, arrivals>>

\* What the early return after k acquired parts frees, by hand.
EarlyReturn ==
  <<{}, {"memory"}, {"dll", "memory"}, {"adapter", "dll", "memory"},
    {"session", "adapter", "dll", "memory"}>>

\* calloc, LoadLibrary, CreateAdapter and StartSession in turn.
Stage ==
  /\ main = "create"
  /\ staged # Parts
  /\ staged' = staged \cup {Stages[Cardinality(staged) + 1]}
  /\ UNCHANGED <<main, field, session, thread, async, counts>>

\* A stage fails; with all parts there these are GetAdapterLUID and
\* configure_ip.
StageFails ==
  /\ main = "create"
  /\ staged' = staged \ EarlyReturn[Cardinality(staged) + 1]
  /\ main' = "delay"
  /\ ring' = 0 /\ broken' = FALSE /\ event' = FALSE
  /\ UNCHANGED <<field, thread, async, counts>>

Created ==
  /\ main = "create"
  /\ staged = Parts
  /\ field' = TRUE
  /\ main' = "attempt"
  /\ UNCHANGED <<staged, session, thread, async, counts>>

\* EndSession, CloseAdapter, FreeLibrary, free; t->tun = nullptr.
usque_tun_destroy ==
  /\ staged' = {}
  /\ field' = FALSE
  /\ main' = "delay"
  /\ ring' = 0 /\ broken' = FALSE /\ event' = FALSE

-----------------------------------------------------------------------------
(* run_connection around the event loop.                                   *)

\* The socket or the engine fails before there is a reader thread.
AttemptFails ==
  /\ main = "attempt"
  /\ usque_tun_destroy
  /\ UNCHANGED <<thread, async, counts>>

\* uv_async_init, on a handle that is still closing after an earlier attempt
\* (as the handles in Supervisor's misuse), and uv_thread_create, whose result
\* is not looked at.
StartReader ==
  /\ main = "attempt"
  /\ flag' = TRUE
  /\ handle' = "open"
  /\ reader' = "test"
  /\ main' = "loop"
  /\ UNCHANGED <<staged, field, session, wake, counts>>

\* on_stop: uv_run returns after the callbacks of this iteration.
LoopEnds ==
  /\ main = "loop"
  /\ main' = "exit"
  /\ UNCHANGED <<staged, field, session, thread, async, counts>>

ClearFlag ==
  /\ main = "exit"
  /\ flag' = FALSE
  /\ main' = "join"
  /\ UNCHANGED <<staged, field, session, reader, async, counts>>

Join_not ==
  /\ main = "join"
  /\ main' = "close"
  /\ UNCHANGED <<staged, field, session, thread, async, counts>>

\* uv_thread_join.
Join ==
  /\ main = "join"
  /\ reader = "none"
  /\ main' = "close"
  /\ UNCHANGED <<staged, field, session, thread, async, counts>>

\* uv_close without a callback; whether a wake-up that is still pending
\* reaches the handle of the next attempt is libuv's affair.
CloseAsync ==
  /\ main = "close"
  /\ handle' = "closing"
  /\ wake' \in {wake, FALSE}
  /\ main' = "destroy"
  /\ UNCHANGED <<staged, field, session, thread, counts>>

EndAttempt ==
  /\ main = "destroy"
  /\ usque_tun_destroy
  /\ UNCHANGED <<thread, async, counts>>

-----------------------------------------------------------------------------
(* tun_read_thread.                                                        *)

TestFlag ==
  /\ reader = "test"
  /\ reader' = IF flag THEN "wait" ELSE "none"
  /\ UNCHANGED <<main, staged, field, session, flag, async, counts>>

Wait_infinite ==
  /\ reader = "wait"
  /\ event
  /\ event' = FALSE
  /\ reader' = "signalled"
  /\ UNCHANGED <<main, staged, field, ring, broken, flag, async, counts>>

\* WaitForSingleObject: the event, which it resets, or 100 ms are over.
Wait ==
  /\ reader = "wait"
  /\ \/ event /\ event' = FALSE /\ reader' = "signalled"
     \/ ~event /\ reader' = "test" /\ UNCHANGED event
  /\ UNCHANGED <<main, staged, field, ring, broken, flag, async, counts>>

TestFlagAgain ==
  /\ reader = "signalled"
  /\ reader' = IF flag THEN "send" ELSE "test"
  /\ UNCHANGED <<main, staged, field, session, flag, async, counts>>

\* uv_async_send, which coalesces.
Send ==
  /\ reader = "send"
  /\ wake' = TRUE
  /\ reader' = "test"
  /\ UNCHANGED <<main, staged, field, session, flag, handle, counts>>

-----------------------------------------------------------------------------
(* on_tun_async, with usque_tun_read.                                      *)

WakeUp ==
  /\ main = "loop"
  /\ wake
  /\ wake' = FALSE
  /\ main' = "drain"
  /\ UNCHANGED <<staged, field, session, thread, handle, counts>>

Drain_one ==
  /\ main = "drain"
  /\ ring' = IF broken \/ ring = 0 THEN ring ELSE ring - 1
  /\ main' = "loop"
  /\ UNCHANGED <<staged, field, broken, event, thread, async, counts>>

\* One usque_tun_read of the loop; ERROR_NO_MORE_ITEMS and an error end it.
\* engine.send_packet and on_write change nothing here.
Drain ==
  /\ main = "drain"
  /\ IF broken \/ ring = 0
       THEN main' = "loop" /\ UNCHANGED ring
       ELSE ring' = ring - 1 /\ UNCHANGED main
  /\ UNCHANGED <<staged, field, broken, event, thread, async, counts>>

-----------------------------------------------------------------------------
(* The host and wintun.dll (external).                                     *)

Arrive ==
  /\ "session" \in staged
  /\ arrivals < MaxArrivals
  /\ arrivals' = arrivals + 1
  /\ ring' = ring + 1
  /\ event' = TRUE
  /\ UNCHANGED <<main, staged, field, broken, thread, async, devices>>

RingBreaks ==
  /\ "session" \in staged
  /\ ~broken
  /\ broken' = TRUE
  /\ UNCHANGED <<main, staged, field, ring, event, thread, async, counts>>

-----------------------------------------------------------------------------
EventLoop == WakeUp \/ Drain

MainThread ==
  \/ Connect \/ Stage \/ StageFails \/ Created \/ AttemptFails \/ StartReader
  \/ EventLoop
  \/ ClearFlag \/ Join \/ CloseAsync \/ EndAttempt

tun_read_thread == TestFlag \/ Wait \/ TestFlagAgain \/ Send

Next ==
  \/ MainThread
  \/ LoopEnds
  \/ tun_read_thread
  \/ Arrive
  \/ RingBreaks

\* Both threads run; nobody has to send packets or to stop the tunnel.
Fairness == WF_vars(MainThread) /\ WF_vars(tun_read_thread)

Spec == Init /\ [][Next]_vars /\ Fairness

-----------------------------------------------------------------------------
(* Properties.                                                             *)

\* Whatever stage of usque_tun_create fails, and however the reader's two tests
\* of the flag interleave with the end of an attempt: between attempts nothing
\* is held and no reader runs; while one runs, the device and its session with
\* the event it waits on are there, and tun_async is not closing when it calls
\* uv_async_send.
DeviceAccounted ==
  /\ main = "delay" => staged = {} /\ ~field /\ reader = "none"
  /\ reader # "none" => field /\ staged = Parts
  /\ reader = "send" => handle = "open"

\* Packets are not stranded in the ring, although the event and the wake-ups
\* coalesce and packets may come before the thread starts, while the loop
\* drains, and between its last read and the next wait.
RingDrained ==
  main \in {"loop", "drain"} /\ ring > 0 ~>
    ring = 0 \/ broken \/ main \notin {"loop", "drain"}

\* An attempt whose loop was left is over: the join waits for a thread that
\* leaves within one round, never for one that waits for the loop.
AttemptEnds == main = "exit" ~> main = "delay"
=============================================================================

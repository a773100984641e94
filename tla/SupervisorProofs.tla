-------------------------- MODULE SupervisorProofs --------------------------
(***************************************************************************)
(* Proofs about Supervisor for any set of callers and any bounds.  One     *)
(* inductive invariant, IInv, carries all of its safety properties: it     *)
(* says, phase by phase, what an attempt owns.                             *)
(***************************************************************************)
EXTENDS Supervisor, TLAPS

\* Phases in which the socket is the open one of the current attempt, ...
SockPhases == {"connect", "route", "setup", "watch", "start", "loop", "exit",
               "teardown", "aborted"}
\* ... in which the TUN device (and, if calloc gave one, the DNS context) is,
TunPhases == SockPhases \cup {"socket", "release"}
\* ... in which the engine is set up,
EnginePhases == {"watch", "start", "loop", "exit", "teardown", "aborted"}
\* ... after usque_route_setup and before usque_route_cleanup,
RoutePhases == EnginePhases \cup {"setup", "release"}
\* ... and in which a watcher may be active.
WatchPhases == {"start", "loop", "exit", "aborted"}

\* Nobody refers to an object that does not exist.
HeldIsLive == \A r \in Resources : r \in held => live[r] > 0

\* What an attempt owns follows from its phase alone.
OwnedByPhase ==
  /\ "tun" \in held <=> pc \in TunPhases
  /\ "sock" \in held <=> pc \in SockPhases
  /\ "ssl" \in held <=> pc \in EnginePhases
  /\ pc \in EnginePhases => "conn" \in held
  /\ ~AutoRoute => "route" \notin held

\* A reference that outlives its attempt is overwritten by the next one, so
\* between attempts it counts as leaked already.
Debt(r, S) == live[r] <= failures + (IF pc \in S THEN One(r) ELSE 0)

DebtPaid ==
  /\ Debt("dns", TunPhases)
  /\ Debt("conn", EnginePhases)
  /\ Debt("route", RoutePhases)

WatchedByPhase == \A w \in Watchers : watch[w] = "active" => pc \in WatchPhases

FreshUntilExit ==
  /\ pc \in {"exit", "teardown", "release"} => exits > 0
  /\ exits = 0 /\ pc \notin WatchPhases => \A w \in Watchers : watch[w] = "uninit"
  /\ exits = 0 => misuse = {}

IInv ==
  /\ TypeOK
  /\ HeldIsLive
  /\ OwnedByPhase
  /\ NoDescriptorLeak
  /\ DebtPaid
  /\ WatchedByPhase
  /\ FreshUntilExit
  /\ ExitNeedsStop
  /\ ExitFlagClear
  /\ NeverReturns
-----------------------------------------------------------------------------
(* Type correctness, together with HeldIsLive: freeing an object that does *)
(* not exist would take a count below zero.                                *)

Typed ==
  /\ live \in [Resources -> Nat]
  /\ held \in SUBSET Resources
  /\ HeldIsLive

\* The conjuncts of TypeOK about everything else.
RestTyped ==
  /\ pc \in Phases
  /\ running \in BOOLEAN
  /\ watch \in [Watchers -> {"uninit", "active", "stopped", "closing"}]
  /\ misuse \in SUBSET Watchers
  /\ stopAsync \in BOOLEAN
  /\ caller \in [Callers -> {"out", "flagged"}]
  /\ failures \in Nat
  /\ stops \in Nat
  /\ exits \in Nat

\* Storing new objects in the fields S keeps the bookkeeping typed: the
\* assignments of run_connection that fill a field.
LEMMA AcquireTyped ==
  ASSUME Typed, NEW S \in SUBSET Resources, Acquire(S)
  PROVE  Typed'
<1>1. live' \in [Resources -> Nat]
  BY DEF Typed, Acquire
<1>2. held' \in SUBSET Resources
  BY DEF Typed, Acquire
<1>3. ASSUME NEW r \in Resources, r \in held' PROVE live'[r] > 0
  BY <1>3 DEF Typed, HeldIsLive, Acquire
<1> QED
  BY <1>1, <1>2, <1>3 DEF Typed, HeldIsLive

\* So does freeing what the fields S refer to: its clean-up calls.
LEMMA ReleaseTyped ==
  ASSUME Typed, NEW S \in SUBSET Resources, Release(S)
  PROVE  Typed'
<1>1. live' \in [Resources -> Nat]
  <2>1. ASSUME NEW r \in Resources
        PROVE (IF r \in S \cap held THEN live[r] - 1 ELSE live[r]) \in Nat
    BY DEF Typed, HeldIsLive
  <2> QED
    BY <2>1 DEF Release
<1>2. held' \in SUBSET Resources
  BY DEF Typed, Release
<1>3. ASSUME NEW r \in Resources, r \in held' PROVE live'[r] > 0
  BY <1>3 DEF Typed, HeldIsLive, Release
<1> QED
  BY <1>1, <1>2, <1>3 DEF Typed, HeldIsLive
\* Every step leaves each variable in its range.
LEMMA TypeStep ==
  ASSUME TypeOK, HeldIsLive, OwnedByPhase, [Next]_vars
  PROVE  TypeOK' /\ HeldIsLive'
<1>0. RestTyped /\ Typed
  BY DEF TypeOK, RestTyped, Typed
<1> SUFFICES RestTyped' /\ Typed'
  BY DEF TypeOK, RestTyped, Typed
<1> DEFINE Same == UNCHANGED <<live, held>>
<1>s. Same => Typed'
  BY <1>0 DEF Typed, HeldIsLive
<1>1. CASE New
  <2>1. RestTyped'
    BY <1>0, <1>1 DEF RestTyped, Phases, New, loopVars
  <2> QED
    BY <1>s, <1>1, <2>1 DEF New, loopVars
<1>2. CASE Destroy
  <2>1. RestTyped'
    BY <1>0, <1>2 DEF RestTyped, Phases, Destroy
  <2>2. Release({"conn", "ssl"}) => Typed'
    BY <1>0, ReleaseTyped DEF Resources
  <2> QED
    BY <1>2, <2>1, <2>2 DEF Destroy
<1>3. CASE Run
  <2>1. RestTyped'
    BY <1>0, <1>3 DEF RestTyped, Phases, Run, loopVars
  <2> QED
    BY <1>s, <1>3, <2>1 DEF Run, loopVars
<1>4. CASE TunCreate
  <2>1. RestTyped'
    BY <1>0, <1>4 DEF RestTyped, Phases, TunCreate, loopVars, Fail
  <2>2. Release({}) => Typed'
    BY <1>0, ReleaseTyped DEF Resources
  <2>3. Acquire({"tun", "dns"}) => Typed'
    BY <1>0, AcquireTyped DEF Resources
  <2>4. ASSUME /\ live' = [live EXCEPT !["tun"] = @ + 1]
               /\ held' = (held \cup {"tun"}) \ {"dns"}
        PROVE  Typed'
    BY <1>0, <1>4, <2>4 DEF Typed, HeldIsLive, Resources
  <2> QED
    BY <1>4, <2>1, <2>2, <2>3, <2>4 DEF TunCreate, Fail
<1>5. CASE OpenSocket
  <2>1. RestTyped'
    BY <1>0, <1>5 DEF RestTyped, Phases, OpenSocket, loopVars, Fail
  <2>2. Release({"tun"}) => Typed'
    BY <1>0, ReleaseTyped DEF Resources
  <2>3. Acquire({"sock"}) => Typed'
    BY <1>0, AcquireTyped DEF Resources
  <2> QED
    BY <1>5, <2>1, <2>2, <2>3 DEF OpenSocket, Fail
<1>6. CASE Connect
  <2>1. RestTyped'
    BY <1>0, <1>6 DEF RestTyped, Phases, Connect, loopVars, Fail
  <2>2. Release({"sock", "tun"}) => Typed'
    BY <1>0, ReleaseTyped DEF Resources
  <2> QED
    BY <1>6, <2>1, <2>2, <1>s DEF Connect, Fail
<1>7. CASE RouteSetup
  <2>1. RestTyped'
    BY <1>0, <1>7 DEF RestTyped, Phases, RouteSetup, loopVars
  <2>2. Acquire({"route"}) => Typed'
    BY <1>0, AcquireTyped DEF Resources
  <2> QED
    BY <1>7, <2>1, <2>2, <1>s DEF RouteSetup
<1>8. CASE EngineSetup
  <2>1. RestTyped'
    BY <1>0, <1>8 DEF RestTyped, Phases, Watchers, EngineSetup, loopVars, Fail
  <2>2. Release({"sock", "tun"}) => Typed'
    BY <1>0, ReleaseTyped DEF Resources
  <2>3. ASSUME /\ live' = [live EXCEPT !["conn"] = @ + 1, !["sock"] = @ - 1,
                                     !["tun"] = @ - 1]
               /\ held' = (held \cup {"conn"}) \ {"sock", "tun", "ssl"}
        PROVE  Typed'
    BY <1>0, <1>8, <2>3 DEF Typed, HeldIsLive, Resources, EngineSetup, OwnedByPhase, SockPhases, TunPhases
  <2>4. Acquire({"conn", "ssl"}) => Typed'
    BY <1>0, AcquireTyped DEF Resources
  <2> QED
    BY <1>8, <2>1, <2>2, <2>3, <2>4 DEF EngineSetup, Fail
<1>9. CASE StartWatchers
  <2>1. RestTyped'
    BY <1>0, <1>9 DEF RestTyped, Phases, Watchers, StartWatchers
  <2> QED
    BY <1>s, <1>9, <2>1 DEF StartWatchers
<1>10. CASE StartLoop
  <2>1. RestTyped'
    BY <1>0, <1>10 DEF RestTyped, Phases, StartLoop, loopVars
  <2> QED
    BY <1>s, <1>10, <2>1 DEF StartLoop, loopVars
<1>11. CASE on_stop
  <2>0. exits' \in Nat /\ pc' \in Phases
    BY <1>0, <1>11 DEF RestTyped, Phases, on_stop
  <2>1. RestTyped'
    BY <1>0, <1>11, <2>0, Zenon DEF RestTyped, on_stop
  <2> QED
    BY <1>s, <1>11, <2>1 DEF on_stop
<1>12. CASE Abort
  <2>1. RestTyped'
    BY <1>0, <1>12 DEF RestTyped, Phases, Abort, loopVars
  <2> QED
    BY <1>s, <1>12, <2>1 DEF Abort, loopVars
<1>13. CASE StopWatchers
  <2>1. RestTyped'
    BY <1>0, <1>13 DEF RestTyped, Phases, Watchers, StopWatchers
  <2> QED
    BY <1>s, <1>13, <2>1 DEF StopWatchers
<1>14. CASE EngineCleanup
  <2>1. RestTyped'
    BY <1>0, <1>14 DEF RestTyped, Phases, EngineCleanup, loopVars
  <2>2. Release({"conn", "ssl", "sock"}) => Typed'
    BY <1>0, ReleaseTyped DEF Resources
  <2> QED
    BY <1>14, <2>1, <2>2 DEF EngineCleanup
<1>15. CASE FinishAttempt
  <2>1. RestTyped'
    BY <1>0, <1>15 DEF RestTyped, Phases, FinishAttempt, loopVars
  <2>2. Release({"dns", "tun"} \cup (IF AutoRoute THEN {"route"} ELSE {})) => Typed'
    BY <1>0, ReleaseTyped DEF Resources
  <2> QED
    BY <1>15, <2>1, <2>2 DEF FinishAttempt
<1>16. CASE Reconnect
  <2>1. RestTyped'
    BY <1>0, <1>16 DEF RestTyped, Phases, Reconnect, loopVars
  <2> QED
    BY <1>s, <1>16, <2>1 DEF Reconnect, loopVars
<1>17. ASSUME NEW c \in Callers, StopFlag(c)
       PROVE  RestTyped' /\ Typed'
  BY <1>0, <1>s, <1>17 DEF RestTyped, Phases, StopFlag
<1>18. ASSUME NEW c \in Callers, StopSend(c)
       PROVE  RestTyped' /\ Typed'
  BY <1>0, <1>s, <1>18 DEF RestTyped, Phases, StopSend
<1>19. CASE UNCHANGED vars
  BY <1>0, <1>s, <1>19 DEF RestTyped, vars
<1> QED
  BY <1>1, <1>2, <1>3, <1>4, <1>5, <1>6, <1>7, <1>8, <1>9, <1>10, <1>11, <1>12, <1>13, <1>14, <1>15, <1>16, <1>17, <1>18, <1>19
     DEF Next, RunThread

-----------------------------------------------------------------------------
(* Ownership: what the phase says an attempt owns is what its fields hold, *)
(* and no step loses an object that DebtPaid does not allow for.           *)

\* Every step keeps the books of the attempt right.
LEMMA ResourceStep ==
  ASSUME TypeOK, HeldIsLive, OwnedByPhase, NoDescriptorLeak, DebtPaid,
         [Next]_vars
  PROVE  OwnedByPhase' /\ NoDescriptorLeak' /\ DebtPaid'
<1> USE DEF TypeOK, Resources
<1>1. UNCHANGED <<live, held>> => NoDescriptorLeak'
  BY DEF NoDescriptorLeak, One
<1>2. CASE New
  <2>1. OwnedByPhase'
    BY <1>2, SupervisorAssumption DEF OwnedByPhase, SockPhases, TunPhases, EnginePhases, RoutePhases, New, loopVars
  <2>2. NoDescriptorLeak'
    BY <1>1, <1>2 DEF New, loopVars
  <2>3. DebtPaid'
    BY <1>2 DEF DebtPaid, Debt, One, OwnedByPhase, SockPhases, TunPhases, EnginePhases, RoutePhases, New, loopVars
  <2> QED
    BY <2>1, <2>2, <2>3
<1>3. CASE Destroy
  <2>1. OwnedByPhase'
    BY <1>3, SupervisorAssumption DEF OwnedByPhase, SockPhases, TunPhases, EnginePhases, RoutePhases, Destroy, Release
  <2>2. NoDescriptorLeak'
    BY <1>3 DEF NoDescriptorLeak, One, OwnedByPhase, SockPhases, TunPhases, EnginePhases, Destroy, Release
  <2>3. DebtPaid'
    BY <1>3 DEF DebtPaid, Debt, One, OwnedByPhase, SockPhases, TunPhases, EnginePhases, RoutePhases, Destroy, Release
  <2> QED
    BY <2>1, <2>2, <2>3
<1>4. CASE Run
  <2>1. OwnedByPhase'
    BY <1>4, SupervisorAssumption DEF OwnedByPhase, SockPhases, TunPhases, EnginePhases, RoutePhases, Run, loopVars
  <2>2. NoDescriptorLeak'
    BY <1>1, <1>4 DEF Run, loopVars
  <2>3. DebtPaid'
    BY <1>4 DEF DebtPaid, Debt, One, OwnedByPhase, SockPhases, TunPhases, EnginePhases, RoutePhases, Run, loopVars
  <2> QED
    BY <2>1, <2>2, <2>3
<1>5. CASE TunCreate
  <2>1. OwnedByPhase'
    BY <1>5, SupervisorAssumption DEF OwnedByPhase, SockPhases, TunPhases, EnginePhases, RoutePhases, TunCreate, loopVars, Fail, Acquire, Release
  <2>2. NoDescriptorLeak'
    BY <1>5 DEF NoDescriptorLeak, One, OwnedByPhase, SockPhases, TunPhases, EnginePhases, TunCreate, loopVars, Fail, Acquire, Release
  <2>3. DebtPaid'
    BY <1>5 DEF DebtPaid, Debt, One, OwnedByPhase, SockPhases, TunPhases, EnginePhases, RoutePhases, TunCreate, loopVars, Fail, Acquire, Release
  <2> QED
    BY <2>1, <2>2, <2>3
<1>6. CASE OpenSocket
  <2>1. OwnedByPhase'
    BY <1>6, SupervisorAssumption DEF OwnedByPhase, SockPhases, TunPhases, EnginePhases, RoutePhases, OpenSocket, loopVars, Fail, Acquire, Release
  <2>2. NoDescriptorLeak'
    BY <1>6 DEF NoDescriptorLeak, One, OwnedByPhase, SockPhases, TunPhases, EnginePhases, OpenSocket, loopVars, Fail, Acquire, Release
  <2>3. DebtPaid'
    BY <1>6 DEF DebtPaid, Debt, One, OwnedByPhase, SockPhases, TunPhases, EnginePhases, RoutePhases, OpenSocket, loopVars, Fail, Acquire, Release
  <2> QED
    BY <2>1, <2>2, <2>3
<1>7. CASE Connect
  <2>1. OwnedByPhase'
    BY <1>7, SupervisorAssumption DEF OwnedByPhase, SockPhases, TunPhases, EnginePhases, RoutePhases, Connect, loopVars, Fail, Release
  <2>2. NoDescriptorLeak'
    BY <1>7 DEF NoDescriptorLeak, One, OwnedByPhase, SockPhases, TunPhases, EnginePhases, Connect, loopVars, Fail, Release
  <2>3. DebtPaid'
    BY <1>7 DEF DebtPaid, Debt, One, OwnedByPhase, SockPhases, TunPhases, EnginePhases, RoutePhases, Connect, loopVars, Fail, Release
  <2> QED
    BY <2>1, <2>2, <2>3
<1>8. CASE RouteSetup
  <2>1. OwnedByPhase'
    BY <1>8, SupervisorAssumption DEF OwnedByPhase, SockPhases, TunPhases, EnginePhases, RoutePhases, RouteSetup, loopVars, Acquire
  <2>2. NoDescriptorLeak'
    BY <1>8 DEF NoDescriptorLeak, One, OwnedByPhase, SockPhases, TunPhases, EnginePhases, RouteSetup, loopVars, Acquire
  <2>3. DebtPaid'
    BY <1>8 DEF DebtPaid, Debt, One, OwnedByPhase, SockPhases, TunPhases, EnginePhases, RoutePhases, RouteSetup, loopVars, Acquire
  <2> QED
    BY <2>1, <2>2, <2>3
<1>9. CASE EngineSetup
  <2>1. OwnedByPhase'
    BY <1>9, SupervisorAssumption DEF OwnedByPhase, SockPhases, TunPhases, EnginePhases, RoutePhases, EngineSetup, loopVars, Fail, Acquire, Release
  <2>2. NoDescriptorLeak'
    BY <1>9 DEF NoDescriptorLeak, One, OwnedByPhase, SockPhases, TunPhases, EnginePhases, EngineSetup, loopVars, Fail, Acquire, Release
  <2>3. DebtPaid'
    BY <1>9 DEF DebtPaid, Debt, One, OwnedByPhase, SockPhases, TunPhases, EnginePhases, RoutePhases, EngineSetup, loopVars, Fail, Acquire, Release
  <2> QED
    BY <2>1, <2>2, <2>3
<1>10. CASE StartWatchers
  <2>1. OwnedByPhase'
    BY <1>10, SupervisorAssumption DEF OwnedByPhase, SockPhases, TunPhases, EnginePhases, RoutePhases, StartWatchers
  <2>2. NoDescriptorLeak'
    BY <1>1, <1>10 DEF StartWatchers
  <2>3. DebtPaid'
    BY <1>10 DEF DebtPaid, Debt, One, OwnedByPhase, SockPhases, TunPhases, EnginePhases, RoutePhases, StartWatchers
  <2> QED
    BY <2>1, <2>2, <2>3
<1>11. CASE StartLoop
  <2>1. OwnedByPhase'
    BY <1>11, SupervisorAssumption DEF OwnedByPhase, SockPhases, TunPhases, EnginePhases, RoutePhases, StartLoop, loopVars
  <2>2. NoDescriptorLeak'
    BY <1>1, <1>11 DEF StartLoop, loopVars
  <2>3. DebtPaid'
    BY <1>11 DEF DebtPaid, Debt, One, OwnedByPhase, SockPhases, TunPhases, EnginePhases, RoutePhases, StartLoop, loopVars
  <2> QED
    BY <2>1, <2>2, <2>3
<1>12. CASE on_stop
  <2>1. OwnedByPhase'
    BY <1>12, SupervisorAssumption DEF OwnedByPhase, SockPhases, TunPhases, EnginePhases, RoutePhases, on_stop
  <2>2. NoDescriptorLeak'
    BY <1>1, <1>12 DEF on_stop
  <2>3. DebtPaid'
    BY <1>12 DEF DebtPaid, Debt, One, OwnedByPhase, SockPhases, TunPhases, EnginePhases, RoutePhases, on_stop
  <2> QED
    BY <2>1, <2>2, <2>3
<1>13. CASE Abort
  <2>1. OwnedByPhase'
    BY <1>13, SupervisorAssumption DEF OwnedByPhase, SockPhases, TunPhases, EnginePhases, RoutePhases, Abort, loopVars
  <2>2. NoDescriptorLeak'
    BY <1>1, <1>13 DEF Abort, loopVars
  <2>3. DebtPaid'
    BY <1>13 DEF DebtPaid, Debt, One, OwnedByPhase, SockPhases, TunPhases, EnginePhases, RoutePhases, Abort, loopVars
  <2> QED
    BY <2>1, <2>2, <2>3
<1>14. CASE StopWatchers
  <2>1. OwnedByPhase'
    BY <1>14, SupervisorAssumption DEF OwnedByPhase, SockPhases, TunPhases, EnginePhases, RoutePhases, StopWatchers
  <2>2. NoDescriptorLeak'
    BY <1>1, <1>14 DEF StopWatchers
  <2>3. DebtPaid'
    BY <1>14 DEF DebtPaid, Debt, One, OwnedByPhase, SockPhases, TunPhases, EnginePhases, RoutePhases, StopWatchers
  <2> QED
    BY <2>1, <2>2, <2>3
<1>15. CASE EngineCleanup
  <2>1. OwnedByPhase'
    BY <1>15, SupervisorAssumption DEF OwnedByPhase, SockPhases, TunPhases, EnginePhases, RoutePhases, EngineCleanup, loopVars, Release
  <2>2. NoDescriptorLeak'
    BY <1>15 DEF NoDescriptorLeak, One, OwnedByPhase, SockPhases, TunPhases, EnginePhases, EngineCleanup, loopVars, Release
  <2>3. DebtPaid'
    BY <1>15 DEF DebtPaid, Debt, One, OwnedByPhase, SockPhases, TunPhases, EnginePhases, RoutePhases, EngineCleanup, loopVars, Release
  <2> QED
    BY <2>1, <2>2, <2>3
<1>16. CASE FinishAttempt
  <2>1. OwnedByPhase'
    BY <1>16, SupervisorAssumption DEF OwnedByPhase, SockPhases, TunPhases, EnginePhases, RoutePhases, FinishAttempt, loopVars, Release
  <2>2. NoDescriptorLeak'
    BY <1>16 DEF NoDescriptorLeak, One, OwnedByPhase, SockPhases, TunPhases, EnginePhases, FinishAttempt, loopVars, Release
  <2>3. DebtPaid'
    BY <1>16 DEF DebtPaid, Debt, One, OwnedByPhase, SockPhases, TunPhases, EnginePhases, RoutePhases, FinishAttempt, loopVars, Release
  <2> QED
    BY <2>1, <2>2, <2>3
<1>17. CASE Reconnect
  <2>1. OwnedByPhase'
    BY <1>17, SupervisorAssumption DEF OwnedByPhase, SockPhases, TunPhases, EnginePhases, RoutePhases, Reconnect, loopVars
  <2>2. NoDescriptorLeak'
    BY <1>1, <1>17 DEF Reconnect, loopVars
  <2>3. DebtPaid'
    BY <1>17 DEF DebtPaid, Debt, One, OwnedByPhase, SockPhases, TunPhases, EnginePhases, RoutePhases, Reconnect, loopVars
  <2> QED
    BY <2>1, <2>2, <2>3
<1>18. ASSUME NEW c \in Callers, StopFlag(c)
       PROVE  OwnedByPhase' /\ NoDescriptorLeak' /\ DebtPaid'
  BY <1>1, <1>18 DEF StopFlag, OwnedByPhase, DebtPaid, Debt, One
<1>19. ASSUME NEW c \in Callers, StopSend(c)
       PROVE  OwnedByPhase' /\ NoDescriptorLeak' /\ DebtPaid'
  BY <1>1, <1>19 DEF StopSend, OwnedByPhase, DebtPaid, Debt, One
<1>20. CASE UNCHANGED vars
  BY <1>1, <1>20 DEF vars, OwnedByPhase, DebtPaid, Debt, One
<1> QED
  BY <1>2, <1>3, <1>4, <1>5, <1>6, <1>7, <1>8, <1>9, <1>10, <1>11, <1>12, <1>13, <1>14, <1>15, <1>16, <1>17, <1>18, <1>19, <1>20
     DEF Next, RunThread

-----------------------------------------------------------------------------
(* Handles and stop requests.                                              *)

\* Every step keeps the watchers within their phases, and t->running FALSE
\* from the exit of the loop to the test that reads it.
LEMMA HandleStep ==
  ASSUME TypeOK, WatchedByPhase, FreshUntilExit, ExitNeedsStop, ExitFlagClear,
         NeverReturns, [Next]_vars
  PROVE  /\ WatchedByPhase' /\ FreshUntilExit'
         /\ ExitNeedsStop' /\ ExitFlagClear' /\ NeverReturns'
<1> USE DEF TypeOK, ExitNeedsStop, ExitFlagClear, NeverReturns
<1>1. CASE New
  <2>1. WatchedByPhase' /\ FreshUntilExit'
    BY <1>1 DEF WatchedByPhase, FreshUntilExit, WatchPhases, New, loopVars
  <2>2. ExitNeedsStop' /\ ExitFlagClear' /\ NeverReturns'
    BY <1>1 DEF New, loopVars
  <2> QED
    BY <2>1, <2>2
<1>2. CASE Destroy
  <2>1. WatchedByPhase' /\ FreshUntilExit'
    BY <1>2 DEF WatchedByPhase, FreshUntilExit, WatchPhases, Destroy
  <2>2. ExitNeedsStop' /\ ExitFlagClear' /\ NeverReturns'
    BY <1>2 DEF Destroy
  <2> QED
    BY <2>1, <2>2
<1>3. CASE Run
  <2>1. WatchedByPhase' /\ FreshUntilExit'
    BY <1>3 DEF WatchedByPhase, FreshUntilExit, WatchPhases, Run, loopVars
  <2>2. ExitNeedsStop' /\ ExitFlagClear' /\ NeverReturns'
    BY <1>3 DEF Run, loopVars
  <2> QED
    BY <2>1, <2>2
<1>4. CASE TunCreate
  <2>1. WatchedByPhase' /\ FreshUntilExit'
    BY <1>4 DEF WatchedByPhase, FreshUntilExit, WatchPhases, TunCreate, loopVars, Fail
  <2>2. ExitNeedsStop' /\ ExitFlagClear' /\ NeverReturns'
    BY <1>4 DEF TunCreate, loopVars, Fail
  <2> QED
    BY <2>1, <2>2
<1>5. CASE OpenSocket
  <2>1. WatchedByPhase' /\ FreshUntilExit'
    BY <1>5 DEF WatchedByPhase, FreshUntilExit, WatchPhases, OpenSocket, loopVars, Fail
  <2>2. ExitNeedsStop' /\ ExitFlagClear' /\ NeverReturns'
    BY <1>5 DEF OpenSocket, loopVars, Fail
  <2> QED
    BY <2>1, <2>2
<1>6. CASE Connect
  <2>1. WatchedByPhase' /\ FreshUntilExit'
    BY <1>6 DEF WatchedByPhase, FreshUntilExit, WatchPhases, Connect, loopVars, Fail
  <2>2. ExitNeedsStop' /\ ExitFlagClear' /\ NeverReturns'
    BY <1>6 DEF Connect, loopVars, Fail
  <2> QED
    BY <2>1, <2>2
<1>7. CASE RouteSetup
  <2>1. WatchedByPhase' /\ FreshUntilExit'
    BY <1>7 DEF WatchedByPhase, FreshUntilExit, WatchPhases, RouteSetup, loopVars
  <2>2. ExitNeedsStop' /\ ExitFlagClear' /\ NeverReturns'
    BY <1>7 DEF RouteSetup, loopVars
  <2> QED
    BY <2>1, <2>2
<1>8. CASE EngineSetup
  <2>1. WatchedByPhase' /\ FreshUntilExit'
    BY <1>8 DEF WatchedByPhase, FreshUntilExit, WatchPhases, EngineSetup, loopVars, Fail
  <2>2. ExitNeedsStop' /\ ExitFlagClear' /\ NeverReturns'
    BY <1>8 DEF EngineSetup, loopVars, Fail
  <2> QED
    BY <2>1, <2>2
<1>9. CASE StartWatchers
  <2>1. WatchedByPhase' /\ FreshUntilExit'
    BY <1>9 DEF WatchedByPhase, FreshUntilExit, WatchPhases, Watchers, StartWatchers
  <2>2. ExitNeedsStop' /\ ExitFlagClear' /\ NeverReturns'
    BY <1>9 DEF StartWatchers
  <2> QED
    BY <2>1, <2>2
<1>10. CASE StartLoop
  <2>1. WatchedByPhase' /\ FreshUntilExit'
    BY <1>10 DEF WatchedByPhase, FreshUntilExit, WatchPhases, StartLoop, loopVars
  <2>2. ExitNeedsStop' /\ ExitFlagClear' /\ NeverReturns'
    BY <1>10 DEF StartLoop, loopVars
  <2> QED
    BY <2>1, <2>2
<1>11. CASE on_stop
  <2>1. WatchedByPhase' /\ FreshUntilExit'
    BY <1>11 DEF WatchedByPhase, FreshUntilExit, WatchPhases, on_stop
  <2>2. ExitNeedsStop' /\ ExitFlagClear' /\ NeverReturns'
    BY <1>11 DEF on_stop
  <2> QED
    BY <2>1, <2>2
<1>12. CASE Abort
  <2>1. WatchedByPhase' /\ FreshUntilExit'
    BY <1>12 DEF WatchedByPhase, FreshUntilExit, WatchPhases, Abort, loopVars
  <2>2. ExitNeedsStop' /\ ExitFlagClear' /\ NeverReturns'
    BY <1>12 DEF Abort, loopVars
  <2> QED
    BY <2>1, <2>2
<1>13. CASE StopWatchers
  <2>1. WatchedByPhase' /\ FreshUntilExit'
    BY <1>13 DEF WatchedByPhase, FreshUntilExit, WatchPhases, Watchers, StopWatchers
  <2>2. ExitNeedsStop' /\ ExitFlagClear' /\ NeverReturns'
    BY <1>13 DEF StopWatchers
  <2> QED
    BY <2>1, <2>2
<1>14. CASE EngineCleanup
  <2>1. WatchedByPhase' /\ FreshUntilExit'
    BY <1>14 DEF WatchedByPhase, FreshUntilExit, WatchPhases, EngineCleanup, loopVars
  <2>2. ExitNeedsStop' /\ ExitFlagClear' /\ NeverReturns'
    BY <1>14 DEF EngineCleanup, loopVars
  <2> QED
    BY <2>1, <2>2
<1>15. CASE FinishAttempt
  <2>1. WatchedByPhase' /\ FreshUntilExit'
    BY <1>15 DEF WatchedByPhase, FreshUntilExit, WatchPhases, FinishAttempt, loopVars
  <2>2. ExitNeedsStop' /\ ExitFlagClear' /\ NeverReturns'
    BY <1>15 DEF FinishAttempt, loopVars
  <2> QED
    BY <2>1, <2>2
<1>16. CASE Reconnect
  <2>1. WatchedByPhase' /\ FreshUntilExit'
    BY <1>16 DEF WatchedByPhase, FreshUntilExit, WatchPhases, Reconnect, loopVars
  <2>2. ExitNeedsStop' /\ ExitFlagClear' /\ NeverReturns'
    BY <1>16 DEF Reconnect, loopVars
  <2> QED
    BY <2>1, <2>2
<1>17. ASSUME NEW c \in Callers, StopFlag(c)
       PROVE  /\ WatchedByPhase' /\ FreshUntilExit'
              /\ ExitNeedsStop' /\ ExitFlagClear' /\ NeverReturns'
  BY <1>17 DEF StopFlag, WatchedByPhase, FreshUntilExit
<1>18. ASSUME NEW c \in Callers, StopSend(c)
       PROVE  /\ WatchedByPhase' /\ FreshUntilExit'
              /\ ExitNeedsStop' /\ ExitFlagClear' /\ NeverReturns'
  BY <1>18 DEF StopSend, WatchedByPhase, FreshUntilExit
<1>19. CASE UNCHANGED vars
  BY <1>19 DEF vars, WatchedByPhase, FreshUntilExit
<1> QED
  BY <1>1, <1>2, <1>3, <1>4, <1>5, <1>6, <1>7, <1>8, <1>9, <1>10, <1>11, <1>12, <1>13, <1>14, <1>15, <1>16, <1>17, <1>18, <1>19
     DEF Next, RunThread

-----------------------------------------------------------------------------
(* The theorems.                                                           *)

\* A new tunnel satisfies the invariant.
LEMMA InitIInv == Init => IInv
<1> SUFFICES ASSUME Init PROVE IInv
  OBVIOUS
<1>1. TypeOK /\ HeldIsLive
  BY DEF Init, TypeOK, HeldIsLive, Phases
<1>2. OwnedByPhase /\ NoDescriptorLeak /\ DebtPaid
  BY DEF Init, OwnedByPhase, NoDescriptorLeak, DebtPaid, Debt, One, Resources,
         SockPhases, TunPhases, EnginePhases, RoutePhases
<1>3. WatchedByPhase /\ FreshUntilExit
  BY DEF Init, WatchedByPhase, FreshUntilExit
<1>4. ExitNeedsStop /\ ExitFlagClear /\ NeverReturns
  BY DEF Init, ExitNeedsStop, ExitFlagClear, NeverReturns
<1> QED
  BY <1>1, <1>2, <1>3, <1>4 DEF IInv

\* Every step of the run thread, of a caller and of the owner keeps it.
THEOREM IInvHolds == Spec => []IInv
<1>1. ASSUME IInv, [Next]_vars PROVE IInv'
  BY <1>1, TypeStep, ResourceStep, HandleStep DEF IInv
<1> QED
  BY <1>1, InitIInv, PTL DEF Spec

\* Each variable stays in its range: in particular no object is freed twice,
\* which would take its count below zero.
THEOREM TypeCorrect == Spec => []TypeOK
<1>1. IInv => TypeOK
  BY DEF IInv
<1> QED
  BY <1>1, IInvHolds, PTL

\* No TUN device, socket or TLS session is lost by any path through
\* run_connection, whatever fails and whenever a stop request arrives.
THEOREM DescriptorsKept == Spec => []NoDescriptorLeak
<1>1. IInv => NoDescriptorLeak
  BY DEF IInv
<1> QED
  BY <1>1, IInvHolds, PTL

\* The DNS contexts, connections and route set-ups that leak are bounded by
\* the failed attempts: DebtPaid counts a reference that outlived its attempt
\* as lost already.
THEOREM LeaksBounded == Spec => []LeakPaidByFailures
<1>1. IInv => LeakPaidByFailures
  BY DEF IInv, TypeOK, DebtPaid, Debt, One, LeakPaidByFailures, Resources
<1> QED
  BY <1>1, IInvHolds, PTL

\* An active watcher's callback finds the socket, the TUN device, the
\* connection and the TLS session it dereferences.
THEOREM CallbacksServed == Spec => []WatchersServed
<1>1. IInv => WatchersServed
  BY DEF IInv, WatchedByPhase, OwnedByPhase, WatchersServed, WatchPhases,
         SockPhases, TunPhases, EnginePhases, Watchers
<1> QED
  BY <1>1, IInvHolds, PTL

\* A libuv handle is initialised a second time only after an event loop has
\* been left.
THEOREM HandlesFresh == Spec => []HandlesSoundUntilExit
<1>1. IInv => HandlesSoundUntilExit
  BY DEF IInv, FreshUntilExit, HandlesSoundUntilExit
<1> QED
  BY <1>1, IInvHolds, PTL

\* An event loop is left only on a stop request of its own.
THEOREM ExitsArePaid == Spec => []ExitNeedsStop
<1>1. IInv => ExitNeedsStop
  BY DEF IInv
<1> QED
  BY <1>1, IInvHolds, PTL

\* run_connection always returns -1, and usque_tunnel_run never returns.
THEOREM RunNeverEnds == Spec => [](ExitFlagClear /\ NeverReturns)
<1>1. IInv => ExitFlagClear /\ NeverReturns
  BY DEF IInv
<1> QED
  BY <1>1, IInvHolds, PTL

=============================================================================

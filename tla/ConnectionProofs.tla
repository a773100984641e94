-------------------------- MODULE ConnectionProofs --------------------------
(***************************************************************************)
(* Proofs about MCConnection, which is EventLoop next to TlsSetup.  Each   *)
(* of the two has an inductive invariant of its own; a step of one leaves  *)
(* the other at rest.                                                      *)
(***************************************************************************)
EXTENDS MCConnection, Sequences, TLAPS

-----------------------------------------------------------------------------
(* EventLoop.                                                              *)

\* The request is submitted once, when the handshake is over; readiness comes
\* from an accepted one and stays; and the flag tells whether the burst was.
ReadyBehindRequest ==
  /\ quic = "handshake" => request = "none"
  /\ ready => request \in {"accepted", "closed"}
  /\ bursts = 0 \/ (bursts = 1 /\ post_noise_sent /\ ready)

\* Nothing is read before the loop runs, and what is read starts the timer.
TimerInv ==
  /\ loop = "starting" => ~heard
  /\ TimerStaysArmed

LoopInv == TypeOK /\ ReadyBehindRequest /\ TimerInv

\* A call into the engine leaves a deadline.
LEMMA ExpiryTyped ==
  \A q, u : ExpiryAfter(q, u) \in {"soon", "later"}
  BY DEF ExpiryAfter

\* Reading a datagram: any of them, whatever the engine makes of it.
LEMMA ReadStep ==
  ASSUME LoopInv, NEW m \in ToClient, on_udp_read(m)
  PROVE  LoopInv'
<1> USE DEF LoopInv
<1>1. /\ loop = "running" /\ heard' /\ back' = back \ {m}
      /\ expiry' \in {"soon", "later"} /\ armed' = expiry'
      /\ UNCHANGED <<post_noise_sent, bursts>>
  BY ExpiryTyped DEF on_udp_read, update_timer
<1>2. CASE ReadHandshake
  BY <1>1, <1>2 DEF ReadHandshake, SubmitConnect, Transmit, TypeOK, ToServer,
     ToClient, Deadlines, ReadyBehindRequest, TimerInv, TimerStaysArmed
<1>3. CASE ReadResponse(m)
  BY <1>1, <1>3 DEF ReadResponse, TypeOK, ToServer, ToClient, Deadlines,
     ReadyBehindRequest, TimerInv, TimerStaysArmed
<1>4. CASE ReadFin
  BY <1>1, <1>4 DEF ReadFin, TypeOK, ToServer, ToClient, Deadlines,
     ReadyBehindRequest, TimerInv, TimerStaysArmed
<1>5. CASE ReadAck
  BY <1>1, <1>5 DEF ReadAck, TypeOK, ToServer, ToClient, Deadlines,
     ReadyBehindRequest, TimerInv, TimerStaysArmed
<1>6. CASE ReadFails
  BY <1>1, <1>6 DEF ReadFails, TypeOK, ToServer, ToClient, Deadlines,
     ReadyBehindRequest, TimerInv, TimerStaysArmed
<1> QED
  BY <1>2, <1>3, <1>4, <1>5, <1>6 DEF on_udp_read, on_read

\* The timer's callback: the burst, and what is due.
LEMMA TimerStep ==
  ASSUME LoopInv, TimerFires
  PROVE  LoopInv'
<1> USE DEF LoopInv
<1>1. /\ loop = "running"
      /\ expiry' \in {"soon", "later"} /\ armed' = expiry'
      /\ UNCHANGED <<loop, request, ready, back, heard>>
  BY ExpiryTyped DEF TimerFires, update_timer
<1>2. /\ unacked' \in ToServer \cup {"nothing"}
      /\ post_noise_sent' \in BOOLEAN
      /\ bursts' \in 0 .. 2
      /\ bursts' = 0 \/ (bursts' = 1 /\ post_noise_sent' /\ ready)
  <2>1. CASE ready /\ ~post_noise_sent
    <3>1. Inject /\ bursts = 0
      BY <2>1 DEF TimerFires, PostNoise, ReadyBehindRequest
    <3>2. unacked' \in {unacked, "packet"}
      BY <3>1 DEF Inject
    <3> QED
      BY <2>1, <3>1, <3>2 DEF Inject, TypeOK, ToServer
  <2>2. CASE ~(ready /\ ~post_noise_sent)
    BY <2>2 DEF TimerFires, PostNoise, TypeOK, ReadyBehindRequest
  <2> QED
    BY <2>1, <2>2
<1>3. /\ quic' \in {"handshake", "up", "dead"}
      /\ quic' = "handshake" => quic = "handshake"
      /\ wire' \subseteq ToServer
  BY <1>2 DEF TimerFires, on_expiry, TypeOK
<1> QED
  BY <1>1, <1>2, <1>3 DEF TypeOK, Deadlines, ReadyBehindRequest, TimerInv,
     TimerStaysArmed

\* A step of EventLoop keeps its invariant.
LEMMA LoopStep ==
  ASSUME LoopInv, [Next]_vars
  PROVE  LoopInv'
<1> USE DEF LoopInv, TypeOK, ToServer, ToClient, Deadlines,
            ReadyBehindRequest, TimerInv, TimerStaysArmed
<1>1. CASE Start
  BY <1>1 DEF Start, Transmit
<1>2. CASE on_tun_read
  BY <1>2 DEF on_tun_read, Transmit
<1>3. CASE on_stop
  BY <1>3 DEF on_stop
<1>4. ASSUME NEW m \in ToServer, Serve(m) PROVE LoopInv'
  <2>1. PICK a \in Answers(m) : back' = back \cup {a}
    BY <1>4 DEF Serve
  <2>2. a \in ToClient
    BY DEF Answers
  <2> QED
    BY <1>4, <2>1, <2>2 DEF Serve, clientVars
<1>5. ASSUME NEW m \in ToServer, LoseToServer(m) PROVE LoopInv'
  BY <1>5 DEF LoseToServer, clientVars
<1>6. ASSUME NEW m \in ToClient, LoseToClient(m) PROVE LoopInv'
  BY <1>6 DEF LoseToClient, clientVars
<1>7. ASSUME NEW m \in {"fin", "close"}, ServerEnds(m) PROVE LoopInv'
  BY <1>7 DEF ServerEnds, clientVars
<1>8. CASE UNCHANGED vars
  BY <1>8 DEF vars
<1> QED
  BY <1>1, <1>2, <1>3, <1>4, <1>5, <1>6, <1>7, <1>8, ReadStep, TimerStep
     DEF Next

-----------------------------------------------------------------------------
(* TlsSetup.                                                               *)

\* What usque_tunnel_new holds before it has a context.
Begun == {<<"new", "tunnel">>, <<"tunnel", "loop">>, <<"tunnel", "backend">>}

From(n, k, R) == IF n <= k THEN R ELSE {}
Pinned        == IF pinning THEN {<<"context", "pinned_key">>} ELSE {}

\* What hangs on the context before stage k, and what the call itself holds;
\* stage 8 is the end of the call.
Hanging(k) == From(3, k, Pinned)
                \cup From(5, k, {<<"context", "ssl_ctx">>})
                \cup From(7, k, {<<"ssl_ctx", "client_key">>})
                \cup From(8, k, {<<"ssl_ctx", "certificate">>})
Own(k)     == {<<"new", "context">>}
                \cup From(2, k, {<<"new", "client_key">>})
                \cup From(4, k, {<<"new", "certificate">>})

Session == {<<"engine", "ssl">>, <<"ssl", "ssl_ctx">>}
Whole   == Hanging(8) \cup {<<"tunnel", "loop">>, <<"tunnel", "backend">>,
                            <<"tunnel", "context">>, <<"caller", "tunnel">>}

\* The references at each stage of a tunnel's life.
RefsInv ==
  /\ at = "none" => refs = {}
  /\ at = "loop" => refs = Begun \ {<<"tunnel", "backend">>}
  /\ at = "failed" => refs = Begun
  /\ \A k \in 1 .. 7 :
       at = Tls!Stages[k] => refs = Begun \cup Own(k) \cup Hanging(k)
  /\ at = "done" => refs = Begun \cup Own(8) \cup Hanging(8)
  /\ at = "ready" => refs = Whole
  /\ at = "running" => refs \in {Whole, Whole \cup Session}

\* A backend is lost by a refused call, and each call is refused once.
CountInv ==
  /\ lost <= refused /\ refused <= calls
  /\ at # "none" => refused < calls

TlsInv == Tls!TypeOK /\ RefsInv /\ CountInv /\ ~twice

\* The stages by name.
LEMMA StageNames ==
  /\ Tls!Stages[1] = "client_key" /\ Tls!Stages[2] = "pinned_key"
  /\ Tls!Stages[3] = "certificate" /\ Tls!Stages[4] = "ssl_ctx"
  /\ Tls!Stages[5] = "quic" /\ Tls!Stages[6] = "use_key"
  /\ Tls!Stages[7] = "use_cert"
  /\ Len(Tls!Stages) = 7
  BY DEF Tls!Stages

\* A context that is no one's goes with all that hangs on it.
LEMMA SweptAll ==
  ASSUME NEW T, NEW C,
         \A r \in T : /\ r[1] \notin {"context", "ssl_ctx", "ssl"}
                      /\ r[2] \notin {"context", "ssl_ctx", "ssl"},
         \A r \in C : \/ r[1] = "context" /\ r[2] \in {"ssl_ctx", "pinned_key"}
                      \/ r[1] = "ssl_ctx" /\ r[2] \in {"client_key", "certificate"}
  PROVE  Tls!Swept(Tls!Swept(T \cup C)) = T
<1>1. \A r \in T : r \in Tls!Swept(T \cup C)
  BY DEF Tls!Swept
<1>2. \A r \in Tls!Swept(T \cup C) : r \in T \/ (r \in C /\ r[1] = "ssl_ctx")
  <2>1. \A q \in T \cup C : q[2] # "context"
    OBVIOUS
  <2>2. \A r \in Tls!Swept(T \cup C) : r \in T \cup C /\ r[1] # "context"
    BY <2>1 DEF Tls!Swept
  <2> QED
    BY <2>2
<1>3. \A r \in Tls!Swept(T \cup C) : r[2] # "ssl_ctx"
  BY <1>2
<1> HIDE DEF Tls!Swept
<1> DEFINE S == Tls!Swept(T \cup C)
<1>4. /\ T \subseteq S
      /\ \A r \in S : r \in T \/ (r \in C /\ r[1] = "ssl_ctx")
      /\ \A r \in S : r[2] # "ssl_ctx"
  BY <1>1, <1>2, <1>3
<1> HIDE DEF S
<1>5. Tls!Swept(S) = T
  BY <1>4 DEF Tls!Swept
<1> QED
  BY <1>5 DEF S

\* With nothing to sweep, or with a session that goes.
LEMMA SweptWhole ==
  /\ Tls!Swept(Whole) = Whole
  /\ Tls!Swept(Whole \cup {<<"ssl", "ssl_ctx">>}) = Whole
<1>1. \A r \in Whole : r[1] # "ssl" /\ r[2] # "ssl"
  BY DEF Whole, Hanging, From, Pinned
<1>2. <<"tunnel", "context">> \in Whole /\ <<"context", "ssl_ctx">> \in Whole
  BY DEF Whole, Hanging, From
<1> QED
  BY <1>1, <1>2 DEF Tls!Swept

\* The hanging references, as SweptAll wants them.
LEMMA HangingIs ==
  ASSUME NEW k \in 1 .. 8
  PROVE  \A r \in Hanging(k) :
           \/ r[1] = "context" /\ r[2] \in {"ssl_ctx", "pinned_key"}
           \/ r[1] = "ssl_ctx" /\ r[2] \in {"client_key", "certificate"}
  BY DEF Hanging, From, Pinned

\* A stage that is passed adds its references to those held.
LEMMA StageStep ==
  ASSUME NEW k \in 1 .. 7
  PROVE  Begun \cup Own(k) \cup Hanging(k) \cup Tls!Acquired(Tls!Stages[k])
           = Begun \cup Own(k + 1) \cup Hanging(k + 1)
<1>1. k = 1 \/ k = 2 \/ k = 3 \/ k = 4 \/ k = 5 \/ k = 6 \/ k = 7
  OBVIOUS
<1> USE StageNames DEF Own, Hanging, From, Pinned, Tls!Acquired, Tls!Skipped
<1>2. CASE k = 1
  <2>1. Own(k + 1) = Own(k) \cup {<<"new", "client_key">>} /\ Hanging(k + 1) = Hanging(k)
    BY <1>2
  <2> QED
    BY <1>2, <2>1
<1>3. CASE k = 2
  <2>1. Own(k + 1) = Own(k) /\ Hanging(k + 1) = Hanging(k) \cup Pinned
    BY <1>3
  <2> QED
    BY <1>3, <2>1
<1>4. CASE k = 3
  <2>1. Own(k + 1) = Own(k) \cup {<<"new", "certificate">>} /\ Hanging(k + 1) = Hanging(k)
    BY <1>4
  <2> QED
    BY <1>4, <2>1
<1>5. CASE k = 4
  <2>1. Own(k + 1) = Own(k) /\ Hanging(k + 1) = Hanging(k) \cup {<<"context", "ssl_ctx">>}
    BY <1>5
  <2> QED
    BY <1>5, <2>1
<1>6. CASE k = 5
  <2>1. Own(k + 1) = Own(k) /\ Hanging(k + 1) = Hanging(k)
    BY <1>6
  <2> QED
    BY <1>6, <2>1
<1>7. CASE k = 6
  <2>1. Own(k + 1) = Own(k) /\ Hanging(k + 1) = Hanging(k) \cup {<<"ssl_ctx", "client_key">>}
    BY <1>7
  <2> QED
    BY <1>7, <2>1
<1>8. CASE k = 7
  <2>1. Own(k + 1) = Own(k) /\ Hanging(k + 1) = Hanging(k) \cup {<<"ssl_ctx", "certificate">>}
    BY <1>8
  <2> QED
    BY <1>8, <2>1
<1> QED
  BY <1>1, <1>2, <1>3, <1>4, <1>5, <1>6, <1>7, <1>8

\* The early return of each stage frees exactly the references of the call.
LEMMA EarlyReturnFrees ==
  ASSUME NEW k \in 1 .. 7
  PROVE  Tls!Own("new", Tls!EarlyReturn(Tls!Stages[k])) = Own(k)
<1>1. k = 1 \/ k = 2 \/ k = 3 \/ k = 4 \/ k = 5 \/ k = 6 \/ k = 7
  OBVIOUS
<1>2. Tls!EarlyReturn(Tls!Stages[k])
        = {"context"} \cup From(2, k, {"client_key"}) \cup From(4, k, {"certificate"})
  BY <1>1, StageNames DEF Tls!EarlyReturn, From
<1> QED
  BY <1>2 DEF Tls!Own, Own, From

\* A call in progress is in none of the other places.
LEMMA StageIsStage ==
  ASSUME NEW k \in 1 .. 7
  PROVE  /\ Tls!Stages[k] \notin {"none", "loop", "done", "failed", "ready", "running"}
         /\ \A j \in 1 .. 7 : Tls!Stages[j] = Tls!Stages[k] => j = k
<1>1. \A j \in 1 .. 7 : j = 1 \/ j = 2 \/ j = 3 \/ j = 4 \/ j = 5 \/ j = 6 \/ j = 7
  OBVIOUS
<1> QED
  BY <1>1, StageNames

\* The references of each stage are references.
LEMMA RefsTyped ==
  /\ Begun \subseteq Tls!Holders \X Tls!Objects
  /\ \A k \in 1 .. 8 : Own(k) \cup Hanging(k) \subseteq Tls!Holders \X Tls!Objects
  /\ Whole \cup Session \subseteq Tls!Holders \X Tls!Objects
  BY DEF Begun, Own, Hanging, From, Pinned, Whole, Session, Tls!Holders,
     Tls!Objects

\* What the invariant says of the stage that the call has come to.
LEMMA AtStage ==
  ASSUME NEW k \in 1 .. 8,
         at' = IF k < 8 THEN Tls!Stages[k] ELSE "done",
         refs' = Begun \cup Own(k) \cup Hanging(k),
         pinning' = pinning
  PROVE  RefsInv'
<1>1. Begun' = Begun /\ \A j : Own(j)' = Own(j) /\ Hanging(j)' = Hanging(j)
  BY DEF Begun, Own, Hanging, From, Pinned
<1>2. CASE k = 8
  BY <1>1, <1>2, StageIsStage DEF RefsInv
<1>3. CASE k \in 1 .. 7
  BY <1>1, <1>3, StageIsStage DEF RefsInv
<1> QED
  BY <1>2, <1>3

\* When there is no tunnel, nothing is held.
LEMMA AtNone ==
  ASSUME at' = "none", refs' = {}
  PROVE  RefsInv' /\ refs' \subseteq Tls!Holders \X Tls!Objects
  BY StageIsStage DEF RefsInv

\* Nothing is swept from nothing.
LEMMA SweptNothing == Tls!Swept({}) = {}
  BY DEF Tls!Swept

\* A step of TlsSetup keeps its invariant.
LEMMA TlsStep ==
  ASSUME Tls!TlsAssumption, TlsInv, [Tls!Next]_(Tls!vars)
  PROVE  TlsInv'
<1> USE DEF TlsInv, CountInv, Tls!counts
<1>1. CASE Tls!usque_tunnel_new
  <2>1. refs' = Begun \ {<<"tunnel", "backend">>} /\ at' = "loop"
    BY <1>1 DEF Tls!usque_tunnel_new, Tls!Take, RefsInv, Begun
  <2>2. RefsInv'
    BY <2>1, StageIsStage DEF RefsInv, Begun
  <2>3. Tls!TypeOK'
    BY <1>1, <2>1, RefsTyped DEF Tls!usque_tunnel_new, Tls!TypeOK, Tls!Take,
       Tls!TlsAssumption
  <2> QED
    BY <1>1, <2>2, <2>3 DEF Tls!usque_tunnel_new, Tls!Take, Tls!TypeOK
<1>2. CASE Tls!LoopInitFails
  <2>1. refs' = {} /\ at' = "none" /\ twice' = FALSE
    <3>1. refs = {<<"new", "tunnel">>, <<"tunnel", "loop">>}
      BY <1>2 DEF Tls!LoopInitFails, RefsInv, Begun
    <3>2. refs \ {<<"new", "tunnel">>, <<"tunnel", "loop">>} = {}
      BY <3>1
    <3> QED
      BY <1>2, <3>1, <3>2, SweptNothing DEF Tls!LoopInitFails, Tls!GiveBack
  <2> QED
    BY <1>2, <2>1, AtNone DEF Tls!LoopInitFails, Tls!TypeOK
<1>3. CASE Tls!LoopInit
  <2>1. refs' = Begun \cup Own(1) \cup Hanging(1)
    BY <1>3 DEF Tls!LoopInit, Tls!Take, RefsInv, Begun, Own, Hanging, From
  <2>2. RefsInv'
    BY <1>3, <2>1, AtStage DEF Tls!LoopInit
  <2> QED
    BY <1>3, <2>1, <2>2, RefsTyped, StageNames DEF Tls!LoopInit, Tls!Take,
       Tls!TypeOK
<1>4. ASSUME NEW k \in 1 .. 7, Tls!StageDone(k) PROVE TlsInv'
  <2>1. refs = Begun \cup Own(k) \cup Hanging(k) /\ at # "none"
    BY <1>4, StageIsStage DEF Tls!StageDone, RefsInv
  <2>2. refs' = Begun \cup Own(k + 1) \cup Hanging(k + 1)
    BY <1>4, <2>1, StageStep DEF Tls!StageDone, Tls!Take
  <2>3. at' = IF k + 1 < 8 THEN Tls!Stages[k + 1] ELSE "done"
    BY <1>4, StageNames DEF Tls!StageDone
  <2> DEFINE n == k + 1
  <2>4. n \in 1 .. 8 /\ (n < 8 => n \in 1 .. 7) /\ pinning' = pinning
    BY <1>4 DEF Tls!StageDone
  <2>5. /\ at' = IF n < 8 THEN Tls!Stages[n] ELSE "done"
        /\ refs' = Begun \cup Own(n) \cup Hanging(n)
    BY <2>2, <2>3
  <2> HIDE DEF n
  <2>6. RefsInv'
    BY <2>4, <2>5, AtStage
  <2>7. at' # "none"
    <3>1. n < 8 => Tls!Stages[n] # "none"
      BY <2>4, StageIsStage
    <3> QED
      BY <2>5, <3>1
  <2>8. at' \in {"done"} \cup {Tls!Stages[j] : j \in 1 .. Len(Tls!Stages)}
    BY <2>3, StageNames
  <2>9. refs' \subseteq Tls!Holders \X Tls!Objects
    BY <2>2, RefsTyped
  <2> QED
    BY <1>4, <2>1, <2>6, <2>7, <2>8, <2>9 DEF Tls!StageDone, Tls!Take, Tls!TypeOK
<1>5. CASE Tls!Succeed
  <2>1. refs' = Whole
    BY <1>5 DEF Tls!Succeed, Tls!Own, RefsInv, Begun, Own, From, Whole,
       Hanging, Pinned
  <2>2. RefsInv'
    BY <1>5, <2>1, StageIsStage DEF Tls!Succeed, RefsInv, Whole, Hanging, From,
       Pinned
  <2> QED
    BY <1>5, <2>1, <2>2, RefsTyped DEF Tls!Succeed, Tls!TypeOK
<1>6. ASSUME NEW k \in 1 .. 7, Tls!StageFails(k) PROVE TlsInv'
  <2>1. refs = Begun \cup Own(k) \cup Hanging(k) /\ at # "none"
    BY <1>6, StageIsStage DEF Tls!StageFails, RefsInv
  <2>2. /\ refs' = Tls!Swept(Tls!Swept(refs \ Own(k)))
        /\ twice' = (twice \/ ~(Own(k) \subseteq refs))
    BY <1>6, EarlyReturnFrees DEF Tls!StageFails, Tls!GiveBack
  <2>3. refs \ Own(k) = Begun \cup Hanging(k)
    <3>1. \A r \in Begun \cup Hanging(k) : r \notin Own(k)
      BY HangingIs DEF Begun, Own, From
    <3> QED
      BY <2>1, <3>1
  <2>4. refs' = Begun
    <3>1. \A r \in Begun : /\ r[1] \notin {"context", "ssl_ctx", "ssl"}
                           /\ r[2] \notin {"context", "ssl_ctx", "ssl"}
      BY DEF Begun
    <3>2. \A r \in Hanging(k) :
            \/ r[1] = "context" /\ r[2] \in {"ssl_ctx", "pinned_key"}
            \/ r[1] = "ssl_ctx" /\ r[2] \in {"client_key", "certificate"}
      BY HangingIs
    <3>3. Tls!Swept(Tls!Swept(Begun \cup Hanging(k))) = Begun
      BY <3>1, <3>2, SweptAll, Zenon
    <3> QED
      BY <2>2, <2>3, <3>3
  <2>5. twice' = FALSE
    BY <2>1, <2>2
  <2>6. RefsInv'
    BY <1>6, <2>4, StageIsStage DEF Tls!StageFails, RefsInv, Begun
  <2> QED
    BY <1>6, <2>1, <2>4, <2>5, <2>6, RefsTyped DEF Tls!StageFails, Tls!TypeOK
<1>7. CASE Tls!NewFails
  <2>1. refs = Begun /\ at = "failed"
    BY <1>7 DEF Tls!NewFails, RefsInv
  <2>2. refs' = {} /\ twice' = FALSE
    <3>1. Tls!Own("tunnel", {"backend", "loop"}) \cup {<<"new", "tunnel">>} = Begun
      BY DEF Tls!Own, Begun
    <3>2. refs \ Begun = {} /\ Begun \subseteq refs
      BY <2>1
    <3> QED
      BY <1>7, <3>1, <3>2, SweptNothing DEF Tls!NewFails, Tls!GiveBack
  <2>3. /\ lost' \in 0 .. MaxTunnels /\ refused' \in 0 .. MaxTunnels
        /\ lost' <= refused' /\ refused' <= calls
    BY <1>7, <2>1 DEF Tls!NewFails, Tls!TypeOK, Tls!TlsAssumption
  <2> QED
    BY <1>7, <2>2, <2>3, AtNone DEF Tls!NewFails, Tls!TypeOK
<1>8. CASE Tls!usque_tunnel_run
  <2>1. refs' = Whole /\ at' = "running" /\ Whole' = Whole
    BY <1>8 DEF Tls!usque_tunnel_run, RefsInv, Whole, Hanging, From, Pinned
  <2> QED
    BY <1>8, <2>1, StageIsStage DEF Tls!usque_tunnel_run, RefsInv, Tls!TypeOK
<1>9. CASE Tls!tls_create_session
  <2>1. refs' = Whole \cup Session /\ at' = "running" /\ at = "running"
    BY <1>9 DEF Tls!tls_create_session, Tls!Take, RefsInv, Session
  <2>2. Whole' = Whole /\ Session' = Session
    BY <1>9 DEF Tls!tls_create_session, Whole, Hanging, From, Pinned, Session
  <2> QED
    BY <1>9, <2>1, <2>2, StageIsStage, RefsTyped DEF Tls!tls_create_session,
       Tls!Take, RefsInv, Tls!TypeOK
<1>10. CASE Tls!EndSession
  <2>1. <<"engine", "ssl">> \notin Whole
    BY DEF Whole, Hanging, From, Pinned
  <2>2. refs = Whole \cup Session /\ at = "running" /\ at' = "running"
    BY <1>10, <2>1 DEF Tls!EndSession, RefsInv
  <2>3. refs \ {<<"engine", "ssl">>} = Whole \cup {<<"ssl", "ssl_ctx">>}
    BY <2>1, <2>2 DEF Session
  <2>4. refs' = Whole /\ twice' = FALSE
    BY <1>10, <2>2, <2>3, SweptWhole DEF Tls!EndSession, Tls!GiveBack
  <2>5. Whole' = Whole
    BY <1>10 DEF Tls!EndSession, Whole, Hanging, From, Pinned
  <2>6. RefsInv' /\ refs' \subseteq Tls!Holders \X Tls!Objects
    BY <2>2, <2>4, <2>5, StageIsStage, RefsTyped DEF RefsInv
  <2> QED
    BY <1>10, <2>2, <2>4, <2>6 DEF Tls!EndSession, Tls!TypeOK
<1>11. CASE Tls!usque_tunnel_destroy
  <2> DEFINE R == Tls!Own("tunnel", {"backend", "loop", "context"})
                    \cup {<<"caller", "tunnel">>}
  <2>1. refs = Whole
    BY <1>11 DEF Tls!usque_tunnel_destroy, RefsInv
  <2>2. R = {<<"tunnel", "loop">>, <<"tunnel", "backend">>,
             <<"tunnel", "context">>, <<"caller", "tunnel">>}
    BY DEF Tls!Own
  <2>3. refs' = Tls!Swept(Tls!Swept(refs \ R)) /\ twice' = (twice \/ ~(R \subseteq refs))
    BY <1>11 DEF Tls!usque_tunnel_destroy, Tls!GiveBack
  <2> HIDE DEF R
  <2>4. refs \ R = Hanging(8) /\ R \subseteq refs
    <3>1. \A r \in Hanging(8) : r \notin R
      BY <2>2, HangingIs
    <3> QED
      BY <2>1, <2>2, <3>1 DEF Whole
  <2>5. refs' = {} /\ twice' = FALSE
    <3> DEFINE T == R \ R
    <3>1. T = {} /\ T \cup Hanging(8) = Hanging(8)
      OBVIOUS
    <3>2. \A r \in T : /\ r[1] \notin {"context", "ssl_ctx", "ssl"}
                       /\ r[2] \notin {"context", "ssl_ctx", "ssl"}
      OBVIOUS
    <3> HIDE DEF T
    <3>3. \A r \in Hanging(8) :
            \/ r[1] = "context" /\ r[2] \in {"ssl_ctx", "pinned_key"}
            \/ r[1] = "ssl_ctx" /\ r[2] \in {"client_key", "certificate"}
      BY HangingIs
    <3>4. Tls!Swept(Tls!Swept(T \cup Hanging(8))) = T
      BY <3>2, <3>3, SweptAll, Zenon
    <3> QED
      BY <2>3, <2>4, <3>1, <3>4
  <2> QED
    BY <1>11, <2>5, AtNone DEF Tls!usque_tunnel_destroy, Tls!TypeOK
<1>12. CASE UNCHANGED Tls!vars
  <2>1. RefsInv'
    BY <1>12 DEF Tls!vars, RefsInv, Begun, Own, Hanging, From, Pinned, Whole,
       Session
  <2> QED
    BY <1>12, <2>1 DEF Tls!vars, Tls!TypeOK
<1> QED
  BY <1>1, <1>2, <1>3, <1>4, <1>5, <1>6, <1>7, <1>8, <1>9, <1>10, <1>11,
     <1>12, StageNames DEF Tls!Next

-----------------------------------------------------------------------------
(* Both.                                                                   *)

IInv == LoopInv /\ TlsInv

\* The inductive invariant of both modules holds at first and after each step.
THEOREM ConnectionInvariant == MCSpec => []IInv
<1> USE Tls!TlsAssumption
<1>1. MCInit => IInv
  <2> SUFFICES ASSUME MCInit PROVE IInv
    OBVIOUS
  <2>1. LoopInv
    <3>1. TypeOK
      <4>1. 0 \in 0 .. 2
        OBVIOUS
      <4> QED
        BY <4>1 DEF MCInit, Init, TypeOK, Deadlines
    <3>2. ReadyBehindRequest /\ TimerInv
      BY DEF MCInit, Init, ReadyBehindRequest, TimerInv, TimerStaysArmed
    <3> QED
      BY <3>1, <3>2 DEF LoopInv
  <2>2. 0 \in 0 .. MaxTunnels
    BY DEF Tls!TlsAssumption
  <2>3. RefsInv /\ CountInv /\ ~twice
    BY StageIsStage DEF MCInit, Tls!Init, RefsInv, CountInv
  <2>4. Tls!TypeOK
    BY <2>2 DEF MCInit, Tls!Init, Tls!TypeOK
  <2> QED
    BY <2>1, <2>3, <2>4 DEF IInv, TlsInv
<1>2. IInv /\ [MCNext]_<<side, vars, tls>> => IInv'
  <2> SUFFICES ASSUME IInv, [MCNext]_<<side, vars, tls>>
               PROVE  IInv'
    OBVIOUS
  <2>1. [Next]_vars /\ [Tls!Next]_(Tls!vars)
    BY DEF MCNext, tls, Tls!vars
  <2> QED
    BY <2>1, LoopStep, TlsStep DEF IInv
<1> QED
  BY <1>1, <1>2, PTL DEF MCSpec

\* Type correctness of the event loop and of the tunnel object.
THEOREM TypesCorrect == MCSpec => []TypesOK
<1>1. IInv => TypesOK
  BY DEF IInv, LoopInv, TlsInv, TypesOK
<1> QED
  BY <1>1, ConnectionInvariant, PTL

\* update_timer after every datagram and every expiry never parks the timer.
THEOREM TimerArmed == MCSpec => []TimerStaysArmed
<1>1. IInv => TimerStaysArmed
  BY DEF IInv, LoopInv, TimerInv
<1> QED
  BY <1>1, ConnectionInvariant, PTL

\* The safety half of PostNoiseOnce.
OneBurst == bursts <= 1 /\ (bursts = 1 => request \in {"accepted", "closed"})

\* inject_post_noise runs once at most, behind an accepted request: what
\* PostNoiseOnce says of each state.
THEOREM NoiseOnce == MCSpec => []OneBurst
<1>1. IInv => OneBurst
  BY DEF IInv, LoopInv, ReadyBehindRequest, OneBurst
<1> QED
  BY <1>1, ConnectionInvariant, PTL

\* Each early return of tls_context_create and usque_tunnel_new, and
\* usque_tunnel_destroy, gives back what is held, once.
THEOREM TunnelHeld == MCSpec => []TunnelAccounted
<1>1. IInv => TunnelAccounted
  <2> SUFFICES ASSUME IInv PROVE TunnelAccounted
    OBVIOUS
  <2>1. at = "none" => refs = {} /\ lost <= refused
    BY DEF IInv, TlsInv, RefsInv, CountInv
  <2>2. ASSUME at \in {"ready", "running"}
        PROVE  /\ {r[1] : r \in refs} \cap {"new"} = {}
               /\ {<<"tunnel", "context">>, <<"context", "ssl_ctx">>,
                   <<"ssl_ctx", "client_key">>, <<"ssl_ctx", "certificate">>}
                    \subseteq refs
               /\ pinning = (<<"context", "pinned_key">> \in refs)
    <3>1. Whole \subseteq refs /\ refs \subseteq Whole \cup Session
      BY <2>2 DEF IInv, TlsInv, RefsInv
    <3>2. \A r \in Whole \cup Session : r[1] # "new"
      BY DEF Whole, Hanging, From, Pinned, Session
    <3>3. {<<"tunnel", "context">>, <<"context", "ssl_ctx">>,
           <<"ssl_ctx", "client_key">>, <<"ssl_ctx", "certificate">>}
             \subseteq Whole
      BY DEF Whole, Hanging, From
    <3>4. pinning => <<"context", "pinned_key">> \in Whole
      BY DEF Whole, Hanging, From, Pinned
    <3>5. <<"context", "pinned_key">> \in Whole \cup Session => pinning
      BY DEF Whole, Hanging, From, Pinned, Session
    <3>6. pinning \in BOOLEAN
      BY DEF IInv, TlsInv, Tls!TypeOK
    <3> QED
      BY <3>1, <3>2, <3>3, <3>4, <3>5, <3>6
  <2> QED
    BY <2>1, <2>2 DEF TunnelAccounted, Tls!TunnelAccounted, IInv, TlsInv
<1> QED
  BY <1>1, ConnectionInvariant, PTL
=============================================================================

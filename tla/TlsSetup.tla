------------------------------ MODULE TlsSetup ------------------------------
(***************************************************************************)
(* What a tunnel object holds: usque_tunnel_new and usque_tunnel_destroy   *)
(* (src/tunnel.cpp) with tls_context_create, ~TlsContext and               *)
(* tls_create_session (src/transport/tls_setup.cpp).  A failure of any     *)
(* stage frees by hand what the stages before it have acquired.            *)
(*                                                                         *)
(* A reference is a pair of a holder and an object.  External: BoringSSL's *)
(* objects are counted, they go with the last reference and give back the  *)
(* references they hold; "backend" is what uv_loop_init opens, which       *)
(* uv_loop_close gives back unless the loop still lists a handle.          *)
(* Supervisor has what happens while a tunnel runs.                        *)
(*                                                                         *)
(* A definition named <action>_<slip> is the action with a slip a change   *)
(* of the code could make; it is no part of Next.                          *)
(***************************************************************************)
EXTENDS Naturals, Sequences

CONSTANT MaxTunnels   \* bound: calls of usque_tunnel_new

\* What is asked of the constants; the composing MC module assumes it.
TlsAssumption == MaxTunnels \in Nat

Stages ==
  <<"client_key", "pinned_key", "certificate", "ssl_ctx", "quic", "use_key",
    "use_cert">>

VARIABLES
  at,       \* the stage of usque_tunnel_new, or what has become of it
  refs,     \* references; "new" holds those of the call's own variables
  pinning,  \* an endpoint key is configured and insecure is not
  listed,   \* handles the loop lists
  calls,    \* calls of usque_tunnel_new so far
  refused,  \* calls that failed for want of a TLS context
  lost,     \* backends nobody can close any more
  twice     \* a reference was given back that was not held

vars == <<at, refs, pinning, listed, calls, refused, lost, twice>>

Holders == {"new", "caller", "tunnel", "context", "ssl_ctx", "engine", "ssl"}
Objects == {"tunnel", "loop", "backend", "context", "client_key", "pinned_key",
            "certificate", "ssl_ctx", "ssl"}

TypeOK ==
  /\ at \in {"none", "loop", "done", "failed", "ready", "running"}
              \cup {Stages[k] : k \in 1 .. Len(Stages)}
  /\ refs \subseteq Holders \X Objects
  /\ {pinning, twice} \subseteq BOOLEAN
  /\ listed \subseteq {"stop_async", "send_async"}
  /\ {calls, refused, lost} \subseteq 0 .. MaxTunnels

Init ==
  /\ at = "none"
  /\ refs = {}
  /\ pinning = FALSE
  /\ listed = {}
  /\ calls = 0
  /\ refused = 0
  /\ lost = 0
  /\ twice = FALSE

counts == <<calls, refused, lost>>

-----------------------------------------------------------------------------
(* References.                                                             *)

\* ~TlsContext and the counted objects: without those held by an object to
\* which no reference is left.
Swept(R) ==
  {r \in R : r[1] \in {"context", "ssl_ctx", "ssl"} => \E q \in R : q[2] = r[1]}

\* A context goes, with it the SSL_CTX, with it the key and the certificate.
GiveBack(R) ==
  /\ refs' = Swept(Swept(refs \ R))
  /\ twice' = (twice \/ ~(R \subseteq refs))

Take(R) ==
  /\ refs' = refs \cup R
  /\ UNCHANGED twice

Own(h, S) == {h} \X S

-----------------------------------------------------------------------------
(* usque_tunnel_new and tls_context_create.                                *)

\* The tunnel object and the memory of its loop.
usque_tunnel_new ==
  /\ at = "none"
  /\ calls < MaxTunnels
  /\ calls' = calls + 1
  /\ pinning' \in BOOLEAN
  /\ Take({<<"new", "tunnel">>, <<"tunnel", "loop">>})
  /\ at' = "loop"
  /\ UNCHANGED <<listed, refused, lost>>

LoopInitFails ==
  /\ at = "loop"
  /\ GiveBack({<<"new", "tunnel">>, <<"tunnel", "loop">>})
  /\ at' = "none"
  /\ UNCHANGED <<pinning, listed, counts>>

\* uv_loop_init, the two asyncs, and the new TlsContext.
LoopInit ==
  /\ at = "loop"
  /\ Take({<<"tunnel", "backend">>, <<"new", "context">>})
  /\ listed' = {"stop_async", "send_async"}
  /\ at' = Stages[1]
  /\ UNCHANGED <<pinning, counts>>

\* Without pinning there is no public key to parse.
Skipped(stage) == stage = "pinned_key" /\ ~pinning

\* What a stage acquires; SSL_CTX_use_PrivateKey and SSL_CTX_add1_chain_cert
\* take references of their own.
Acquired(stage) ==
  CASE Skipped(stage) \/ stage = "quic"          -> {}
    [] stage \in {"client_key", "certificate"}   -> {<<"new", stage>>}
    [] stage = "use_key"                         -> {<<"ssl_ctx", "client_key">>}
    [] stage = "use_cert"                        -> {<<"ssl_ctx", "certificate">>}
    [] OTHER                                     -> {<<"context", stage>>}

StageDone(k) ==
  /\ at = Stages[k]
  /\ Take(Acquired(Stages[k]))
  /\ at' = IF k < Len(Stages) THEN Stages[k + 1] ELSE "done"
  /\ UNCHANGED <<pinning, listed, counts>>

\* The context becomes the tunnel's and the tunnel the caller's; the call
\* gives back its own references to key and certificate.
Succeed ==
  /\ at = "done"
  /\ refs' = (refs \ Own("new", {"certificate", "client_key", "context", "tunnel"}))
               \cup {<<"tunnel", "context">>, <<"caller", "tunnel">>}
  /\ at' = "ready"
  /\ UNCHANGED <<pinning, listed, counts, twice>>

EarlyReturn_keepKey(stage) ==
  CASE stage \in {"client_key", "pinned_key"} -> {"context"}
    [] stage = "certificate"                  -> {"client_key", "context"}
    [] OTHER                    -> {"certificate", "client_key", "context"}

\* What the early return of each stage frees; parse_private_key,
\* parse_public_key_pem and generate_self_signed_cert hold nothing when they
\* fail.
EarlyReturn(stage) ==
  CASE stage = "client_key"                    -> {"context"}
    [] stage \in {"pinned_key", "certificate"} -> {"client_key", "context"}
    [] OTHER                    -> {"certificate", "client_key", "context"}

StageFails(k) ==
  /\ at = Stages[k]
  /\ ~Skipped(Stages[k])
  /\ GiveBack(Own("new", EarlyReturn(Stages[k])))
  /\ at' = "failed"
  /\ UNCHANGED <<pinning, listed, counts>>

\* uv_loop_close, which the two asyncs make refuse, free(t->loop), delete t.
NewFails ==
  /\ at = "failed"
  /\ GiveBack(Own("tunnel", {"backend", "loop"}) \cup {<<"new", "tunnel">>})
  /\ lost' = IF listed # {} THEN lost + 1 ELSE lost
  /\ refused' = refused + 1
  /\ listed' = {}
  /\ at' = "none"
  /\ UNCHANGED <<pinning, calls>>

-----------------------------------------------------------------------------
(* The tunnel afterwards.                                                  *)

\* usque_tunnel_run does not return (Supervisor's NeverReturns).
usque_tunnel_run ==
  /\ at = "ready"
  /\ at' = "running"
  /\ UNCHANGED <<refs, pinning, listed, counts, twice>>

\* QuicEngine::setup of an attempt; SSL_new may fail.
tls_create_session ==
  /\ at = "running"
  /\ <<"engine", "ssl">> \notin refs
  /\ Take({<<"engine", "ssl">>, <<"ssl", "ssl_ctx">>})
  /\ UNCHANGED <<at, pinning, listed, counts>>

\* QuicEngine::cleanup.
EndSession ==
  /\ at = "running"
  /\ <<"engine", "ssl">> \in refs
  /\ GiveBack({<<"engine", "ssl">>})
  /\ UNCHANGED <<at, pinning, listed, counts>>

\* The asyncs are closed and the loop is run until they are gone, so that
\* uv_loop_close succeeds.
usque_tunnel_destroy ==
  /\ at = "ready"
  /\ GiveBack(Own("tunnel", {"backend", "loop", "context"})
                \cup {<<"caller", "tunnel">>})
  /\ listed' = {}
  /\ at' = "none"
  /\ UNCHANGED <<pinning, counts>>

-----------------------------------------------------------------------------
Next ==
  \/ usque_tunnel_new \/ LoopInitFails \/ LoopInit
  \/ \E k \in 1 .. Len(Stages) : StageDone(k) \/ StageFails(k)
  \/ Succeed \/ NewFails
  \/ usque_tunnel_run \/ tls_create_session \/ EndSession
  \/ usque_tunnel_destroy

Spec == Init /\ [][Next]_vars

-----------------------------------------------------------------------------
(* Properties.                                                             *)

\* At whatever stage a call fails, and whether or not the endpoint key is
\* pinned: a failing call and a destroyed tunnel leave nothing behind but, for
\* each call that had no TLS context, the backend of its loop; a tunnel that is
\* there refers to a context whose SSL_CTX, key and certificate are still
\* there, sessions that come and go included; and nothing is freed twice.
TunnelAccounted ==
  /\ ~twice
  /\ at = "none" => refs = {} /\ lost <= refused
  /\ at \in {"ready", "running"} =>
       /\ {r[1] : r \in refs} \cap {"new"} = {}
       /\ {<<"tunnel", "context">>, <<"context", "ssl_ctx">>,
           <<"ssl_ctx", "client_key">>, <<"ssl_ctx", "certificate">>} \subseteq refs
       /\ pinning = (<<"context", "pinned_key">> \in refs)
=============================================================================

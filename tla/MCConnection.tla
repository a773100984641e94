---------------------------- MODULE MCConnection ----------------------------
(***************************************************************************)
(* Two sides of a tunnel side by side: what usque_tunnel_new acquires      *)
(* (TlsSetup) and the event loop of a connection (EventLoop).  The first   *)
(* is over when the second begins and the second touches none of it but    *)
(* through whole sessions, so that a behaviour follows one of them, which  *)
(* side names, and the other rests in an initial state.                    *)
(***************************************************************************)
EXTENDS EventLoop

CONSTANT MaxTunnels

VARIABLES side, at, refs, pinning, listed, calls, refused, lost, twice

tls == <<at, refs, pinning, listed, calls, refused, lost, twice>>

Tls == INSTANCE TlsSetup

ASSUME Tls!TlsAssumption

MCInit ==
  /\ Init /\ Tls!Init
  /\ side \in {"loop", "tls"}
  /\ side = "tls" => expiry = "never"

MCNext ==
  /\ UNCHANGED side
  /\ \/ side = "loop" /\ Next /\ UNCHANGED tls
     \/ side = "tls" /\ Tls!Next /\ UNCHANGED vars

\* EventLoop's fairness, where it does not rest.
MCFairness ==
  /\ WF_vars(side = "loop" /\ Start)
  /\ WF_vars(side = "loop" /\ TimerFires)
  /\ \A m \in ToServer : SF_vars(side = "loop" /\ Serve(m))
  /\ \A m \in ToClient : SF_vars(side = "loop" /\ on_udp_read(m))

MCSpec == MCInit /\ [][MCNext]_<<side, vars, tls>> /\ MCFairness

\* The type invariants of both modules.
TypesOK == TypeOK /\ Tls!TypeOK

\* TlsSetup: no stage of usque_tunnel_new leaves or frees too much.
TunnelAccounted == Tls!TunnelAccounted
=============================================================================

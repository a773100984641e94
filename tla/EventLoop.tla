------------------------------ MODULE EventLoop ------------------------------
(***************************************************************************)
(* One connection's event loop (src/tunnel.cpp): the libuv callbacks that  *)
(* drive the QUIC engine (src/transport/quic_engine.cpp), the CONNECT-IP   *)
(* request on top of it (src/transport/http3_connect.cpp), the QUIC timer, *)
(* and a network that loses datagrams.  Callbacks run one at a time.       *)
(*                                                                         *)
(* Deadlines are ranked: "soon" is a retransmission time-out, or a time    *)
(* already past; "later" the keep-alive or another long time-out; "never"  *)
(* UINT64_MAX.  ngtcp2's choice of a deadline is external: a packet that   *)
(* awaits its acknowledgement has one "soon", and a connection with        *)
(* nothing in flight waits for its keep-alive.  apply_defaults replaces a  *)
(* keepalive_period of 0; a negative one, which sets no keep-alive, is     *)
(* left out.                                                               *)
(*                                                                         *)
(* A definition named <action>_<slip> is the action with a slip a change   *)
(* of the code could make; it is no part of Next.                          *)
(***************************************************************************)
EXTENDS Naturals

VARIABLES
  loop,       \* "starting", "running", "left" after uv_stop, or "crashed"
  quic,       \* ngtcp2: "handshake", "up", or "dead" once it only errs
  request,    \* the CONNECT stream: "none", "sent", "accepted" (status 200),
              \* "refused" (any other), "closed"
  ready,      \* engine.tunnel_ready
  unacked,    \* what the engine would retransmit: a message or "nothing"
  expiry,     \* engine.get_expiry()
  armed,      \* the deadline quic_timer was last started with
  wire,       \* messages on their way to the server
  back,       \* messages on their way to the client
  heard,      \* a datagram of the server has been read
  post_noise_sent,
  bursts      \* post-noise bursts injected

vars == <<loop, quic, request, ready, unacked, expiry, armed, wire, back,
          heard, post_noise_sent, bursts>>

\* "packet" is an IP packet's DATAGRAM frame, or the probe ngtcp2 sends for it
\* when no acknowledgement comes: the IP packet itself is not sent again.
ToServer  == {"hello", "request", "packet"}
ToClient  == {"handshake", "ok", "no", "fin", "ack", "close"}
Deadlines == {"soon", "later", "never"}

TypeOK ==
  /\ loop \in {"starting", "running", "left", "crashed"}
  /\ quic \in {"handshake", "up", "dead"}
  /\ request \in {"none", "sent", "accepted", "refused", "closed"}
  /\ ready \in BOOLEAN
  /\ unacked \in ToServer \cup {"nothing"}
  /\ expiry \in Deadlines
  /\ armed \in Deadlines
  /\ wire \subseteq ToServer
  /\ back \subseteq ToClient
  /\ heard \in BOOLEAN
  /\ post_noise_sent \in BOOLEAN
  /\ bursts \in 0 .. 2

\* Before the first flight ngtcp2 has no deadline, or a handshake time-out.
Init ==
  /\ loop = "starting"
  /\ quic = "handshake"
  /\ request = "none"
  /\ ready = FALSE
  /\ unacked = "nothing"
  /\ expiry \in {"never", "later"}
  /\ armed = "never"
  /\ wire = {}
  /\ back = {}
  /\ heard = FALSE
  /\ post_noise_sent = FALSE
  /\ bursts = 0

-----------------------------------------------------------------------------
(* Helpers.                                                                *)

\* get_expiry after a call into the engine (external).
ExpiryAfter(q, u) == IF q = "dead" \/ u # "nothing" THEN "soon" ELSE "later"

update_timer == armed' = expiry'

\* on_write puts m on the wire; it awaits its acknowledgement.  The call is one
\* step and ends; Http3Connect has its loop, which may not end when the
\* congestion window is full.
Transmit(m) ==
  /\ wire' = wire \cup {m}
  /\ unacked' = m

-----------------------------------------------------------------------------
(* Callbacks.                                                              *)

\* The end of run_connection's set-up: update_timer, then the first on_write.
Start ==
  /\ loop = "starting"
  /\ loop' = "running"
  /\ armed' = expiry
  /\ Transmit("hello")
  /\ expiry' = "soon"
  /\ UNCHANGED <<quic, request, ready, back, heard, post_noise_sent, bursts>>

\* on_read of one datagram, with the callbacks ngtcp2 and nghttp3 make, and
\* the on_write that follows.

\* http3_setup and http3_submit_connect: the CONNECT request goes out on a
\* stream of its own.
SubmitConnect == request' = "sent" /\ Transmit("request")

\* Handshake data: streams become available and the CONNECT request is
\* submitted and sent (cb_handshake_completed,
\* cb_extend_max_local_streams_bidi).
ReadHandshake ==
  /\ IF quic = "handshake"
       THEN quic' = "up" /\ SubmitConnect
       ELSE UNCHANGED <<quic, request, wire, unacked>>
  /\ UNCHANGED <<loop, ready>>

ReadResponse_anyStatus(m) ==
  /\ IF request = "sent" /\ quic = "up"
       THEN /\ request' = IF m = "ok" THEN "accepted" ELSE "refused"
            /\ ready' = TRUE
            /\ unacked' = "nothing"
       ELSE UNCHANGED <<request, ready, unacked>>
  /\ UNCHANGED <<loop, quic, wire>>

\* The response's header block: h3_recv_header looks for status 200 and
\* h3_end_headers then declares the tunnel ready.
ReadResponse(m) ==
  /\ IF request = "sent" /\ quic = "up"
       THEN /\ request' = IF m = "ok" THEN "accepted" ELSE "refused"
            /\ ready' = (ready \/ m = "ok")
            /\ unacked' = "nothing"
       ELSE UNCHANGED <<request, ready, unacked>>
  /\ UNCHANGED <<loop, quic, wire>>

\* The CONNECT stream ends.  h3_stream_close closes the stream again from
\* inside the close: nghttp3 refuses that, or recurses until the stack ends.
\* tunnel_ready stays as it is.
ReadFin ==
  /\ IF quic = "up" /\ request \in {"accepted", "refused"}
       THEN /\ request' = "closed"
            /\ loop' \in {"running", "crashed"}
       ELSE UNCHANGED <<request, loop>>
  /\ UNCHANGED <<quic, ready, unacked, wire>>

ReadAck ==
  /\ unacked' = IF unacked = "packet" THEN "nothing" ELSE unacked
  /\ UNCHANGED <<loop, quic, request, ready, wire>>

\* CONNECTION_CLOSE, a protocol or TLS error, or a callback that fails: from
\* now on every call into ngtcp2 returns an error.
ReadFails ==
  /\ quic' = "dead"
  /\ UNCHANGED <<loop, request, ready, unacked, wire>>

on_read(m) ==
  \/ m = "handshake" /\ ReadHandshake
  \/ m \in {"ok", "no"} /\ ReadResponse(m)
  \/ m = "fin" /\ ReadFin
  \/ m = "ack" /\ ReadAck
  \/ ReadFails

on_udp_read_noTimer(m) ==
  /\ loop = "running"
  /\ m \in back
  /\ back' = back \ {m}
  /\ heard' = TRUE
  /\ on_read(m)
  /\ expiry' = ExpiryAfter(quic', unacked')
  /\ UNCHANGED <<armed, post_noise_sent, bursts>>

\* The results of on_read and on_write are not looked at.
on_udp_read(m) ==
  /\ loop = "running"
  /\ m \in back
  /\ back' = back \ {m}
  /\ heard' = TRUE
  /\ on_read(m)
  /\ expiry' = ExpiryAfter(quic', unacked')
  /\ update_timer
  /\ UNCHANGED <<post_noise_sent, bursts>>

Inject ==
  /\ post_noise_sent' = TRUE
  /\ bursts' = bursts + 1
  /\ unacked' \in (IF quic = "up" THEN {unacked, "packet"} ELSE {unacked})

PostNoise_everyExpiry ==
  IF ready
    THEN Inject
    ELSE UNCHANGED <<post_noise_sent, bursts, unacked>>

\* inject_post_noise, once the tunnel is ready; it sends something when the
\* configuration enables noise.
PostNoise ==
  IF ready /\ ~post_noise_sent
    THEN Inject
    ELSE UNCHANGED <<post_noise_sent, bursts, unacked>>

\* ngtcp2_conn_handle_expiry and on_write: (re)transmit what is due, or find
\* the connection timed out, or, with nothing in flight, a keep-alive that
\* changes nothing here.
on_expiry ==
  \/ quic # "dead" /\ unacked' # "nothing" /\ wire' = wire \cup {unacked'}
     /\ UNCHANGED quic
  \/ quic # "dead" /\ quic' = "dead" /\ UNCHANGED wire
  \/ (quic = "dead" \/ unacked' = "nothing") /\ UNCHANGED <<quic, wire>>

TimerFires_once ==
  /\ loop = "running"
  /\ armed # "never"
  /\ PostNoise
  /\ on_expiry
  /\ expiry' = ExpiryAfter(quic', unacked')
  /\ armed' = "never"
  /\ UNCHANGED <<loop, request, ready, back, heard>>

\* The timer callback of update_timer; the result of on_expiry is ignored and
\* the timer started again.
TimerFires ==
  /\ loop = "running"
  /\ armed # "never"
  /\ PostNoise
  /\ on_expiry
  /\ expiry' = ExpiryAfter(quic', unacked')
  /\ update_timer
  /\ UNCHANGED <<loop, request, ready, back, heard>>

\* on_tun_read with a packet that send_packet hands to ngtcp2; before the tunnel
\* is ready and on a dead connection it drops the packet, which is no step.
\* The timer is not started again for the new deadline.
on_tun_read ==
  /\ loop = "running"
  /\ ready
  /\ quic = "up"
  /\ Transmit("packet")
  /\ expiry' = "soon"
  /\ UNCHANGED <<loop, quic, request, ready, armed, back, heard,
                 post_noise_sent, bursts>>

\* on_stop (see Supervisor).
on_stop ==
  /\ loop = "running"
  /\ loop' = "left"
  /\ UNCHANGED <<quic, request, ready, unacked, expiry, armed, wire, back,
                 heard, post_noise_sent, bursts>>

-----------------------------------------------------------------------------
(* The server and the network (external).                                  *)

clientVars == <<loop, quic, request, ready, unacked, expiry, armed, heard,
                post_noise_sent, bursts>>

Answers(m) ==
  CASE m = "hello"   -> {"handshake"}
    [] m = "request" -> {"ok", "no"}
    [] m = "packet"  -> {"ack"}

Serve(m) ==
  /\ m \in wire
  /\ wire' = wire \ {m}
  /\ \E a \in Answers(m) : back' = back \cup {a}
  /\ UNCHANGED clientVars

\* The server ends the CONNECT stream, or the connection.
ServerEnds(m) ==
  /\ loop = "running"
  /\ m = "close" \/ request \in {"accepted", "refused"}
  /\ back' = back \cup {m}
  /\ UNCHANGED <<clientVars, wire>>

LoseToServer(m) ==
  /\ m \in wire
  /\ wire' = wire \ {m}
  /\ UNCHANGED <<clientVars, back>>

LoseToClient(m) ==
  /\ m \in back
  /\ back' = back \ {m}
  /\ UNCHANGED <<clientVars, wire>>

-----------------------------------------------------------------------------
Next ==
  \/ Start
  \/ \E m \in ToClient : on_udp_read(m) \/ LoseToClient(m)
  \/ TimerFires
  \/ on_tun_read
  \/ on_stop
  \/ \E m \in ToServer : Serve(m) \/ LoseToServer(m)
  \/ \E m \in {"fin", "close"} : ServerEnds(m)

\* The event loop runs its callbacks; a message that is sent again and again
\* is served and read in the end.
Fairness ==
  /\ WF_vars(Start)
  /\ WF_vars(TimerFires)
  /\ \A m \in ToServer : SF_vars(Serve(m))
  /\ \A m \in ToClient : SF_vars(on_udp_read(m))

Spec == Init /\ [][Next]_vars /\ Fairness

-----------------------------------------------------------------------------
(* Properties.                                                             *)

Over == loop \in {"left", "crashed"} \/ quic = "dead"

\* From the first datagram of the server on, the QUIC timer is never parked:
\* the engine is called again even if nothing more arrives.
TimerStaysArmed == loop = "running" /\ heard => armed # "never"

\* A timer left at an older deadline (packets read from the TUN device do not
\* start it again) only delays loss recovery: from the first datagram of the
\* server on, a request is sent again until it is answered and an
\* unacknowledged packet is probed until the path answers, or the connection
\* is given up.
LossRecovered ==
  loop = "running" /\ heard /\ unacked \in {"request", "packet"} ~>
    Over \/ unacked = "nothing"

\* Post-noise is sent at most once in a connection, only behind a request the
\* server accepted, and a tunnel that becomes ready does get it, although
\* every timer expiry checks for it and readiness is set elsewhere.
PostNoiseOnce ==
  /\ [](bursts <= 1 /\ (bursts = 1 => request \in {"accepted", "closed"}))
  /\ ready ~> bursts = 1 \/ Over

\* include/usque/tunnel.h: "Automatically reconnects on connection loss": the
\* event loop of a connection that is lost ends, so that usque_tunnel_run can
\* start the next one.
LossEndsLoop ==
  loop = "running" /\ quic = "dead" ~> loop \in {"left", "crashed"}
=============================================================================

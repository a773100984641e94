---------------------------- MODULE Http3Connect ----------------------------
(***************************************************************************)
(* The HTTP/3 side of one connection: http3_setup and http3_submit_connect *)
(* (src/transport/http3_connect.cpp) in the callback that reports bidi     *)
(* streams, and QuicEngine::on_write (src/transport/quic_engine.cpp) one   *)
(* library call at a time.  nghttp3 offers what is left of a stream,       *)
(* ngtcp2 takes as much as flow control and the packet it is building      *)
(* allow, and nghttp3 is told.  EventLoop has on_write as one step.        *)
(*                                                                         *)
(* Stream data is counted in units, Capacity of which fill a packet.       *)
(* External: nghttp3 offers the control stream first, then the two of      *)
(* QPACK, then the request; ngtcp2 answers a write with STREAM_SHUT_WR,    *)
(* STREAM_DATA_BLOCKED, 0 (the congestion window is full and there is no   *)
(* packet under construction), WRITE_MORE or a full packet.  Only bytes    *)
(* are counted: the request's FIN goes with its last unit.                 *)
(*                                                                         *)
(* A definition named <action>_<slip> is the action with a slip a change   *)
(* of the code could make; it is no part of Next.                          *)
(***************************************************************************)
EXTENDS Integers, FiniteSetsExt

CONSTANTS Capacity,   \* units a packet holds
          Request,    \* units of the CONNECT request
          MaxRoom,    \* bound: packets the congestion window admits
          MaxCredit   \* bound: units of flow-control credit

\* What is asked of the constants; the composing MC module assumes it.
Http3Assumption ==
  /\ Capacity \in Nat \ {0}
  /\ Request \in Nat \ {0}
  /\ MaxRoom \in Nat
  /\ MaxCredit \in Nat /\ Request <= MaxCredit

Order   == <<"control", "qpack_dec", "qpack_enc", "connect">>
Streams == {Order[i] : i \in 1 .. 4}
Uni     == Streams \ {"connect"}

\* SETTINGS, the types of the QPACK streams, the request.
Length(s) == IF s = "connect" THEN Request ELSE 1

VARIABLES
  pc,       \* where on_write is
  conn,     \* handshake, up, or dead: every further call is an error
  httpconn, \* h3.httpconn is set
  opened,   \* streams ngtcp2 has opened
  unsent,   \* units of each stream nghttp3 still offers
  stalled,  \* streams nghttp3 has been told are blocked
  taken,    \* units of each stream ngtcp2 has taken
  credit,   \* credit left on each stream
  total,    \* credit left on the connection
  shut,     \* streams whose write side ngtcp2 has shut
  room,     \* packets the congestion window admits
  half,     \* units in the packet under construction
  tight     \* this call of on_write began with less room than it needs

vars == <<pc, conn, httpconn, opened, unsent, stalled, taken, credit, total,
          shut, room, half, tight>>

TypeOK ==
  /\ pc \in {"idle", "offer", "write", "finish", "spin"}
  /\ conn \in {"handshake", "up", "dead"}
  /\ httpconn \in BOOLEAN
  /\ opened \subseteq Streams
  /\ unsent \in [Streams -> 0 .. Request]
  /\ stalled \subseteq Streams
  /\ taken \in [Streams -> 0 .. Request]
  /\ credit \in [Streams -> 0 .. MaxCredit]
  /\ total \in 0 .. MaxCredit
  /\ shut \subseteq Streams
  /\ room \in 0 .. MaxRoom
  /\ half \in 0 .. Capacity - 1
  /\ tight \in BOOLEAN

Nothing == [s \in Streams |-> 0]

\* The server's transport parameters are whatever it chooses.
Init ==
  /\ pc = "idle"
  /\ conn = "handshake"
  /\ httpconn = FALSE
  /\ opened = {}
  /\ unsent = Nothing
  /\ stalled = {}
  /\ taken = Nothing
  /\ \E uni \in 0 .. 1, bidi \in 0 .. Request :
       credit = [s \in Streams |-> IF s = "connect" THEN bidi ELSE uni]
  /\ total \in 0 .. MaxCredit
  /\ shut = {}
  /\ room = MaxRoom
  /\ half = 0
  /\ tight = FALSE

streams == <<httpconn, opened, unsent, stalled>>
limits  == <<taken, credit, total, shut, room, half>>

-----------------------------------------------------------------------------
(* The callback that reports bidi streams.                                 *)

\* http3_setup opens the three unidirectional streams, http3_submit_connect
\* the request's; a failure of one makes the callback fail, which ends the
\* connection, and leaves h3.httpconn set and what was opened open.
SetUp ==
  \/ /\ conn' = "up"
     /\ opened' = Streams
     /\ unsent' = [s \in Streams |-> Length(s)]
     /\ httpconn' = TRUE
  \/ /\ conn' = "dead"
     /\ \E n \in 0 .. 3 : opened' = {Order[i] : i \in 1 .. n}
     /\ unsent' = [s \in Streams |-> IF opened' = Uni /\ s \in Uni THEN 1 ELSE 0]
     /\ httpconn' \in BOOLEAN
     /\ ~httpconn' => opened' = {}

\* Called at the end of the handshake and whenever the server admits more
\* bidi streams; only the first call does anything.
cb_extend_max_local_streams_bidi ==
  /\ pc = "idle"
  /\ conn # "dead"
  /\ ~httpconn
  /\ SetUp
  /\ UNCHANGED <<pc, stalled, limits, tight>>

-----------------------------------------------------------------------------
(* QuicEngine::on_write.                                                   *)

\* Streams http3_writev may offer, and the packets their data needs.
Offered == {s \in Streams : unsent[s] > 0 /\ s \notin stalled}
Units(s) == IF s \in Offered THEN unsent[s] ELSE 0
Needed  == (Units("control") + Units("qpack_dec") + Units("qpack_enc")
             + Units("connect") + Capacity - 1) \div Capacity

Avail(s) == Min({credit[s], total})

on_write ==
  /\ pc = "idle"
  /\ pc' = "offer"
  /\ tight' = (room < Needed)
  /\ UNCHANGED <<conn, streams, limits>>

\* http3_writev; -1 as the stream ends the loop, a missing nghttp3 included.
http3_writev ==
  /\ pc = "offer"
  /\ pc' = IF Offered = {} THEN "finish" ELSE "write"
  /\ UNCHANGED <<conn, streams, limits, tight>>

\* The stream it offers.
cur == Order[Min({i \in 1 .. 4 : Order[i] \in Offered})]

http3_add_write_offset_zero(s, n) == UNCHANGED unsent

http3_add_write_offset(s, n) ==
  unsent' = [unsent EXCEPT ![s] = @ - n]

WriteFails ==
  /\ pc = "write"
  /\ conn = "dead"
  /\ pc' = "idle"
  /\ tight' = FALSE
  /\ UNCHANGED <<conn, streams, limits>>

\* The code shuts the stream in ngtcp2 once more and leaves the loop; nghttp3
\* goes on offering it.
WriteShut ==
  /\ pc = "write"
  /\ conn = "up"
  /\ cur \in shut
  /\ pc' = "finish"
  /\ UNCHANGED <<conn, streams, limits, tight>>

WriteBlocked_forgets ==
  /\ pc = "write"
  /\ conn = "up"
  /\ cur \notin shut
  /\ Avail(cur) = 0
  /\ pc' = "finish"
  /\ UNCHANGED <<conn, streams, limits, tight>>

\* nghttp3_conn_block_stream, and out of the loop.  There is no callback for
\* new stream credit, so nothing ever unblocks the stream.
WriteBlocked ==
  /\ pc = "write"
  /\ conn = "up"
  /\ cur \notin shut
  /\ Avail(cur) = 0
  /\ stalled' = stalled \cup {cur}
  /\ pc' = "finish"
  /\ UNCHANGED <<conn, httpconn, opened, unsent, limits, tight>>

\* writev_stream returns 0: the loop goes on, and as nothing changes within
\* the call it never ends.
WriteLimited ==
  /\ pc = "write"
  /\ conn = "up"
  /\ cur \notin shut
  /\ room = 0 /\ half = 0
  /\ pc' = "spin"
  /\ UNCHANGED <<conn, streams, limits, tight>>

\* ngtcp2 takes n units, into a packet it keeps (WRITE_MORE) or, when that is
\* full, into one that is sent.
WriteTakes ==
  /\ pc = "write"
  /\ conn = "up"
  /\ cur \notin shut
  /\ Avail(cur) > 0
  /\ room > 0
  /\ LET n == Min({unsent[cur], Avail(cur), Capacity - half}) IN
       /\ taken' = [taken EXCEPT ![cur] = @ + n]
       /\ credit' = [credit EXCEPT ![cur] = @ - n]
       /\ total' = total - n
       /\ half' = IF half + n = Capacity THEN 0 ELSE half + n
       /\ room' = IF half' = 0 THEN room - 1 ELSE room
       /\ http3_add_write_offset(cur, n)
  /\ pc' = "offer"
  /\ UNCHANGED <<conn, httpconn, opened, stalled, shut, tight>>

\* ngtcp2_conn_write_pkt sends the packet under construction, if there is one;
\* other packets it may write are part of CongestionMoves.
Finish ==
  /\ pc = "finish"
  /\ IF half > 0 /\ conn = "up"
       THEN half' = 0 /\ room' = room - 1
       ELSE UNCHANGED <<half, room>>
  /\ pc' = "idle"
  /\ tight' = FALSE
  /\ UNCHANGED <<conn, streams, taken, credit, total, shut>>

-----------------------------------------------------------------------------
(* What other callbacks of the loop do to ngtcp2 between calls (external). *)

\* Acknowledgements, losses, datagrams and retransmissions.
CongestionMoves(n) ==
  /\ pc = "idle"
  /\ conn = "up"
  /\ n # room
  /\ room' = n
  /\ UNCHANGED <<pc, conn, streams, taken, credit, total, shut, half, tight>>

\* MAX_STREAM_DATA and MAX_DATA, for as much as there is to send.
StreamCredit(s) ==
  /\ pc = "idle"
  /\ conn = "up"
  /\ credit[s] < unsent[s]
  /\ credit' = [credit EXCEPT ![s] = unsent[s]]
  /\ UNCHANGED <<pc, conn, streams, taken, total, shut, room, half, tight>>

ConnectionCredit ==
  /\ pc = "idle"
  /\ conn = "up"
  /\ total < MaxCredit
  /\ total' = MaxCredit
  /\ UNCHANGED <<pc, conn, streams, taken, credit, shut, room, half, tight>>

\* The server stops the request, or the connection ends.
StopSending ==
  /\ pc = "idle"
  /\ conn = "up"
  /\ shut' = {"connect"}
  /\ UNCHANGED <<pc, conn, streams, taken, credit, total, room, half, tight>>

ConnectionDies ==
  /\ pc = "idle"
  /\ conn' = "dead"
  /\ UNCHANGED <<pc, streams, limits, tight>>

-----------------------------------------------------------------------------
WriteStep ==
  \/ http3_writev
  \/ WriteFails
  \/ WriteShut
  \/ WriteBlocked
  \/ WriteLimited
  \/ WriteTakes
  \/ Finish

Next ==
  \/ cb_extend_max_local_streams_bidi
  \/ on_write
  \/ WriteStep
  \/ \E n \in 0 .. MaxRoom : CongestionMoves(n)
  \/ \E s \in Streams : StreamCredit(s)
  \/ ConnectionCredit
  \/ StopSending
  \/ ConnectionDies

\* A call of on_write runs, and the loop calls it again (EventLoop's
\* TimerStaysArmed).
Fairness == WF_vars(WriteStep) /\ WF_vars(on_write)

Spec == Init /\ [][Next]_vars /\ Fairness

-----------------------------------------------------------------------------
(* Properties.                                                             *)

\* After each call of on_write nghttp3 and ngtcp2 agree how much of every
\* stream has been taken, so that no unit is sent twice or skipped, whatever
\* answers the writes got; and no packet is left under construction.
BytesOnce ==
  pc = "idle" /\ conn = "up" =>
    /\ half = 0
    /\ \A s \in opened : taken[s] + unsent[s] = Length(s)

\* The call that does not end is one that began with less congestion window
\* than the data on offer needed.
Congested == pc = "spin" /\ tight

\* A CONNECT request whose stream was never blocked for want of its own credit
\* is written in full once its credit suffices, by a later call if another
\* stream's blockade ends this one: only a stopped stream, the end of the
\* connection, or a call that began short of congestion window prevent it.  A
\* request that was blocked once stays blocked, whatever credit follows.
RequestWritten ==
  /\ unsent["connect"] > 0 /\ "connect" \notin stalled
  /\ credit["connect"] >= unsent["connect"]
  /\ total >= MapThenSumSet(LAMBDA r : unsent[r], Streams)
  ~> unsent["connect"] = 0 \/ "connect" \in shut \/ conn = "dead" \/ Congested
=============================================================================

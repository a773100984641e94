------------------------------- MODULE MCWire -------------------------------
(***************************************************************************)
(* What a connection carries, side by side: its datagrams (ConnectIp) and  *)
(* its HTTP/3 streams (Http3Connect).  ngtcp2 packs them independently, so *)
(* a behaviour follows one of them, which kind names, and the other rests  *)
(* in its initial state.                                                   *)
(***************************************************************************)
EXTENDS MCConnectIp

CONSTANTS Capacity, Request, MaxRoom, MaxCredit

VARIABLES
  kind,
  pc, conn, httpconn, opened, unsent, stalled, taken, credit, total, shut,
  room, half, tight

http == <<pc, conn, httpconn, opened, unsent, stalled, taken, credit, total,
          shut, room, half, tight>>

Http == INSTANCE Http3Connect

ASSUME WireAssumption == Http!Http3Assumption

MCInit ==
  /\ Init /\ Http!Init
  /\ kind \in {"datagram", "stream"}
  /\ kind = "datagram" => total = 0 /\ credit = Http!Nothing

MCNext ==
  /\ UNCHANGED kind
  /\ \/ kind = "datagram" /\ Next /\ UNCHANGED http
     \/ kind = "stream" /\ Http!Next /\ UNCHANGED vars

\* The fairness of each module, for the one that does not rest.
MCFairness ==
  /\ WF_vars(kind = "datagram" /\ (SendPacket \/ RecvDatagram))
  /\ WF_http(kind = "stream" /\ Http!WriteStep)
  /\ WF_http(kind = "stream" /\ Http!on_write)

MCSpec == MCInit /\ [][MCNext]_<<kind, vars, http>> /\ MCFairness

\* The type invariants of both modules.
TypesOK == TypeOK /\ Http!TypeOK

\* Http3Connect: nghttp3 and ngtcp2 agree on every byte after each on_write.
BytesOnce == Http!BytesOnce

\* Http3Connect: a request that flow control admits is written in full.
RequestWritten == Http!RequestWritten
=============================================================================

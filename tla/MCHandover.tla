----------------------------- MODULE MCHandover -----------------------------
(***************************************************************************)
(* The two ways in which other threads hand packets to the event loop,     *)
(* side by side: usque_tunnel_send_packet (SendSlot) and, in a Windows     *)
(* build, the reader of the TUN device (WintunReader).  They share no      *)
(* state but the loop that serves both, so that a behaviour follows one of *)
(* them, which way names, and the other rests in its initial state.        *)
(***************************************************************************)
EXTENDS MCSendSlot

CONSTANTS MaxDevices, MaxArrivals

VARIABLES way, main, staged, field, ring, broken, event, flag, reader, handle,
          wake, devices, arrivals

wintun == <<main, staged, field, ring, broken, event, flag, reader, handle,
            wake, devices, arrivals>>

Wintun == INSTANCE WintunReader

ASSUME Wintun!WintunAssumption

MCInit ==
  /\ Init /\ Wintun!Init
  /\ way \in {"slot", "wintun"}

MCNext ==
  /\ UNCHANGED way
  /\ \/ way = "slot" /\ Next /\ UNCHANGED wintun
     \/ way = "wintun" /\ Wintun!Next /\ UNCHANGED vars

\* The fairness of each module, for the one that does not rest.
MCFairness ==
  /\ WF_vars(way = "slot" /\ on_send)
  /\ \A c \in Senders : WF_vars(way = "slot" /\ Finish(c))
  /\ WF_wintun(way = "wintun" /\ Wintun!MainThread)
  /\ WF_wintun(way = "wintun" /\ Wintun!tun_read_thread)

MCSpec == MCInit /\ [][MCNext]_<<way, vars, wintun>> /\ MCFairness

\* The type invariants of both modules.
TypesOK == TypeOK /\ Wintun!TypeOK

\* WintunReader: what an attempt or a failed set-up holds is given back, and
\* the reader finds what it uses.
DeviceAccounted == Wintun!DeviceAccounted

\* WintunReader: no packet is stranded in the ring.
RingDrained == Wintun!RingDrained

\* WintunReader: the end of an attempt does not wait for ever.
AttemptEnds == Wintun!AttemptEnds
=============================================================================

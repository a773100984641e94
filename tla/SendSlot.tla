------------------------------ MODULE SendSlot ------------------------------
(***************************************************************************)
(* usque_tunnel_send_packet (src/tunnel.cpp): threads hand packets to the  *)
(* event loop through the one slot send_buf, send_len, send_pending, and   *)
(* wake it with send_async.  The slot has no lock and its fields are       *)
(* neither atomic nor volatile, so the stores of a call may reach the loop *)
(* in any order before its uv_async_send, which is a barrier; the bytes    *)
(* are two halves that need not arrive together.                           *)
(*                                                                         *)
(* A definition named <action>_<slip> is the action with a slip a change   *)
(* of the code could make; it is no part of Next.                          *)
(***************************************************************************)
EXTENDS Naturals

CONSTANTS Senders,   \* threads that call usque_tunnel_send_packet
          MaxCalls   \* bound: calls made by each of them

ASSUME SendAssumption == MaxCalls \in Nat

VARIABLES
  calls,    \* calls[c]: number of calls c has begun
  job,      \* job[c]: the packet of the call c is in, or NoPacket
  todo,     \* todo[c]: stores that call has not made yet
  buf,      \* send_buf: the packet each half comes from
  len,      \* send_len: the packet it is the length of (NoPacket is 0)
  pending,  \* send_pending
  async,    \* send_async has a wake-up pending
  pc,       \* where on_send is
  arg,      \* the length on_send passes to engine.send_packet
  left,     \* halves engine.send_packet has yet to copy
  copy,     \* pkt_copy of engine.send_packet, by halves
  lone      \* the packet of a call begun with the slot at rest and followed
            \* by no other, or NoPacket

vars == <<calls, job, todo, buf, len, pending, async, pc, arg, left, copy,
          lone>>

Halves == {"head", "tail"}
Stores == Halves \cup {"len", "pending"}

\* A call is refused when the packet is longer than send_buf.
Sizes == {"empty", "fits", "oversized"}

Packet == [by : Senders, nr : 1 .. MaxCalls, size : {"empty", "fits"}]

NoPacket == [by |-> {}, nr |-> 0, size |-> "empty"]

Full == {p \in Packet : p.size = "fits"} \cup {NoPacket}

TypeOK ==
  /\ calls \in [Senders -> 0 .. MaxCalls]
  /\ job \in [Senders -> Packet \cup {NoPacket}]
  /\ todo \in [Senders -> SUBSET Stores]
  /\ buf \in [Halves -> Full]
  /\ len \in Full
  /\ pending \in BOOLEAN
  /\ async \in BOOLEAN
  /\ pc \in {"idle", "len", "copy"}
  /\ arg \in Full
  /\ left \subseteq Halves
  /\ copy \in [Halves -> Full]
  /\ lone \in Packet \cup {NoPacket}

\* usque_tunnel_new clears the structure.
Init ==
  /\ calls = [c \in Senders |-> 0]
  /\ job = [c \in Senders |-> NoPacket]
  /\ todo = [c \in Senders |-> {}]
  /\ buf = [h \in Halves |-> NoPacket]
  /\ len = NoPacket
  /\ pending = FALSE
  /\ async = FALSE
  /\ pc = "idle"
  /\ arg = NoPacket
  /\ left = {}
  /\ copy = [h \in Halves |-> NoPacket]
  /\ lone = NoPacket

loopVars == <<pc, arg, left, copy>>
callVars == <<calls, job, todo, lone>>

-----------------------------------------------------------------------------
(* usque_tunnel_send_packet.                                               *)

\* Nobody is inside a call, no wake-up is pending and on_send is not running.
AtRest == (\A c \in Senders : job[c] = NoPacket) /\ ~async /\ pc = "idle"

Begin(c, p) ==
  /\ job' = [job EXCEPT ![c] = p]
  /\ todo' = [todo EXCEPT ![c] = IF p.size = "empty" THEN {"len", "pending"}
                                                     ELSE Stores]
  /\ lone' = IF AtRest THEN p ELSE NoPacket

Call_unchecked(c, size) ==
  /\ job[c] = NoPacket
  /\ calls[c] < MaxCalls
  /\ calls' = [calls EXCEPT ![c] = @ + 1]
  /\ Begin(c, [by |-> c, nr |-> calls'[c], size |-> size])
  /\ UNCHANGED <<buf, len, pending, async, loopVars>>

\* An oversized packet is USQUE_ERR_INVALID_ARG; the slot is not touched.
Call(c, size) ==
  /\ job[c] = NoPacket
  /\ calls[c] < MaxCalls
  /\ calls' = [calls EXCEPT ![c] = @ + 1]
  /\ IF size = "oversized"
       THEN UNCHANGED <<job, todo, lone>>
       ELSE Begin(c, [by |-> c, nr |-> calls'[c], size |-> size])
  /\ UNCHANGED <<buf, len, pending, async, loopVars>>

\* One of the call's stores becomes visible to the loop.
Store(c, x) ==
  /\ x \in todo[c]
  /\ todo' = [todo EXCEPT ![c] = @ \ {x}]
  /\ buf' = IF x \in Halves THEN [buf EXCEPT ![x] = job[c]] ELSE buf
  /\ len' = IF x # "len" THEN len
            ELSE IF job[c].size = "empty" THEN NoPacket ELSE job[c]
  /\ pending' = (pending \/ x = "pending")
  /\ UNCHANGED <<calls, job, async, loopVars, lone>>

Notify_early(c) ==
  /\ job[c] # NoPacket
  /\ IF todo[c] = {}
       THEN job' = [job EXCEPT ![c] = NoPacket] /\ UNCHANGED async
       ELSE async' = TRUE /\ UNCHANGED job
  /\ UNCHANGED <<calls, todo, buf, len, pending, loopVars, lone>>

\* uv_async_send, and the return.
Notify(c) ==
  /\ job[c] # NoPacket
  /\ todo[c] = {}
  /\ async' = TRUE
  /\ job' = [job EXCEPT ![c] = NoPacket]
  /\ UNCHANGED <<calls, todo, buf, len, pending, loopVars, lone>>

-----------------------------------------------------------------------------
(* on_send, and engine.send_packet as far as it reads the slot.            *)

\* libuv clears the wake-up before it calls on_send, which tests
\* send_pending.
WakeUp ==
  /\ pc = "idle"
  /\ async
  /\ async' = FALSE
  /\ pc' = IF pending THEN "len" ELSE "idle"
  /\ UNCHANGED <<callVars, buf, len, pending, arg, left, copy>>

\* It tests send_len: a packet of length 0 leaves send_pending set.
LoadLen ==
  /\ pc = "len"
  /\ IF len = NoPacket
       THEN pc' = "idle" /\ UNCHANGED <<arg, left>>
       ELSE pc' = "copy" /\ arg' = len /\ left' = Halves
  /\ UNCHANGED <<callVars, buf, len, pending, async, copy>>

\* engine.send_packet copies the packet before it composes the datagram; what
\* it does with the copy (drop it, before the tunnel is ready) is EventLoop's.
Copy(h) ==
  /\ pc = "copy"
  /\ h \in left
  /\ copy' = [copy EXCEPT ![h] = buf[h]]
  /\ left' = left \ {h}
  /\ UNCHANGED <<callVars, buf, len, pending, async, pc, arg>>

\* send_pending = false, then on_write; the copy goes out of scope.
Clear ==
  /\ pc = "copy"
  /\ left = {}
  /\ pending' = FALSE
  /\ pc' = "idle"
  /\ arg' = NoPacket
  /\ copy' = [h \in Halves |-> NoPacket]
  /\ UNCHANGED <<callVars, buf, len, async, left>>

-----------------------------------------------------------------------------
on_send == WakeUp \/ LoadLen \/ Clear \/ \E h \in Halves : Copy(h)

\* A call once begun makes its stores and its uv_async_send.
Finish(c) == Notify(c) \/ \E x \in Stores : Store(c, x)

Next ==
  \/ \E c \in Senders :
       \/ \E size \in Sizes : Call(c, size)
       \/ Finish(c)
  \/ on_send

\* The event loop runs and calls run to their end; nobody has to call.
Fairness ==
  /\ WF_vars(on_send)
  /\ \A c \in Senders : WF_vars(Finish(c))

Spec == Init /\ [][Next]_vars /\ Fairness

-----------------------------------------------------------------------------
(* Properties.                                                             *)

\* A packet that waits in the slot is taken out of it: however stores, wake-ups
\* that coalesce and on_send's own store of send_pending interleave, a set flag
\* with a length is seen by a later run of on_send.
SlotDrains == pending /\ len # NoPacket ~> ~pending \/ len = NoPacket

\* A call that finds the slot at rest and is not overlapped by another has its
\* own packet read by the engine, with its own length, whatever calls came
\* before it, empty ones and ones that overlapped included.
LoneCallWhole ==
  lone.size = "fits" /\ pc = "copy" =>
    /\ arg = lone
    /\ \A h \in Halves \ left : copy[h] = lone

\* include/usque/tunnel.h: "Send an IP packet into the WARP tunnel.
\* Thread-safe.": what the engine sends is one caller's packet.
CallsArriveWhole ==
  pc = "copy" /\ left = {} => \A h \in Halves : copy[h] = arg
=============================================================================

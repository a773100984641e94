--------------------------- MODULE HandoverProofs ---------------------------
(***************************************************************************)
(* Proofs about MCHandover, which is SendSlot next to WintunReader.  Each  *)
(* of the two has an inductive invariant of its own; a step of one leaves  *)
(* the other at rest.                                                      *)
(***************************************************************************)
EXTENDS MCHandover, FiniteSetTheorems, TLAPS

-----------------------------------------------------------------------------
(* SendSlot.                                                               *)

\* A call has stores left only while it runs, an empty packet has no bytes to
\* store, and a packet knows its caller.
CallsOK ==
  \A c \in Senders :
    /\ job[c] = NoPacket => todo[c] = {}
    /\ job[c].size = "empty" => todo[c] \cap Halves = {}
    /\ job[c] # NoPacket => job[c].by = c

\* While a call counts as lone it is the only one.  Until its uv_async_send
\* the loop sleeps; a store it has made stays, as nobody is there to make
\* another; and on_send, once it runs, reads those stores alone.
LoneOK ==
  lone # NoPacket =>
    /\ \A c \in Senders : job[c] # NoPacket => job[c] = lone /\ ~async /\ pc = "idle"
    /\ lone.size = "fits" =>
         /\ \A h \in Halves :
              (\A c \in Senders : h \notin todo[c]) => buf[h] = lone
         /\ (\A c \in Senders : "len" \notin todo[c]) => len = lone
         /\ pc = "copy" => arg = lone /\ \A h \in Halves \ left : copy[h] = lone

SlotInv == TypeOK /\ CallsOK /\ LoneOK

\* The packet of a call: who makes it, the how manieth it is, and its size.
LEMMA CallPacket ==
  ASSUME SendAssumption, TypeOK, NEW c \in Senders, calls[c] < MaxCalls,
         NEW size \in {"empty", "fits"}
  PROVE  /\ calls[c] + 1 \in 1 .. MaxCalls
         /\ [by |-> c, nr |-> calls[c] + 1, size |-> size] \in Packet
         /\ [by |-> c, nr |-> calls[c] + 1, size |-> size] # NoPacket
<1>1. calls[c] \in 0 .. MaxCalls
  BY DEF TypeOK
<1>2. calls[c] + 1 \in 1 .. MaxCalls /\ calls[c] + 1 # 0
  BY <1>1 DEF SendAssumption
<1>3. [by |-> c, nr |-> calls[c] + 1, size |-> size].nr # NoPacket.nr
  BY <1>2 DEF NoPacket
<1> QED
  BY <1>2, <1>3 DEF Packet

\* NoPacket is no packet.
LEMMA NoPacketIsNone == NoPacket \notin Packet /\ NoPacket.size = "empty"
<1>1. \A p \in Packet : p.nr \in 1 .. MaxCalls
  BY DEF Packet
<1>2. NoPacket.nr = 0 /\ NoPacket.size = "empty"
  BY DEF NoPacket
<1> QED
  BY <1>1, <1>2

\* A call that begins.
LEMMA CallStep ==
  ASSUME SendAssumption, SlotInv, NEW c \in Senders, NEW size \in Sizes,
         Call(c, size)
  PROVE  SlotInv'
<1> USE DEF SlotInv, loopVars
<1>1. calls[c] + 1 \in 0 .. MaxCalls /\ calls' = [calls EXCEPT ![c] = calls[c] + 1]
  BY DEF Call, TypeOK, SendAssumption
<1>2. CASE size = "oversized"
  <2>1. UNCHANGED <<job, todo, lone, buf, len, pending, async, pc, arg, left, copy>>
    BY <1>2 DEF Call
  <2> QED
    BY <1>1, <2>1 DEF TypeOK, CallsOK, LoneOK
<1>3. CASE size # "oversized"
  <2> DEFINE p == [by |-> c, nr |-> calls[c] + 1, size |-> size]
  <2>1. size \in {"empty", "fits"}
    BY <1>3 DEF Sizes
  <2>2. p \in Packet /\ p # NoPacket
    BY <2>1, CallPacket DEF Call
  <2>3. p.by = c /\ p.size = size
    OBVIOUS
  <2>4. calls'[c] = calls[c] + 1
    BY <1>1 DEF TypeOK
  <2>5. Begin(c, p)
    BY <1>3, <2>4 DEF Call
  <2>6. UNCHANGED <<buf, len, pending, async, pc, arg, left, copy>>
    BY DEF Call
  <2> HIDE DEF p
  <2>7. /\ job' = [job EXCEPT ![c] = p]
        /\ todo' = [todo EXCEPT ![c] = IF size = "empty" THEN {"len", "pending"}
                                                         ELSE Stores]
        /\ lone' = IF AtRest THEN p ELSE NoPacket
    BY <2>3, <2>5 DEF Begin
  <2>8. TypeOK'
    BY <1>1, <2>2, <2>6, <2>7 DEF TypeOK, Stores, Halves
  <2>9. CallsOK'
    BY <2>1, <2>2, <2>3, <2>7 DEF TypeOK, CallsOK, Stores, Halves
  <2>10. LoneOK'
    <3>1. CASE ~AtRest
      BY <3>1, <2>7 DEF LoneOK
    <3>2. CASE AtRest
      <4>1. lone' = p /\ ~async' /\ pc' = "idle"
        BY <3>2, <2>6, <2>7 DEF AtRest
      <4>2. \A d \in Senders : job'[d] # NoPacket => job'[d] = p
        BY <3>2, <2>7 DEF AtRest, TypeOK
      <4>3. p.size = "fits" => \A x \in Halves \cup {"len"} : x \in todo'[c]
        BY <2>3, <2>7 DEF TypeOK, Stores
      <4> QED
        BY <4>1, <4>2, <4>3 DEF LoneOK
    <3> QED
      BY <3>1, <3>2
  <2> QED
    BY <2>8, <2>9, <2>10
<1> QED
  BY <1>2, <1>3

\* A store of a call that becomes visible.
LEMMA StoreStep ==
  ASSUME SlotInv, NEW c \in Senders, NEW x \in Stores, Store(c, x)
  PROVE  SlotInv'
<1> USE DEF SlotInv, loopVars
<1>1. /\ job[c] \in Packet /\ job[c] # NoPacket
      /\ job[c].size \in {"empty", "fits"}
      /\ x \in Halves => job[c].size = "fits"
  BY NoPacketIsNone DEF Store, TypeOK, CallsOK, Packet
<1>2. UNCHANGED <<calls, job, async, pc, arg, left, copy, lone>>
  BY DEF Store
<1>3. todo' = [todo EXCEPT ![c] = todo[c] \ {x}]
  BY DEF Store
<1>4. buf' = IF x \in Halves THEN [buf EXCEPT ![x] = job[c]] ELSE buf
  BY DEF Store
<1>5. len' = IF x # "len" THEN len
             ELSE IF job[c].size = "empty" THEN NoPacket ELSE job[c]
  BY DEF Store
<1>6. TypeOK'
  <2>1. buf' \in [Halves -> Full] /\ len' \in Full
    BY <1>1, <1>4, <1>5 DEF TypeOK, Full
  <2>2. todo' \in [Senders -> SUBSET Stores] /\ pending' \in BOOLEAN
    BY <1>3 DEF TypeOK, Store
  <2> QED
    BY <1>2, <2>1, <2>2 DEF TypeOK
<1>7. CallsOK'
  BY <1>2, <1>3 DEF CallsOK, TypeOK
<1>8. LoneOK'
  <2>1. SUFFICES ASSUME lone # NoPacket PROVE LoneOK'
    BY <1>2 DEF LoneOK
  <2>2. job[c] = lone /\ ~async /\ pc = "idle"
    BY <1>1, <2>1 DEF LoneOK
  <2>3. \A d \in Senders \ {c} : todo[d] = {}
    BY <2>1, <2>2, <1>1 DEF LoneOK, CallsOK
  <2>4. ASSUME lone.size = "fits", NEW h \in Halves,
               \A d \in Senders : h \notin todo'[d]
        PROVE  buf'[h] = lone
    BY <2>1, <2>2, <2>4, <1>3, <1>4 DEF LoneOK, TypeOK
  <2>5. ASSUME lone.size = "fits", \A d \in Senders : "len" \notin todo'[d]
        PROVE  len' = lone
    BY <2>1, <2>2, <2>5, <1>3, <1>5 DEF LoneOK, TypeOK
  <2> QED
    BY <2>1, <2>2, <2>4, <2>5, <1>2 DEF LoneOK
<1> QED
  BY <1>6, <1>7, <1>8

\* The uv_async_send of a call, which ends it.
LEMMA NotifyStep ==
  ASSUME SlotInv, NEW c \in Senders, Notify(c)
  PROVE  SlotInv'
<1> USE DEF SlotInv, loopVars
<1>1. UNCHANGED <<calls, todo, buf, len, pending, pc, arg, left, copy, lone>>
  BY DEF Notify
<1>2. async' /\ job' = [job EXCEPT ![c] = NoPacket] /\ todo[c] = {}
  BY DEF Notify
<1>3. TypeOK'
  BY <1>1 DEF TypeOK, Notify
<1>4. CallsOK'
  BY <1>1, <1>2, NoPacketIsNone DEF CallsOK, TypeOK
<1>5. LoneOK'
  <2>1. SUFFICES ASSUME lone # NoPacket PROVE LoneOK'
    BY <1>1 DEF LoneOK
  <2>2. job[c] = lone
    BY <2>1 DEF LoneOK, Notify
  <2>3. \A d \in Senders : job'[d] = NoPacket
    BY <2>1, <2>2, <1>2 DEF LoneOK, CallsOK, TypeOK
  <2> QED
    BY <2>1, <2>3, <1>1 DEF LoneOK
<1> QED
  BY <1>3, <1>4, <1>5

\* A step of on_send.
LEMMA OnSendStep ==
  ASSUME SlotInv, on_send
  PROVE  SlotInv'
<1> USE DEF SlotInv, callVars
<1>1. UNCHANGED <<calls, job, todo, lone, buf, len>>
  BY DEF on_send, WakeUp, LoadLen, Copy, Clear
<1>2. CallsOK'
  BY <1>1 DEF CallsOK
<1>3. ASSUME lone # NoPacket, NEW c \in Senders, job[c] # NoPacket PROVE FALSE
  BY <1>3 DEF LoneOK, on_send, WakeUp, LoadLen, Copy, Clear
<1>4. CASE WakeUp
  <2>1. TypeOK'
    BY <1>4 DEF WakeUp, TypeOK
  <2>2. LoneOK'
    BY <1>1, <1>3, <1>4 DEF WakeUp, LoneOK
  <2> QED
    BY <1>2, <2>1, <2>2
<1>5. CASE LoadLen
  <2>1. TypeOK'
    BY <1>5 DEF LoadLen, TypeOK
  <2>2. LoneOK'
    <3>1. SUFFICES ASSUME lone # NoPacket PROVE LoneOK'
      BY <1>1 DEF LoneOK
    <3>2. \A c \in Senders : todo[c] = {}
      BY <1>3, <3>1 DEF CallsOK
    <3>3. lone.size = "fits" => len = lone
      BY <3>1, <3>2 DEF LoneOK
    <3> QED
      BY <1>1, <1>3, <1>5, <3>1, <3>3 DEF LoadLen, LoneOK
  <2> QED
    BY <1>2, <2>1, <2>2
<1>6. ASSUME NEW h \in Halves, Copy(h) PROVE SlotInv'
  <2>1. TypeOK'
    BY <1>6 DEF Copy, TypeOK
  <2>2. LoneOK'
    <3>1. SUFFICES ASSUME lone # NoPacket PROVE LoneOK'
      BY <1>1 DEF LoneOK
    <3>2. \A c \in Senders : todo[c] = {}
      BY <1>3, <3>1 DEF CallsOK
    <3>3. lone.size = "fits" => buf[h] = lone
      BY <3>1, <3>2 DEF LoneOK
    <3>4. pc' = pc /\ arg' = arg /\ left' = left \ {h}
          /\ copy' = [copy EXCEPT ![h] = buf[h]]
      BY <1>6 DEF Copy
    <3>5. lone.size = "fits" /\ pc = "copy" =>
            \A g \in Halves \ left' : copy'[g] = lone
      BY <3>1, <3>3, <3>4 DEF LoneOK, TypeOK
    <3> QED
      BY <1>1, <1>3, <3>1, <3>4, <3>5 DEF LoneOK
  <2> QED
    BY <1>2, <2>1, <2>2
<1>7. CASE Clear
  <2>1. TypeOK'
    BY <1>7 DEF Clear, TypeOK, Full
  <2>2. LoneOK'
    BY <1>1, <1>3, <1>7 DEF Clear, LoneOK
  <2> QED
    BY <1>2, <2>1, <2>2
<1> QED
  BY <1>4, <1>5, <1>6, <1>7 DEF on_send

\* A step of SendSlot keeps its invariant.
LEMMA SlotStep ==
  ASSUME SendAssumption, SlotInv, [Next]_vars
  PROVE  SlotInv'
<1>1. CASE UNCHANGED vars
  <2>1. TypeOK'
    BY <1>1 DEF SlotInv, vars, TypeOK
  <2>2. CallsOK'
    BY <1>1 DEF SlotInv, vars, CallsOK
  <2>3. LoneOK'
    BY <1>1 DEF SlotInv, vars, LoneOK
  <2> QED
    BY <2>1, <2>2, <2>3 DEF SlotInv
<1>2. ASSUME NEW c \in Senders, Finish(c) PROVE SlotInv'
  BY <1>2, StoreStep, NotifyStep DEF Finish
<1> QED
  BY <1>1, <1>2, CallStep, OnSendStep DEF Next

-----------------------------------------------------------------------------
(* WintunReader.                                                           *)

\* What usque_tun_create holds after k of its stages.
Held(k) == {Wintun!Stages[j] : j \in 1 .. k}

\* The device is there from the end of usque_tun_create to usque_tun_destroy,
\* the reader only while the loop runs or is being left, and its handle is
\* open for as long.
DeviceInv ==
  /\ main = "delay" => staged = {}
  /\ main = "create" => \E k \in 0 .. 4 : staged = Held(k)
  /\ main \notin {"delay", "create"} => staged = Wintun!Parts
  /\ field <=> main \notin {"delay", "create"}
  /\ main \in {"loop", "drain", "exit", "join"} => handle = "open"
  /\ reader # "none" => main \in {"loop", "drain", "exit", "join"}
  /\ ring <= arrivals

ReaderInv == Wintun!TypeOK /\ DeviceInv

\* The stages one by one.
LEMMA HeldIs ==
  /\ Held(0) = {}
  /\ Held(1) = {"memory"}
  /\ Held(2) = {"memory", "dll"}
  /\ Held(3) = {"memory", "dll", "adapter"}
  /\ Held(4) = {"memory", "dll", "adapter", "session"}
  /\ Held(4) = Wintun!Parts
<1>1. /\ Wintun!Stages[1] = "memory" /\ Wintun!Stages[2] = "dll"
      /\ Wintun!Stages[3] = "adapter" /\ Wintun!Stages[4] = "session"
  BY DEF Wintun!Stages
<1>2. /\ 1 .. 0 = {} /\ 1 .. 1 = {1} /\ 1 .. 2 = {1, 2} /\ 1 .. 3 = {1, 2, 3}
      /\ 1 .. 4 = {1, 2, 3, 4}
  OBVIOUS
<1> QED
  BY <1>1, <1>2 DEF Held, Wintun!Parts

\* The cardinality WintunReader counts with is the usual one.
LEMMA SameCardinality == \A S : Wintun!Cardinality(S) = Cardinality(S)
  BY DEF Wintun!Cardinality, Cardinality

\* The number of stages that usque_tun_create has passed.
LEMMA HeldSize ==
  \A k \in 0 .. 4 : Cardinality(Held(k)) = k
<1>1. Cardinality(Held(0)) = 0 /\ IsFiniteSet(Held(0))
  BY HeldIs, FS_EmptySet
<1>2. Cardinality(Held(1)) = 1 /\ IsFiniteSet(Held(1))
  BY HeldIs, FS_Singleton
<1>3. Held(2) = Held(1) \cup {"dll"} /\ "dll" \notin Held(1)
  BY HeldIs
<1>4. Cardinality(Held(2)) = 2 /\ IsFiniteSet(Held(2))
  BY <1>2, <1>3, FS_AddElement
<1>5. Held(3) = Held(2) \cup {"adapter"} /\ "adapter" \notin Held(2)
  BY HeldIs
<1>6. Cardinality(Held(3)) = 3 /\ IsFiniteSet(Held(3))
  BY <1>4, <1>5, FS_AddElement
<1>7. Held(4) = Held(3) \cup {"session"} /\ "session" \notin Held(3)
  BY HeldIs
<1>8. Cardinality(Held(4)) = 4
  BY <1>6, <1>7, FS_AddElement
<1>9. \A k \in 0 .. 4 : k = 0 \/ k = 1 \/ k = 2 \/ k = 3 \/ k = 4
  OBVIOUS
<1> QED
  BY <1>1, <1>2, <1>4, <1>6, <1>8, <1>9

\* Each early return of usque_tun_create frees all that is held there.
LEMMA EarlyReturnFrees ==
  \A k \in 0 .. 4 : Held(k) \ Wintun!EarlyReturn[k + 1] = {}
<1>1. \A k \in 0 .. 4 : k = 0 \/ k = 1 \/ k = 2 \/ k = 3 \/ k = 4
  OBVIOUS
<1>2. /\ Wintun!EarlyReturn[1] = {}
      /\ Wintun!EarlyReturn[2] = {"memory"}
      /\ Wintun!EarlyReturn[3] = {"dll", "memory"}
      /\ Wintun!EarlyReturn[4] = {"adapter", "dll", "memory"}
      /\ Wintun!EarlyReturn[5] = {"session", "adapter", "dll", "memory"}
  BY DEF Wintun!EarlyReturn
<1> QED
  BY <1>1, <1>2, HeldIs

\* A step of WintunReader keeps its invariant.
LEMMA ReaderStep ==
  ASSUME Wintun!WintunAssumption, ReaderInv, [Wintun!Next]_(Wintun!vars)
  PROVE  ReaderInv'
<1> USE DEF ReaderInv, DeviceInv, Wintun!TypeOK, Wintun!session,
            Wintun!thread, Wintun!async, Wintun!counts,
            Wintun!WintunAssumption
<1>1. CASE Wintun!Connect
  <2>1. staged' = Held(0)
    BY <1>1, HeldIs DEF Wintun!Connect
  <2> QED
    BY <1>1, <2>1 DEF Wintun!Connect
<1>2. CASE Wintun!Stage
  <2>1. PICK k \in 0 .. 4 : staged = Held(k)
    BY <1>2 DEF Wintun!Stage
  <2>2. k \in 0 .. 3 /\ Cardinality(staged) = k
    BY <1>2, <2>1, HeldIs, HeldSize DEF Wintun!Stage
  <2>3. staged' = Held(k) \cup {Wintun!Stages[k + 1]}
    <3>1. staged' = staged \cup {Wintun!Stages[Cardinality(staged) + 1]}
      BY <1>2, SameCardinality DEF Wintun!Stage
    <3> QED
      BY <2>1, <2>2, <3>1
  <2>4. staged' = Held(k + 1) /\ k + 1 \in 0 .. 4
    <3>1. 1 .. k + 1 = 1 .. k \cup {k + 1}
      BY <2>2
    <3> QED
      BY <3>1, <2>2, <2>3 DEF Held
  <2>5. staged' \subseteq Wintun!Parts
    <3>1. 1 .. k + 1 \subseteq 1 .. 4
      BY <2>2
    <3> QED
      BY <2>4, <3>1 DEF Held, Wintun!Parts
  <2> QED
    BY <1>2, <2>4, <2>5 DEF Wintun!Stage
<1>3. CASE Wintun!StageFails
  <2>1. PICK k \in 0 .. 4 : staged = Held(k)
    BY <1>3 DEF Wintun!StageFails
  <2>2. staged' = {}
    <3>1. staged' = staged \ Wintun!EarlyReturn[Cardinality(staged) + 1]
      BY <1>3, SameCardinality DEF Wintun!StageFails
    <3>2. Cardinality(staged) = k
      BY <2>1, HeldSize
    <3> QED
      BY <2>1, <3>1, <3>2, EarlyReturnFrees
  <2>3. ring' \in 0 .. MaxArrivals /\ ring' <= arrivals
    BY <1>3 DEF Wintun!StageFails
  <2>4. reader = "none" /\ ~field
    BY <1>3 DEF Wintun!StageFails
  <2> QED
    BY <1>3, <2>2, <2>3, <2>4 DEF Wintun!StageFails
<1>4. CASE Wintun!Created
  BY <1>4 DEF Wintun!Created
<1>5. CASE Wintun!AttemptFails \/ Wintun!EndAttempt
  <2>1. Wintun!usque_tun_destroy /\ reader = "none"
        /\ UNCHANGED <<flag, reader, handle, wake, devices, arrivals>>
    BY <1>5 DEF Wintun!AttemptFails, Wintun!EndAttempt
  <2>2. ring' \in 0 .. MaxArrivals /\ ring' <= arrivals
    BY <2>1 DEF Wintun!usque_tun_destroy
  <2> QED
    BY <2>1, <2>2 DEF Wintun!usque_tun_destroy
<1>6. CASE Wintun!StartReader
  BY <1>6 DEF Wintun!StartReader
<1>7. CASE Wintun!EventLoop
  <2>1. ring' \in 0 .. MaxArrivals /\ ring' <= arrivals
    BY <1>7 DEF Wintun!EventLoop, Wintun!WakeUp, Wintun!Drain
  <2>2. /\ main \in {"loop", "drain"} /\ main' \in {"loop", "drain"}
        /\ wake' \in BOOLEAN
        /\ UNCHANGED <<staged, field, broken, event, flag, reader, handle,
                       devices, arrivals>>
    BY <1>7 DEF Wintun!EventLoop, Wintun!WakeUp, Wintun!Drain
  <2> QED
    BY <2>1, <2>2
<1>8. CASE Wintun!LoopEnds \/ Wintun!ClearFlag \/ Wintun!Join
  BY <1>8 DEF Wintun!LoopEnds, Wintun!ClearFlag, Wintun!Join
<1>9. CASE Wintun!CloseAsync
  BY <1>9 DEF Wintun!CloseAsync
<1>10. CASE Wintun!tun_read_thread
  BY <1>10 DEF Wintun!tun_read_thread, Wintun!TestFlag, Wintun!Wait,
     Wintun!TestFlagAgain, Wintun!Send
<1>11. CASE Wintun!Arrive
  BY <1>11 DEF Wintun!Arrive
<1>12. CASE Wintun!RingBreaks
  BY <1>12 DEF Wintun!RingBreaks
<1>13. CASE UNCHANGED Wintun!vars
  BY <1>13 DEF Wintun!vars
<1> QED
  BY <1>1, <1>2, <1>3, <1>4, <1>5, <1>6, <1>7, <1>8, <1>9, <1>10, <1>11,
     <1>12, <1>13 DEF Wintun!Next, Wintun!MainThread

-----------------------------------------------------------------------------
(* Both.                                                                   *)

IInv == SlotInv /\ ReaderInv

\* The inductive invariant of both modules holds at first and after each step.
THEOREM HandoverInvariant == MCSpec => []IInv
<1> USE SendAssumption, Wintun!WintunAssumption
<1>1. MCInit => IInv
  <2> SUFFICES ASSUME MCInit PROVE IInv
    OBVIOUS
  <2>1. TypeOK
    <3>1. 0 \in 0 .. MaxCalls
      BY DEF SendAssumption
    <3> QED
      BY <3>1 DEF MCInit, Init, TypeOK, Full
  <2>2. CallsOK /\ LoneOK
    BY DEF MCInit, Init, CallsOK, LoneOK
  <2>3. ReaderInv
    <3>1. 0 \in 0 .. MaxDevices /\ 0 \in 0 .. MaxArrivals
      BY DEF Wintun!WintunAssumption
    <3> QED
      <4>1. Wintun!TypeOK
        BY <3>1 DEF MCInit, Wintun!Init, Wintun!TypeOK
      <4>2. DeviceInv
        BY DEF MCInit, Wintun!Init, DeviceInv
      <4> QED
        BY <4>1, <4>2 DEF ReaderInv
  <2> QED
    BY <2>1, <2>2, <2>3 DEF IInv, SlotInv
<1>2. IInv /\ [MCNext]_<<way, vars, wintun>> => IInv'
  <2> SUFFICES ASSUME IInv, [MCNext]_<<way, vars, wintun>>
               PROVE  IInv'
    OBVIOUS
  <2>1. [Next]_vars /\ [Wintun!Next]_(Wintun!vars)
    BY DEF MCNext, wintun, Wintun!vars
  <2> QED
    BY <2>1, SlotStep, ReaderStep DEF IInv
<1> QED
  BY <1>1, <1>2, PTL DEF MCSpec

\* Type correctness of the two modules, for any threads that call, any number
\* of calls, devices and packets.
THEOREM TypesCorrect == MCSpec => []TypesOK
<1>1. IInv => TypesOK
  BY DEF IInv, SlotInv, ReaderInv, TypesOK
<1> QED
  BY <1>1, HandoverInvariant, PTL

\* However usque_tunnel_send_packet was overlapped before, a call that finds
\* the slot at rest and is not overlapped has its own packet sent.
THEOREM LoneCallsArrive == MCSpec => []LoneCallWhole
<1>1. IInv => LoneCallWhole
  <2>1. NoPacket.size # "fits"
    BY NoPacketIsNone
  <2> QED
    BY <2>1 DEF IInv, SlotInv, LoneOK, LoneCallWhole
<1> QED
  BY <1>1, HandoverInvariant, PTL

\* No early return of usque_tun_create keeps anything, and tun_read_thread
\* never outlives the device, the event and the handle it uses.
THEOREM DeviceHeld == MCSpec => []DeviceAccounted
<1>1. IInv => DeviceAccounted
  BY DEF IInv, ReaderInv, DeviceInv, DeviceAccounted, Wintun!DeviceAccounted,
         Wintun!TypeOK
<1> QED
  BY <1>1, HandoverInvariant, PTL
=============================================================================

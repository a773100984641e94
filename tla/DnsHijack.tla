----------------------------- MODULE DnsHijack ------------------------------
(***************************************************************************)
(* The DNS redirection of src/tun/dns_hijack.c for one tunnel: queries read *)
(* from the TUN device are readdressed to the hijack target and remembered  *)
(* in the array pending[0 .. pending_count-1]; replies of the target get    *)
(* the address back that the client had asked.  Packets that are not IPv4   *)
(* UDP port 53 pass through both functions and are left out; addresses,     *)
(* ports and checksums are abstracted to clients and servers.               *)
(*                                                                          *)
(* The network between (engine and target) may lose a query or its reply    *)
(* and deliver a reply twice.  net, asked and excess are history variables. *)
(*                                                                          *)
(* A definition named <definition>_<slip> is that definition with a slip a  *)
(* change of the code could make; it is no part of Next.                    *)
(***************************************************************************)
EXTENDS Integers, Sequences, FiniteSets

CONSTANTS Clients,      \* <<source address, source port>> of DNS clients
          Servers,      \* addresses the clients send their queries to
          Target,       \* hijack_v4
          MaxPending,   \* DNS_HIJACK_MAX_PENDING, 256 in the source
          MaxQueries,   \* bound: queries per connection
          MaxRepeats    \* bound: duplicated replies per client

ASSUME DnsAssumption ==
  /\ Target \notin Servers
  /\ MaxPending \in Nat /\ MaxQueries \in Nat /\ MaxRepeats \in Nat

VARIABLES pending,  \* the array, as a sequence: pending[1] is the source's [0]
          net,      \* net[c]: queries of c whose reply may still come
          reply,    \* the reply written to the TUN device by the last step
          asked,    \* pairs <<c, s>> queried since the context was created
          queries,  \* number of queries since then
          excess    \* excess[c]: queries of c not remembered + repeated replies

vars == <<pending, net, reply, asked, queries, excess>>

Entry == [client : Clients, dst : Servers]

NoReply == [client |-> {}, from |-> {}]

TypeOK ==
  /\ pending \in Seq(Entry)
  /\ Len(pending) <= MaxPending
  /\ net \in [Clients -> Nat]
  /\ reply \in [client : Clients, from : Servers \cup {Target}] \cup {NoReply}
  /\ asked \subseteq Clients \X Servers
  /\ queries \in Nat
  /\ excess \in [Clients -> Nat]

Init ==
  /\ pending = <<>>
  /\ net = [c \in Clients |-> 0]
  /\ reply = NoReply
  /\ asked = {}
  /\ queries = 0
  /\ excess = [c \in Clients |-> 0]

-----------------------------------------------------------------------------
(* The two rewriting functions, on the array.                              *)

Full_offByOne == Len(pending) > MaxPending

Full == Len(pending) >= MaxPending

\* usque_dns_hijack_rewrite_query: the mapping is kept only while there is
\* room; the packet is readdressed in either case.
SaveMapping(c, s) ==
  IF Full THEN pending ELSE Append(pending, [client |-> c, dst |-> s])

\* Indices of the mappings that match a reply sent to client c.
Matches_anyPort(c) == 1 .. Len(pending)

Matches(c) == {i \in 1 .. Len(pending) : pending[i].client = c}

\* The loop of usque_dns_hijack_rewrite_response runs from the last index.
Newest(S) == CHOOSE i \in S : \A j \in S : j <= i

\* ctx->pending[i] = ctx->pending[--ctx->pending_count]
SwapRemove_truncate(i) == [j \in 1 .. Len(pending) - 1 |-> pending[j]]

SwapRemove(i) ==
  [j \in 1 .. Len(pending) - 1 |->
     IF j = i THEN pending[Len(pending)] ELSE pending[j]]

\* usque_dns_hijack_rewrite_response on a reply of the target to client c.
rewrite_response(c) ==
  IF Matches(c) = {}
    THEN /\ reply' = [client |-> c, from |-> Target]
         /\ UNCHANGED pending
    ELSE LET i == Newest(Matches(c))
         IN  /\ reply' = [client |-> c, from |-> pending[i].dst]
             /\ pending' = SwapRemove(i)

-----------------------------------------------------------------------------
(* Steps.                                                                  *)

\* on_tun_read: rewrite_query, then engine.send_packet, which may refuse the
\* packet (no tunnel yet, too long): then the mapping stays behind.
on_tun_read(c, s, sent) ==
  /\ queries < MaxQueries
  /\ queries' = queries + 1
  /\ asked' = asked \cup {<<c, s>>}
  /\ pending' = SaveMapping(c, s)
  /\ net' = IF sent THEN [net EXCEPT ![c] = @ + 1] ELSE net
  /\ excess' = IF Full THEN [excess EXCEPT ![c] = @ + 1] ELSE excess
  /\ reply' = NoReply

\* The reply to a query of c comes in: recv_cb in run_connection.
Receive(c) ==
  /\ net[c] > 0
  /\ net' = [net EXCEPT ![c] = @ - 1]
  /\ rewrite_response(c)
  /\ UNCHANGED <<asked, queries, excess>>

\* The same reply comes in and another copy is still to come.
ReceiveAgain(c) ==
  /\ net[c] > 0
  /\ excess[c] < MaxRepeats
  /\ excess' = [excess EXCEPT ![c] = @ + 1]
  /\ rewrite_response(c)
  /\ UNCHANGED <<net, asked, queries>>

\* The query, or the reply to it, is lost in the network.
Lose(c) ==
  /\ net[c] > 0
  /\ net' = [net EXCEPT ![c] = @ - 1]
  /\ reply' = NoReply
  /\ UNCHANGED <<pending, asked, queries, excess>>

\* The connection ends and run_connection starts over with
\* usque_dns_hijack_create; replies of the old connection never arrive.
Recreate ==
  /\ queries > 0
  /\ pending' = <<>>
  /\ net' = [c \in Clients |-> 0]
  /\ reply' = NoReply
  /\ asked' = {}
  /\ queries' = 0
  /\ excess' = [c \in Clients |-> 0]

Next ==
  \/ \E c \in Clients :
       \/ \E s \in Servers, sent \in BOOLEAN : on_tun_read(c, s, sent)
       \/ Receive(c)
       \/ ReceiveAgain(c)
       \/ Lose(c)
  \/ Recreate

Spec == Init /\ [][Next]_vars

-----------------------------------------------------------------------------
(* Properties.                                                             *)

\* A reply is only ever given the address of a server that this very client
\* asked through this very context: no mapping of another client and none of
\* an earlier connection is used.
RestoredIsAsked ==
  reply # NoReply /\ reply.from # Target => <<reply.client, reply.from>> \in asked

Held(c) == Cardinality(Matches(c))

\* As long as no query of a client found the array full and no reply to it
\* came twice, every reply still under way to it finds a mapping; each such
\* event costs at most one.  Loss, other clients and the swap that fills the
\* gap of a removed mapping cost none.
NoneForgotten == \A c \in Clients : net[c] <= Held(c) + excess[c]

\* The array implements the bag of DnsNat: order is forgotten, and moving the
\* last entry into the gap loses and duplicates no mapping.
Table ==
  [cs \in Clients \X Servers |->
     Cardinality({i \in 1 .. Len(pending) :
                    pending[i] = [client |-> cs[1], dst |-> cs[2]]})]

Nat1 == INSTANCE DnsNat WITH
  table <- Table, size <- Len(pending), Capacity <- MaxPending

ImplementsNat == Nat1!Spec

\* include/usque/dns_hijack.h: "if packet is UDP src port 53 from the hijack
\* target, restore the original destination IP": no reply reaches a client
\* with the hijack target as its source.
EveryReplyRestored == reply.from # Target
=============================================================================

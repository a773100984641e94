----------------------------- MODULE ConnectIp -----------------------------
(***************************************************************************)
(* One IP packet on its way through the tunnel: src/connectip/connect_ip.c *)
(* as send_packet and cb_recv_datagram (src/transport/quic_engine.cpp) use *)
(* it.  The packet comes from the host, from the noise of an attempt       *)
(* (src/tunnel.cpp) or from the peer.  What arrives may be sent again: a   *)
(* user of the library relays it, or the peer echoes it, so that a packet  *)
(* can loop.                                                               *)
(*                                                                         *)
(* A packet is a record of the header fields the code reads: ver, ihl (in  *)
(* 32-bit words), claimed (IPv4 total length, IPv6 payload length), ttl    *)
(* (IPv4 time to live, IPv6 hop limit), cksum, and len, the bytes there    *)
(* are.  Of the other 16-bit words of the header only the sum matters:     *)
(* rest is that of the 20 fixed bytes, opts that of the options.           *)
(*                                                                         *)
(* cip_varint_encode and cip_compose_icmp_too_big have no caller in src/   *)
(* but the tests and are not modelled.                                     *)
(***************************************************************************)
EXTENDS Integers, Sequences

CONSTANTS Packets,     \* packets the host hands over
          Datagrams,   \* datagrams the peer sends of its own
          NoiseSizes,  \* payload sizes the noise settings lead to
          NoiseRests,  \* sums of the random words of a noise header
          Buffer       \* bytes of the packet buffers of a send (1500)

Ipv4Hdr == 20
Ipv6Hdr == 40
Word    == 65536

\* The widths of the fields.  rest sums six words and two bytes, opts twenty
\* words at most.
IpPacket ==
  [ver : 0 .. 15, ihl : 0 .. 15, claimed : 0 .. Word - 1, ttl : 0 .. 255,
   rest : 0 .. 6 * (Word - 1) + 2 * 255, opts : 0 .. 20 * (Word - 1),
   cksum : 0 .. Word - 1, len : Nat]

ASSUME ConnectIpAssumption ==
  /\ Buffer \in Nat /\ Ipv4Hdr < Buffer /\ Buffer < Word
  /\ Packets \subseteq IpPacket
  /\ Datagrams \subseteq [ctx : Seq(0 .. 255), pkt : IpPacket]
  /\ NoiseSizes \subseteq Nat
  /\ NoiseRests \subseteq 0 .. 6 * (Word - 1) + 2 * 255

VARIABLES
  where,   \* idle, host, wire, or dropped for good
  pkt,     \* the packet
  ctx,     \* the bytes before the packet on the wire: its context identifier
  first,   \* the packet as it first came (never changes afterwards)
  hops     \* how often the tunnel has sent it (modulo 256)

vars == <<where, pkt, ctx, first, hops>>

-----------------------------------------------------------------------------

\* The loop that folds the carries of a sum below 2^20 runs at most twice.
Fold16(sum) ==
  LET Carry(n) == (n % Word) + (n \div Word)
  IN  Carry(Carry(sum))

HeaderSum(p) == (p.ver * 16 + p.ihl) * 256 + p.claimed + p.ttl * 256 + p.rest

\* A slip: the carry is folded once only.
cip_ipv4_checksum_once(p) ==
  LET sum == HeaderSum(p) IN Word - 1 - ((sum % Word) + (sum \div Word))

\* cip_ipv4_checksum: the words of the 20 fixed bytes but the checksum itself.
cip_ipv4_checksum(p) == Word - 1 - Fold16(HeaderSum(p))

\* The value of a varint and the bytes it takes, 0 if bytes are missing;
\* length counts the bytes of the datagram.
cip_varint_decode(bytes, length) ==
  IF length = 0 THEN [n |-> 0, value |-> 0]
  ELSE LET n == <<1, 2, 4, 8>>[(bytes[1] \div 64) + 1]
           v[i \in 1 .. n] == IF i = 1 THEN bytes[1] % 64
                                       ELSE v[i - 1] * 256 + bytes[i]
       IN  IF length < n THEN [n |-> 0, value |-> 0]
                         ELSE [n |-> n, value |-> v[n]]

\* The lengths a header claims are there.
LengthsHold(p) ==
  \/ /\ p.ver = 4 /\ p.len >= Ipv4Hdr
     /\ p.ihl * 4 >= Ipv4Hdr /\ p.ihl * 4 <= p.len
     /\ p.claimed <= p.len
  \/ /\ p.ver = 6 /\ p.len >= Ipv6Hdr
     /\ p.claimed + Ipv6Hdr <= p.len

\* A slip: the checksum is taken before the field is decremented.
Decremented_late(p) ==
  IF p.ver = 4
  THEN [p EXCEPT !.ttl = (@ + 255) % 256, !.cksum = cip_ipv4_checksum(p)]
  ELSE [p EXCEPT !.ttl = (@ + 255) % 256]

\* What cip_compose_datagram makes of the packet in place; ttl is a byte.
Decremented(p) ==
  LET q == [p EXCEPT !.ttl = (@ + 255) % 256]
  IN  IF p.ver = 4 THEN [q EXCEPT !.cksum = cip_ipv4_checksum(q)] ELSE q

\* A slip: the time to live is not looked at.
Composes_forever(p) ==
  p.len > 0 /\ LengthsHold(p) /\ p.len + 1 <= Buffer

\* A slip: only zero is refused.
Composes_zero(p) ==
  p.len > 0 /\ LengthsHold(p) /\ p.ttl > 0 /\ p.len + 1 <= Buffer

\* cip_compose_datagram: the packet goes out, after the context identifier 0,
\* if its header holds, it may go on, and the buffer has room.
Composes(p) ==
  p.len > 0 /\ LengthsHold(p) /\ p.ttl > 1 /\ p.len + 1 <= Buffer

\* A slip: a packet as long as its header claims is refused.
Parses_strict(bytes, p) ==
  LET id == cip_varint_decode(bytes, Len(bytes) + p.len) IN
    /\ id.n # 0 /\ id.value = 0
    /\ p.len > 0
    /\ LengthsHold([p EXCEPT !.claimed = @ + 1])

\* cip_parse_datagram.
Parses(bytes, p) ==
  LET id == cip_varint_decode(bytes, Len(bytes) + p.len) IN
    /\ id.n # 0 /\ id.value = 0
    /\ p.len > 0
    /\ LengthsHold(p)

\* cip_compose_noise_packet: 64 is the time to live.
NoisePacket(size, rest) ==
  LET p == [ver |-> 4, ihl |-> 5, claimed |-> (Ipv4Hdr + size) % Word,
            ttl |-> 64, rest |-> rest, opts |-> 0, cksum |-> 0,
            len |-> Ipv4Hdr + size]
  IN  [p EXCEPT !.cksum = cip_ipv4_checksum(p)]

-----------------------------------------------------------------------------

NoPacket == [ver |-> 0, ihl |-> 0, claimed |-> 0, ttl |-> 0, rest |-> 0,
             opts |-> 0, cksum |-> 0, len |-> 0]

Init ==
  /\ where = "idle"
  /\ pkt = NoPacket
  /\ first = NoPacket
  /\ ctx = <<>>
  /\ hops = 0

Enters(place, bytes, p) ==
  /\ where' = place
  /\ pkt' = p
  /\ first' = p
  /\ ctx' = bytes
  /\ UNCHANGED hops

\* on_tun_read, on_send: a packet of the host.
FromHost == where = "idle" /\ \E p \in Packets : Enters("host", <<>>, p)

\* inject_post_noise; a size that does not fit is skipped.
FromNoise ==
  /\ where = "idle"
  /\ \E size \in NoiseSizes, rest \in NoiseRests :
       /\ Ipv4Hdr + size <= Buffer
       /\ Enters("host", <<>>, NoisePacket(size, rest))

\* A datagram the peer made itself.
FromPeer ==
  where = "idle" /\ \E d \in Datagrams : Enters("wire", d.ctx, d.pkt)

\* send_packet.  The connection may refuse the datagram for its size.
SendPacket ==
  /\ where = "host"
  /\ \/ /\ pkt.len <= Buffer /\ Composes(pkt)
        /\ where' = "wire"
        /\ pkt' = Decremented(pkt)
        /\ ctx' = <<0>>
        /\ hops' = (hops + 1) % 256
     \/ where' = "dropped" /\ UNCHANGED <<pkt, ctx, hops>>
  /\ UNCHANGED first

\* cb_recv_datagram, at either end; or the datagram is lost.
RecvDatagram ==
  /\ where = "wire"
  /\ where' \in {"dropped"} \union (IF Parses(ctx, pkt) THEN {"host"} ELSE {})
  /\ ctx' = <<>>
  /\ UNCHANGED <<pkt, first, hops>>

Next == FromHost \/ FromNoise \/ FromPeer \/ SendPacket \/ RecvDatagram

Spec == Init /\ [][Next]_vars /\ WF_vars(SendPacket \/ RecvDatagram)

-----------------------------------------------------------------------------
(* Properties.                                                             *)

TypeOK ==
  /\ where \in {"idle", "host", "wire", "dropped"}
  /\ {pkt, first} \subseteq IpPacket
  /\ ctx \in Seq(0 .. 255)
  /\ hops \in 0 .. 255

\* A packet the tunnel has sent is the one that came but for the checksum and
\* one unit of its time to live for each hop, and it never goes out with none
\* left (connect_ip.c:112-114, 124-125).
HopsPaid ==
  /\ pkt = [first EXCEPT !.ttl = @ - hops, !.cksum = pkt.cksum]
  /\ hops > 0 => pkt.ttl > 0
  /\ pkt.ver = 6 => pkt.cksum = first.cksum

\* A receiver that sums the whole header of an IPv4 packet finds it sound after
\* every hop, whatever checksum the packet came with, unless it has options:
\* cip_ipv4_checksum leaves these out, so that they must add up to nothing.
ChecksumSound ==
  hops > 0 /\ pkt.ver = 4 =>
    (Fold16(HeaderSum(pkt) + pkt.opts + pkt.cksum) = Word - 1)
      = (pkt.opts % (Word - 1) = 0)

\* The two ends agree: whatever cip_compose_datagram lets out,
\* cip_parse_datagram takes in.
ComposedParses == where = "wire" /\ hops > 0 => Parses(ctx, pkt)

\* A packet that loops through the tunnel ends.
LoopEnds == (where = "host") ~> (where = "dropped")
=============================================================================

----------------------------- MODULE WireProofs -----------------------------
(***************************************************************************)
(* Proofs about MCWire, which is ConnectIp next to Http3Connect.  Each of  *)
(* the two has an inductive invariant of its own; a step of one leaves the *)
(* other at rest.                                                          *)
(***************************************************************************)
EXTENDS MCWire, TLAPS

-----------------------------------------------------------------------------
(* The checksum.                                                           *)

\* Word is a number, which most steps need not know.
LEMMA WordIsNat == Word \in Nat
  BY SMT DEF Word

\* One carry keeps the sum modulo 65535, and keeps it from being nothing.
LEMMA CarryOnce ==
  ASSUME NEW n \in Nat
  PROVE  \E q, r \in Nat :
           /\ n = Word * q + r /\ r < Word
           /\ (n % Word) + (n \div Word) = q + r
<1> DEFINE q == n \div Word
           r == n % Word
<1>1. q \in Nat /\ r \in Nat /\ r < Word /\ n = Word * q + r
  BY SMT DEF Word
<1> QED
  BY <1>1

\* Two carries fold a sum of less than 2^22 into 16 bits.
LEMMA FoldIs ==
  ASSUME NEW n \in Nat, n < 64 * Word
  PROVE  /\ Fold16(n) \in Nat /\ Fold16(n) < Word
         /\ \E k \in Nat : n = (Word - 1) * k + Fold16(n)
         /\ n > 0 => Fold16(n) > 0
<1> DEFINE c == (n % Word) + (n \div Word)
<1>1. PICK q \in Nat, r \in Nat : n = Word * q + r /\ r < Word /\ c = q + r
  BY CarryOnce
<1> HIDE DEF c
<1>2. q < 64 /\ c \in Nat /\ c < Word + 63
  BY <1>1, SMT DEF Word
<1>3. PICK p \in Nat, s \in Nat :
        c = Word * p + s /\ s < Word /\ (c % Word) + (c \div Word) = p + s
  BY <1>2, CarryOnce
<1>4. Fold16(n) = p + s
  BY <1>3 DEF Fold16, c
<1>5. p + s \in Nat /\ p + s < Word
  BY <1>2, <1>3, SMT DEF Word
<1>6. n = (Word - 1) * (q + p) + (p + s)
  BY <1>1, <1>3, SMT DEF Word
<1>7. n > 0 => p + s > 0
  BY <1>1, <1>3, SMT DEF Word
<1> QED
  BY <1>4, <1>5, <1>6, <1>7

\* A sum that is not nothing folds to all ones when 65535 divides it.
LEMMA AllOnes ==
  ASSUME NEW n \in Nat, 0 < n, n < 64 * Word
  PROVE  (Fold16(n) = Word - 1) = (n % (Word - 1) = 0)
<1>1. PICK k \in Nat : n = (Word - 1) * k + Fold16(n)
  BY FoldIs
<1>2. Fold16(n) \in Nat /\ 0 < Fold16(n) /\ Fold16(n) < Word
  BY FoldIs
<1> DEFINE f == Fold16(n)
<1> HIDE DEF f
<1>3. f \in Nat /\ 0 < f /\ f < Word /\ n = (Word - 1) * k + f
  BY <1>1, <1>2 DEF f
<1>4. (f = Word - 1) = (n % (Word - 1) = 0)
  BY <1>3, SMT DEF Word
<1> QED
  BY <1>4 DEF f

\* The fields of a packet as numbers.
LEMMA FieldsTyped ==
  ASSUME NEW p \in IpPacket
  PROVE  /\ p.ver \in Nat /\ p.ver < 16 /\ p.ihl \in Nat /\ p.ihl < 16
         /\ p.ttl \in Nat /\ p.ttl < 256 /\ p.claimed \in Nat /\ p.claimed < Word
         /\ p.rest \in Nat /\ p.rest < 8 * Word
         /\ p.opts \in Nat /\ p.opts <= 20 * (Word - 1)
         /\ p.cksum \in Nat /\ p.cksum < Word /\ p.len \in Nat
<1>1. /\ p.ver \in 0 .. 15 /\ p.ihl \in 0 .. 15 /\ p.ttl \in 0 .. 255
      /\ p.claimed \in 0 .. Word - 1
      /\ p.rest \in 0 .. 6 * (Word - 1) + 2 * 255
      /\ p.opts \in 0 .. 20 * (Word - 1)
      /\ p.cksum \in 0 .. Word - 1 /\ p.len \in Nat
  BY DEF IpPacket
<1>2. 6 * (Word - 1) + 2 * 255 < 8 * Word
  BY SMT DEF Word
<1> QED
  BY <1>1, <1>2, WordIsNat

\* The sum of a header stays far below 2^20.
LEMMA HeaderSumTyped ==
  ASSUME NEW p \in IpPacket
  PROVE  /\ HeaderSum(p) \in Nat /\ HeaderSum(p) < 16 * Word
         /\ p.ver > 0 => HeaderSum(p) > 0
         /\ cip_ipv4_checksum(p) \in 0 .. Word - 1
         /\ cip_ipv4_checksum(p) = Word - 1 - Fold16(HeaderSum(p))
<1> DEFINE sum(v, i, c, t, r) == (v * 16 + i) * 256 + c + t * 256 + r
<1>1. \A v, i, c, t, r \in Nat :
        v < 16 /\ i < 16 /\ c < Word /\ t < 256 /\ r < 8 * Word =>
          /\ sum(v, i, c, t, r) \in Nat
          /\ sum(v, i, c, t, r) < 16 * Word
          /\ v > 0 => sum(v, i, c, t, r) > 0
  BY SMT DEF Word
<1>2. HeaderSum(p) = sum(p.ver, p.ihl, p.claimed, p.ttl, p.rest)
  BY DEF HeaderSum
<1> HIDE DEF sum
<1> DEFINE ver == p.ver
           ihl == p.ihl
           claimed == p.claimed
           ttl == p.ttl
           rest == p.rest
<1>f. /\ ver \in Nat /\ ihl \in Nat /\ claimed \in Nat /\ ttl \in Nat
      /\ rest \in Nat
      /\ ver < 16 /\ ihl < 16 /\ claimed < Word /\ ttl < 256
      /\ rest < 8 * Word
  BY FieldsTyped
<1>2a. HeaderSum(p) = sum(ver, ihl, claimed, ttl, rest)
  BY <1>2
<1> HIDE DEF ver, ihl, claimed, ttl, rest
<1>2c. /\ sum(ver, ihl, claimed, ttl, rest) \in Nat
       /\ sum(ver, ihl, claimed, ttl, rest) < 16 * Word
       /\ ver > 0 => sum(ver, ihl, claimed, ttl, rest) > 0
  BY <1>1, <1>f, Zenon
<1>3. /\ HeaderSum(p) \in Nat /\ HeaderSum(p) < 16 * Word
      /\ p.ver > 0 => HeaderSum(p) > 0
  BY <1>2a, <1>2c DEF ver
<1>4. 16 * Word <= 64 * Word
  BY WordIsNat
<1>5. Fold16(HeaderSum(p)) \in Nat /\ Fold16(HeaderSum(p)) < Word
  BY <1>3, <1>4, WordIsNat, FoldIs
<1>6. cip_ipv4_checksum(p) = Word - 1 - Fold16(HeaderSum(p))
  BY DEF cip_ipv4_checksum
<1> QED
  BY <1>3, <1>5, <1>6, WordIsNat

\* A receiver that sums a header with the checksum of cip_ipv4_checksum finds
\* all ones just when the words that were left out are a multiple of 65535.
LEMMA SumsToOnes ==
  ASSUME NEW h \in Nat, 0 < h, h < 16 * Word,
         NEW opts \in Nat, opts <= 20 * (Word - 1)
  PROVE  (Fold16(h + opts + (Word - 1 - Fold16(h))) = Word - 1)
           = (opts % (Word - 1) = 0)
<1> DEFINE f == Fold16(h)
           n == h + opts + (Word - 1 - f)
<1>1. h < 64 * Word
  BY WordIsNat
<1>2. /\ f \in Nat /\ 0 < f /\ f < Word
      /\ \E k \in Nat : h = (Word - 1) * k + f
  BY <1>1, FoldIs
<1> HIDE DEF f
<1>3. PICK k \in Nat : h = (Word - 1) * k + f
  BY <1>2
<1>4. n = (Word - 1) * (k + 1) + opts
  BY <1>2, <1>3, SMT DEF Word
<1>5. n \in Nat /\ 0 < n /\ n < 64 * Word
  BY <1>2, <1>3, SMT DEF Word
<1> HIDE DEF n
<1>6. n % (Word - 1) = opts % (Word - 1)
  BY <1>4, <1>5, SMT DEF Word
<1>7. (Fold16(n) = Word - 1) = (opts % (Word - 1) = 0)
  BY <1>5, <1>6, AllOnes
<1> QED
  BY <1>7 DEF n, f

-----------------------------------------------------------------------------
(* ConnectIp.                                                              *)

\* What cip_compose_datagram makes of a packet that it lets out.
LEMMA DecrementedIs ==
  ASSUME NEW p \in IpPacket, p.ttl > 1
  PROVE  LET q == Decremented(p) IN
         /\ q \in IpPacket
         /\ q = [p EXCEPT !.ttl = p.ttl - 1, !.cksum = q.cksum]
         /\ q.ttl = p.ttl - 1
         /\ p.ver = 4 => q.cksum = cip_ipv4_checksum(q)
         /\ p.ver # 4 => q.cksum = p.cksum
<1> DEFINE d == [p EXCEPT !.ttl = (p.ttl + 255) % 256]
<1>1. (p.ttl + 255) % 256 = p.ttl - 1 /\ p.ttl - 1 \in 0 .. 255
  BY DEF IpPacket
<1>2. d \in IpPacket /\ d = [p EXCEPT !.ttl = p.ttl - 1]
  BY <1>1 DEF IpPacket
<1>3. CASE p.ver = 4
  <2>1. Decremented(p) = [d EXCEPT !.cksum = cip_ipv4_checksum(d)]
    BY <1>3 DEF Decremented
  <2>2. cip_ipv4_checksum(d) \in 0 .. Word - 1
    BY <1>2, HeaderSumTyped
  <2>3. HeaderSum(Decremented(p)) = HeaderSum(d)
    BY <1>2, <2>1 DEF HeaderSum, IpPacket
  <2>4. cip_ipv4_checksum(Decremented(p)) = cip_ipv4_checksum(d)
    BY <2>3 DEF cip_ipv4_checksum
  <2> HIDE DEF d
  <2>5. Decremented(p).cksum = cip_ipv4_checksum(d)
    BY <1>2, <2>1 DEF IpPacket
  <2>6. Decremented(p) \in IpPacket
    <3>1. d \in IpPacket
      BY <1>2
    <3>2. [d EXCEPT !.cksum = cip_ipv4_checksum(d)] \in IpPacket
      BY <2>2, <3>1 DEF IpPacket
    <3> QED
      BY <2>1, <3>2
  <2>7. d.ttl = p.ttl - 1 /\ Decremented(p).ttl = d.ttl
    BY <1>2, <2>1 DEF IpPacket
  <2>8. Decremented(p) = [p EXCEPT !.ttl = p.ttl - 1,
                                   !.cksum = Decremented(p).cksum]
    BY <1>2, <2>1, <2>5 DEF IpPacket
  <2>9. Decremented(p).cksum = cip_ipv4_checksum(Decremented(p))
    BY <2>4, <2>5
  <2> QED
    BY <1>3, <2>6, <2>7, <2>8, <2>9
<1>4. CASE p.ver # 4
  <2>1. Decremented(p) = d
    BY <1>4 DEF Decremented
  <2> HIDE DEF d
  <2>2. d.ttl = p.ttl - 1 /\ d.cksum = p.cksum
    BY <1>2 DEF IpPacket
  <2>3. d = [p EXCEPT !.ttl = p.ttl - 1, !.cksum = d.cksum]
    BY <1>2, <2>2 DEF IpPacket
  <2> QED
    BY <1>2, <1>4, <2>1, <2>2, <2>3
<1> QED
  BY <1>3, <1>4

\* The context identifier zero, in one byte.
LEMMA ContextZero ==
  ASSUME NEW length \in Nat \ {0}
  PROVE  cip_varint_decode(<<0>>, length) = [n |-> 1, value |-> 0]
<1>1. 0 \div 64 = 0 /\ 0 % 64 = 0
  OBVIOUS
<1>2. <<1, 2, 4, 8>>[(<<0>>[1] \div 64) + 1] = 1
  BY <1>1
<1> DEFINE Rec(v) == v = [i \in 1 .. 1 |-> IF i = 1 THEN <<0>>[1] % 64
                                            ELSE v[i - 1] * 256 + <<0>>[i]]
<1>3. \E v : Rec(v)
  <2> WITNESS [i \in 1 .. 1 |-> 0]
  <2> QED
    BY <1>1
<1>4. \A v : Rec(v) => v[1] = 0
  BY <1>1
<1> DEFINE N == <<1, 2, 4, 8>>[(<<0>>[1] \div 64) + 1]
           G(n) == CHOOSE v : v = [i \in 1 .. n |->
                                     IF i = 1 THEN <<0>>[1] % 64
                                              ELSE v[i - 1] * 256 + <<0>>[i]]
<1>5. cip_varint_decode(<<0>>, length) =
        IF length = 0 THEN [n |-> 0, value |-> 0]
        ELSE IF length < N THEN [n |-> 0, value |-> 0]
                           ELSE [n |-> N, value |-> G(N)[N]]
  BY Zenon DEF cip_varint_decode
<1>6. G(1) = CHOOSE v : Rec(v)
  BY Zenon
<1> HIDE DEF Rec, G
<1>7. Rec(G(1))
  BY <1>3, <1>6, Zenon
<1>8. G(1)[1] = 0
  BY <1>4, <1>7, Zenon
<1>9. length # 0 /\ ~(length < 1)
  OBVIOUS
<1>10. N = 1
  BY <1>2
<1> HIDE DEF N
<1> QED
  BY <1>5, <1>8, <1>9, <1>10

-----------------------------------------------------------------------------
(* The invariant.                                                          *)

\* A packet is the one that came but for what its hops cost; the tunnel has
\* given it its checksum; on the wire it is as cip_compose_datagram left it.
HopsInv ==
  /\ where = "idle" => hops = 0
  /\ pkt = [first EXCEPT !.ttl = first.ttl - hops, !.cksum = pkt.cksum]
  /\ hops > 0 => pkt.ttl > 0
  /\ pkt.ver # 4 => pkt.cksum = first.cksum

SummedInv == hops > 0 /\ pkt.ver = 4 => pkt.cksum = cip_ipv4_checksum(pkt)

ComposedInv ==
  where = "wire" /\ hops > 0 =>
    ctx = <<0>> /\ pkt.len > 0 /\ LengthsHold(pkt)

DatagramInv == TypeOK /\ HopsInv /\ SummedInv /\ ComposedInv

\* A packet under construction keeps its place in the congestion window, and
\* is there only within a call of on_write on a connection that is up.
PacketInv ==
  /\ pc = "idle" \/ conn # "up" => half = 0
  /\ half > 0 => room > 0
  /\ pc = "write" => Http!Offered # {}

\* From http3_submit_connect on, every unit is taken or still offered.
UnitsInv ==
  /\ conn = "handshake" => taken = Http!Nothing
  /\ conn = "up" => /\ httpconn
                    /\ \A s \in Http!Streams :
                         taken[s] + unsent[s] = Http!Length(s)

StreamInv == Http!TypeOK /\ PacketInv /\ UnitsInv

IInv == DatagramInv /\ StreamInv

-----------------------------------------------------------------------------
(* Steps of ConnectIp.                                                     *)

\* Zero is in the range of every field.
LEMMA ZeroFits ==
  /\ 0 \in 0 .. Word - 1 /\ 0 \in 0 .. 20 * (Word - 1)
  /\ 0 \in 0 .. 6 * (Word - 1) + 2 * 255
<1>1. 0 < Word
  BY SMT DEF Word
<1> QED
  BY <1>1, WordIsNat

\* A 16-bit remainder.
LEMMA ModWord ==
  ASSUME NEW n \in Nat
  PROVE  n % Word \in Nat /\ n % Word < Word
<1> DEFINE r == n % Word
<1>1. r \in Nat /\ r < Word
  BY SMT DEF Word
<1> QED
  BY <1>1

\* A packet of the noise is one.
LEMMA NoiseTyped ==
  ASSUME NEW size \in Nat, Ipv4Hdr + size <= Buffer,
         NEW rest \in 0 .. 6 * (Word - 1) + 2 * 255
  PROVE  NoisePacket(size, rest) \in IpPacket
<1> DEFINE claimed == (Ipv4Hdr + size) % Word
           p == [ver |-> 4, ihl |-> 5, claimed |-> claimed,
                 ttl |-> 64, rest |-> rest, opts |-> 0, cksum |-> 0,
                 len |-> Ipv4Hdr + size]
<1>1. claimed \in 0 .. Word - 1 /\ Ipv4Hdr + size \in Nat
  <2>1. Ipv4Hdr + size \in Nat
    BY DEF Ipv4Hdr
  <2>2. \A n \in Nat : n % Word \in Nat /\ n % Word < Word
    BY ModWord
  <2> QED
    BY <2>1, <2>2, WordIsNat
<1>2. 0 \in 0 .. Word - 1 /\ 0 \in 0 .. 20 * (Word - 1)
  BY ZeroFits
<1>3. 4 \in 0 .. 15 /\ 5 \in 0 .. 15 /\ 64 \in 0 .. 255
  OBVIOUS
<1> HIDE DEF claimed
<1>4. p \in IpPacket
  BY <1>1, <1>2, <1>3 DEF IpPacket
<1>5. cip_ipv4_checksum(p) \in 0 .. Word - 1
  BY <1>4, HeaderSumTyped
<1>6. NoisePacket(size, rest) = [p EXCEPT !.cksum = cip_ipv4_checksum(p)]
  BY DEF NoisePacket, claimed
<1> HIDE DEF p
<1> QED
  BY <1>4, <1>5, <1>6 DEF IpPacket

\* A packet that has made no hop is the one that came.
LEMMA EntersInv ==
  ASSUME DatagramInv, where = "idle", NEW place \in {"host", "wire"},
         NEW bytes \in Seq(0 .. 255), NEW p \in IpPacket,
         Enters(place, bytes, p)
  PROVE  DatagramInv'
<1>1. hops = 0 /\ hops' = 0
  BY DEF DatagramInv, HopsInv, Enters
<1>2. TypeOK'
  BY <1>1 DEF DatagramInv, TypeOK, Enters
<1>3. p = [p EXCEPT !.ttl = p.ttl - 0, !.cksum = p.cksum]
  <2>1. p.ttl - 0 = p.ttl
    BY FieldsTyped
  <2> QED
    BY <2>1 DEF IpPacket
<1>4. HopsInv'
  BY <1>1, <1>3 DEF Enters, HopsInv
<1>5. SummedInv' /\ ComposedInv'
  BY <1>1 DEF SummedInv, ComposedInv
<1> QED
  BY <1>2, <1>4, <1>5 DEF DatagramInv

\* A packet that goes out pays for its hop.
LEMMA SendInv ==
  ASSUME DatagramInv, where = "host", Composes(pkt),
         where' = "wire", pkt' = Decremented(pkt), ctx' = << 0 >>,
         hops' = (hops + 1) % 256, first' = first
  PROVE  DatagramInv'
<1> DEFINE q == Decremented(pkt)
<1>1. pkt \in IpPacket /\ first \in IpPacket /\ hops \in 0 .. 255
  BY DEF DatagramInv, TypeOK
<1>2. /\ q \in IpPacket
      /\ q = [pkt EXCEPT !.ttl = pkt.ttl - 1, !.cksum = q.cksum]
      /\ q.ttl = pkt.ttl - 1
      /\ pkt.ver = 4 => q.cksum = cip_ipv4_checksum(q)
      /\ pkt.ver # 4 => q.cksum = pkt.cksum
      /\ pkt.ttl > 1
  <2>1. pkt.ttl > 1
    BY DEF Composes
  <2> HIDE DEF q
  <2> QED
    BY <1>1, <2>1, DecrementedIs DEF q
<1> HIDE DEF q
<1>3. pkt' = q
  BY DEF q
<1>4. /\ pkt = [first EXCEPT !.ttl = first.ttl - hops, !.cksum = pkt.cksum]
      /\ pkt.ver # 4 => pkt.cksum = first.cksum
  BY DEF DatagramInv, HopsInv
<1>5. pkt.ttl = first.ttl - hops
  BY <1>1, <1>4 DEF IpPacket
<1>6. /\ hops + 1 \in 0 .. 255 /\ hops' = hops + 1
      /\ q.ttl = first.ttl - hops'
      /\ q.ttl > 0
  <2>1. first.ttl \in 0 .. 255 /\ pkt.ttl \in 0 .. 255
    BY <1>1 DEF IpPacket
  <2>2. hops + 1 <= 255 /\ q.ttl = first.ttl - (hops + 1) /\ q.ttl > 0
    <3>1. \A a, b, c, h \in Nat :
            b = a - h /\ b > 1 /\ c = b - 1 /\ a <= 255 =>
              h + 1 <= 255 /\ c = a - (h + 1) /\ c > 0
      OBVIOUS
    <3>2. first.ttl \in Nat /\ pkt.ttl \in Nat /\ hops \in Nat
          /\ first.ttl <= 255
      BY <1>1, <2>1
    <3>3. q.ttl = pkt.ttl - 1 /\ pkt.ttl > 1
      BY <1>2
    <3>4. pkt.ttl - 1 \in Nat
      BY <3>2, <3>3
    <3> QED
      BY <1>5, <3>1, <3>2, <3>3, <3>4
  <2>3. hops + 1 \in 0 .. 255
    BY <1>1, <2>2
  <2>4. hops' = hops + 1
    BY <1>1, <2>2
  <2> QED
    BY <2>2, <2>3, <2>4
<1>7. q.ver = pkt.ver /\ q.len = pkt.len /\ LengthsHold(q) = LengthsHold(pkt)
  BY <1>1, <1>2 DEF IpPacket, LengthsHold
<1>8. TypeOK'
  BY <1>1, <1>2, <1>3, <1>6 DEF TypeOK
<1>9. q = [first EXCEPT !.ttl = first.ttl - hops', !.cksum = q.cksum]
  BY <1>1, <1>2, <1>4, <1>6 DEF IpPacket
<1>10. HopsInv'
  BY <1>2, <1>3, <1>4, <1>6, <1>7, <1>9 DEF HopsInv
<1>11. SummedInv'
  BY <1>2, <1>3, <1>7 DEF SummedInv
<1>12. ComposedInv'
  BY <1>3, <1>7 DEF ComposedInv, Composes
<1> QED
  BY <1>8, <1>10, <1>11, <1>12 DEF DatagramInv

\* Every step of ConnectIp keeps its invariant.
LEMMA DatagramStep ==
  ASSUME DatagramInv, Next
  PROVE  DatagramInv'
<1>1. CASE FromHost
  <2>1. PICK p \in Packets : Enters("host", <<>>, p)
    BY <1>1 DEF FromHost
  <2>2. where = "idle" /\ p \in IpPacket /\ <<>> \in Seq(0 .. 255)
    BY <1>1, ConnectIpAssumption DEF FromHost
  <2> QED
    BY <2>1, <2>2, EntersInv
<1>2. CASE FromNoise
  <2>1. PICK size \in NoiseSizes, rest \in NoiseRests :
          /\ Ipv4Hdr + size <= Buffer
          /\ Enters("host", <<>>, NoisePacket(size, rest))
    BY <1>2 DEF FromNoise
  <2>2. size \in Nat /\ rest \in 0 .. 6 * (Word - 1) + 2 * 255
    BY ConnectIpAssumption
  <2>3. NoisePacket(size, rest) \in IpPacket
    BY <2>1, <2>2, NoiseTyped
  <2>4. where = "idle" /\ <<>> \in Seq(0 .. 255)
    BY <1>2 DEF FromNoise
  <2> QED
    BY <2>1, <2>3, <2>4, EntersInv
<1>3. CASE FromPeer
  <2>1. PICK d \in Datagrams : Enters("wire", d.ctx, d.pkt)
    BY <1>3 DEF FromPeer
  <2>2. where = "idle" /\ d.pkt \in IpPacket /\ d.ctx \in Seq(0 .. 255)
    BY <1>3, ConnectIpAssumption DEF FromPeer
  <2> QED
    BY <2>1, <2>2, EntersInv
<1>4. CASE SendPacket
  <2>1. CASE where' = "dropped" /\ UNCHANGED <<pkt, ctx, hops>>
    BY <1>4, <2>1
      DEF SendPacket, DatagramInv, TypeOK, HopsInv, SummedInv, ComposedInv
  <2>2. CASE /\ pkt.len <= Buffer /\ Composes(pkt)
             /\ where' = "wire"
             /\ pkt' = Decremented(pkt)
             /\ ctx' = <<0>>
             /\ hops' = (hops + 1) % 256
    <3>1. where = "host" /\ first' = first
      BY <1>4 DEF SendPacket
    <3> QED
      BY <2>2, <3>1, SendInv
  <2> QED
    BY <1>4, <2>1, <2>2 DEF SendPacket
<1>5. CASE RecvDatagram
  <2>1. /\ where' \in {"host", "dropped"} /\ ctx' = <<>>
        /\ pkt' = pkt /\ first' = first /\ hops' = hops
    BY <1>5 DEF RecvDatagram
  <2> QED
    BY <2>1 DEF DatagramInv, TypeOK, HopsInv, SummedInv, ComposedInv
<1> QED
  BY <1>1, <1>2, <1>3, <1>4, <1>5 DEF Next

\* Nothing has come, at first.
LEMMA DatagramStart ==
  ASSUME Init
  PROVE  DatagramInv
<1>1. NoPacket \in IpPacket
  BY ZeroFits DEF NoPacket, IpPacket
<1>2. NoPacket = [NoPacket EXCEPT !.ttl = NoPacket.ttl - 0,
                                  !.cksum = NoPacket.cksum]
  <2>1. NoPacket.ttl - 0 = NoPacket.ttl
    BY DEF NoPacket
  <2> QED
    BY <2>1 DEF NoPacket
<1> QED
  BY <1>1, <1>2
    DEF Init, DatagramInv, TypeOK, HopsInv, SummedInv, ComposedInv

\* What the invariant says of the properties.
LEMMA DatagramMeans ==
  ASSUME DatagramInv
  PROVE  HopsPaid /\ ChecksumSound /\ ComposedParses
<1>1. pkt \in IpPacket /\ first \in IpPacket
  BY DEF DatagramInv, TypeOK
<1>2. HopsPaid
  BY <1>1 DEF DatagramInv, HopsInv, HopsPaid, IpPacket
<1>3. ChecksumSound
  <2> SUFFICES ASSUME hops > 0, pkt.ver = 4
               PROVE  (Fold16(HeaderSum(pkt) + pkt.opts + pkt.cksum) = Word - 1)
                        = (pkt.opts % (Word - 1) = 0)
    BY DEF ChecksumSound
  <2>1. /\ HeaderSum(pkt) \in Nat /\ HeaderSum(pkt) < 16 * Word
        /\ HeaderSum(pkt) > 0
        /\ pkt.cksum = Word - 1 - Fold16(HeaderSum(pkt))
    BY <1>1, HeaderSumTyped DEF DatagramInv, SummedInv
  <2>2. pkt.opts \in Nat /\ pkt.opts <= 20 * (Word - 1)
    BY <1>1, FieldsTyped
  <2> QED
    BY <2>1, <2>2, SumsToOnes
<1>4. ComposedParses
  <2> SUFFICES ASSUME where = "wire", hops > 0
               PROVE  Parses(ctx, pkt)
    BY DEF ComposedParses
  <2>1. ctx = <<0>> /\ pkt.len > 0 /\ LengthsHold(pkt)
    BY DEF DatagramInv, ComposedInv
  <2>2. Len(<<0>>) + pkt.len \in Nat \ {0}
    BY <1>1, <2>1 DEF IpPacket
  <2>3. cip_varint_decode(ctx, Len(ctx) + pkt.len) = [n |-> 1, value |-> 0]
    BY <2>1, <2>2, ContextZero
  <2> QED
    BY <2>1, <2>3 DEF Parses
<1> QED
  BY <1>2, <1>3, <1>4

-----------------------------------------------------------------------------
(* Steps of Http3Connect.                                                  *)

\* The least element of a set is the one Min picks.
LEMMA LeastOf ==
  ASSUME NEW S \in SUBSET Int, NEW x \in S, \A y \in S : x <= y
  PROVE  Http!Min(S) = x
<1>1. \E m \in S : \A y \in S : m <= y
  OBVIOUS
<1>2. Http!Min(S) \in S /\ \A y \in S : Http!Min(S) <= y
  BY <1>1 DEF Http!Min
<1>3. /\ Http!Min(S) \in Int /\ x \in Int
      /\ Http!Min(S) <= x /\ x <= Http!Min(S)
  BY <1>2
<1> QED
  BY <1>3

\* The least of two numbers.
LEMMA LeastOfTwo ==
  ASSUME NEW a \in Nat, NEW b \in Nat
  PROVE  /\ Http!Min({a, b}) \in {a, b}
         /\ Http!Min({a, b}) <= a /\ Http!Min({a, b}) <= b
<1>1. CASE a <= b
  <2>1. Http!Min({a, b}) = a
    BY <1>1, LeastOf
  <2> QED
    BY <1>1, <2>1
<1>2. CASE b <= a
  <2>1. Http!Min({a, b}) = b
    BY <1>2, LeastOf
  <2> QED
    BY <1>2, <2>1
<1> QED
  BY <1>1, <1>2

\* The least of three numbers.
LEMMA LeastOfThree ==
  ASSUME NEW a \in Nat, NEW b \in Nat, NEW c \in Nat
  PROVE  /\ Http!Min({a, b, c}) \in {a, b, c}
         /\ Http!Min({a, b, c}) <= a
         /\ Http!Min({a, b, c}) <= b
         /\ Http!Min({a, b, c}) <= c
<1>1. CASE a <= b /\ a <= c
  <2>1. Http!Min({a, b, c}) = a
    BY <1>1, LeastOf
  <2> QED
    BY <1>1, <2>1
<1>2. CASE b <= a /\ b <= c
  <2>1. Http!Min({a, b, c}) = b
    BY <1>2, LeastOf
  <2> QED
    BY <1>2, <2>1
<1>3. CASE c <= a /\ c <= b
  <2>1. Http!Min({a, b, c}) = c
    BY <1>3, LeastOf
  <2> QED
    BY <1>3, <2>1
<1> QED
  BY <1>1, <1>2, <1>3

\* The four streams.
LEMMA StreamsAre ==
  /\ Http!Streams = {"control", "qpack_dec", "qpack_enc", "connect"}
  /\ \A i \in 1 .. 4 : Http!Order[i] \in Http!Streams
  /\ \A s \in Http!Streams : \E i \in 1 .. 4 : Http!Order[i] = s
<1>1. /\ Http!Order[1] = "control" /\ Http!Order[2] = "qpack_dec"
      /\ Http!Order[3] = "qpack_enc" /\ Http!Order[4] = "connect"
  BY DEF Http!Order
<1>2. Http!Streams = {Http!Order[i] : i \in 1 .. 4}
  BY DEF Http!Streams
<1>3. Http!Streams = {Http!Order[1], Http!Order[2], Http!Order[3], Http!Order[4]}
  BY <1>2
<1> QED
  BY <1>1, <1>2, <1>3

\* The stream on offer is one that is offered.
LEMMA CurOffered ==
  ASSUME Http!Offered # {}
  PROVE  Http!cur \in Http!Offered /\ Http!cur \in Http!Streams
<1> DEFINE I == {i \in 1 .. 4 : Http!Order[i] \in Http!Offered}
<1>1. Http!Offered \subseteq Http!Streams
  BY DEF Http!Offered
<1>2. I # {} /\ I \subseteq 1 .. 4
  <2>1. PICK s \in Http!Offered : s \in Http!Streams
    BY <1>1
  <2>2. PICK i \in 1 .. 4 : Http!Order[i] = s
    BY <2>1, StreamsAre
  <2>3. i \in I
    BY <2>2
  <2> QED
    BY <2>3
<1>3. \E x \in I : \A y \in I : x <= y
  <2>1. CASE 1 \in I
    BY <1>2, <2>1
  <2>2. CASE 1 \notin I /\ 2 \in I
    BY <1>2, <2>2
  <2>3. CASE 1 \notin I /\ 2 \notin I /\ 3 \in I
    BY <1>2, <2>3
  <2>4. CASE 1 \notin I /\ 2 \notin I /\ 3 \notin I
    BY <1>2, <2>4
  <2> QED
    BY <2>1, <2>2, <2>3, <2>4
<1>4. Http!cur = Http!Order[Http!Min(I)]
  BY DEF Http!cur
<1> HIDE DEF I
<1>5. Http!Min(I) \in I
  BY <1>2, <1>3, LeastOf
<1> QED
  BY <1>1, <1>4, <1>5 DEF I

\* A stream is one unit long, or as long as the request.
LEMMA LengthTyped ==
  ASSUME NEW s \in Http!Streams
  PROVE  Http!Length(s) \in 0 .. Request
  BY WireAssumption DEF Http!Http3Assumption, Http!Length

\* Setting up the streams gives nghttp3 everything to offer.
LEMMA SetUpInv ==
  ASSUME StreamInv, Http!cb_extend_max_local_streams_bidi
  PROVE  StreamInv'
<1>1. /\ pc = "idle" /\ pc' = pc /\ conn = "handshake" /\ Http!SetUp
      /\ taken' = taken /\ half' = half /\ room' = room
  BY DEF StreamInv, UnitsInv, Http!TypeOK, Http!limits,
         Http!cb_extend_max_local_streams_bidi
<1>2. UNCHANGED <<pc, stalled, taken, credit, total, shut, room, half, tight>>
  BY DEF Http!cb_extend_max_local_streams_bidi, Http!limits
<1>3. taken = Http!Nothing /\ half = 0
  BY <1>1 DEF StreamInv, UnitsInv, PacketInv
<1>4. /\ conn' \in {"up", "dead"} /\ httpconn' \in BOOLEAN
      /\ opened' \subseteq Http!Streams
      /\ unsent' \in [Http!Streams -> 0 .. Request]
  <2>1. CASE /\ conn' = "up" /\ opened' = Http!Streams
             /\ unsent' = [s \in Http!Streams |-> Http!Length(s)]
             /\ httpconn' = TRUE
    BY <2>1, LengthTyped
  <2>2. CASE /\ conn' = "dead"
             /\ \E n \in 0 .. 3 : opened' = {Http!Order[i] : i \in 1 .. n}
             /\ unsent' = [s \in Http!Streams |->
                            IF opened' = Http!Uni /\ s \in Http!Uni
                            THEN 1 ELSE 0]
             /\ httpconn' \in BOOLEAN
    <3>1. opened' \subseteq Http!Streams
      <4>1. PICK n \in 0 .. 3 : opened' = {Http!Order[i] : i \in 1 .. n}
        BY <2>2
      <4>2. \A i \in 1 .. n : i \in 1 .. 4
        OBVIOUS
      <4> QED
        BY <4>1, <4>2, StreamsAre
    <3>2. 0 \in 0 .. Request /\ 1 \in 0 .. Request
      BY WireAssumption DEF Http!Http3Assumption
    <3>3. unsent' \in [Http!Streams -> 0 .. Request]
      BY <2>2, <3>2
    <3> QED
      BY <2>2, <3>1, <3>3
  <2> QED
    BY <1>1, <2>1, <2>2 DEF Http!SetUp
<1>5. (Http!TypeOK)'
  BY <1>2, <1>4 DEF StreamInv, Http!TypeOK
<1>6. PacketInv'
  BY <1>1, <1>3 DEF PacketInv
<1>7. ASSUME conn' = "up"
      PROVE  /\ httpconn'
             /\ \A s \in Http!Streams : taken'[s] + unsent'[s] = Http!Length(s)
  <2>1. /\ httpconn' = TRUE
        /\ unsent' = [s \in Http!Streams |-> Http!Length(s)]
    BY <1>1, <1>7 DEF Http!SetUp
  <2>2. ASSUME NEW s \in Http!Streams
        PROVE  taken'[s] + unsent'[s] = Http!Length(s)
    <3>1. taken'[s] = 0 /\ unsent'[s] = Http!Length(s)
      BY <1>1, <1>3, <2>1 DEF Http!Nothing
    <3>2. Http!Length(s) \in Nat
      BY LengthTyped
    <3> QED
      BY <3>1, <3>2
  <2> QED
    BY <2>1, <2>2
<1>8. UnitsInv'
  BY <1>4, <1>7 DEF UnitsInv
<1> QED
  BY <1>5, <1>6, <1>8 DEF StreamInv

\* What ngtcp2 takes of the stream on offer is what nghttp3 is told of, and
\* fits the credit, the connection's and the packet.
LEMMA TakesInv ==
  ASSUME StreamInv, Http!WriteTakes
  PROVE  StreamInv'
<1> DEFINE s == Http!cur
           n == Http!Min({unsent[s], Http!Avail(s), Capacity - half})
<1>1. /\ pc = "write" /\ conn = "up" /\ Http!Avail(s) > 0 /\ room > 0
      /\ taken' = [taken EXCEPT ![s] = @ + n]
      /\ credit' = [credit EXCEPT ![s] = @ - n]
      /\ total' = total - n
      /\ half' = IF half + n = Capacity THEN 0 ELSE half + n
      /\ room' = IF half' = 0 THEN room - 1 ELSE room
      /\ unsent' = [unsent EXCEPT ![s] = @ - n]
      /\ pc' = "offer"
      /\ UNCHANGED <<conn, httpconn, opened, stalled, shut, tight>>
  BY DEF Http!WriteTakes, Http!http3_add_write_offset
<1>2. Http!TypeOK
  BY DEF StreamInv
<1>3. s \in Http!Streams /\ unsent[s] > 0
  <2>1. s \in Http!Offered
    BY <1>1, CurOffered DEF StreamInv, PacketInv
  <2> HIDE DEF s
  <2> QED
    BY <2>1 DEF Http!Offered
<1> HIDE DEF s
<1>4. /\ unsent[s] \in Nat /\ credit[s] \in Nat /\ taken[s] \in Nat
      /\ credit[s] <= MaxCredit
      /\ total \in Nat /\ total <= MaxCredit /\ MaxCredit \in Nat
      /\ half \in Nat /\ half < Capacity /\ Capacity \in Nat
      /\ room \in Nat /\ room <= MaxRoom /\ MaxRoom \in Nat
      /\ Request \in Nat
  BY <1>2, <1>3, WireAssumption DEF Http!TypeOK, Http!Http3Assumption
<1>5. /\ Http!Avail(s) \in Nat
      /\ Http!Avail(s) <= credit[s] /\ Http!Avail(s) <= total
  BY <1>4, LeastOfTwo DEF Http!Avail
<1>6. /\ n \in Nat /\ n > 0 /\ n <= unsent[s]
      /\ n <= credit[s] /\ n <= total /\ half + n <= Capacity
  <2> DEFINE a == unsent[s]
             b == Http!Avail(s)
             c == Capacity - half
  <2>1. a \in Nat /\ b \in Nat /\ c \in Nat /\ a > 0 /\ b > 0 /\ c > 0
    BY <1>1, <1>3, <1>4, <1>5
  <2>2. n = Http!Min({a, b, c})
    OBVIOUS
  <2> HIDE DEF a, b, c, n
  <2>3. n \in {a, b, c} /\ n <= a /\ n <= b /\ n <= c
    BY <2>1, <2>2, LeastOfThree
  <2>4. n \in Nat /\ n > 0
    BY <2>1, <2>3
  <2>5. n <= unsent[s] /\ n <= Http!Avail(s) /\ n <= Capacity - half
    BY <2>3 DEF a, b, c
  <2> QED
    BY <1>4, <1>5, <2>4, <2>5
<1> HIDE DEF n
<1>7. taken[s] + unsent[s] \in 0 .. Request
  BY <1>1, <1>3, LengthTyped DEF StreamInv, UnitsInv
<1>8. unsent' \in [Http!Streams -> 0 .. Request]
  <2>1. unsent[s] - n \in 0 .. Request
    BY <1>2, <1>3, <1>4, <1>6 DEF Http!TypeOK
  <2> QED
    BY <1>1, <1>2, <2>1 DEF Http!TypeOK
<1>9. taken' \in [Http!Streams -> 0 .. Request]
  <2>1. taken[s] + n \in 0 .. Request
    BY <1>4, <1>6, <1>7
  <2> QED
    BY <1>1, <1>2, <2>1 DEF Http!TypeOK
<1>10. credit' \in [Http!Streams -> 0 .. MaxCredit]
  <2>1. credit[s] - n \in 0 .. MaxCredit
    BY <1>4, <1>6
  <2> QED
    BY <1>1, <1>2, <2>1 DEF Http!TypeOK
<1>11. total' \in 0 .. MaxCredit
  BY <1>1, <1>4, <1>6
<1>12. half' \in 0 .. Capacity - 1
  <2>1. CASE half + n = Capacity
    BY <1>1, <1>4, <2>1
  <2>2. CASE half + n # Capacity
    BY <1>1, <1>4, <1>6, <2>2
  <2> QED
    BY <2>1, <2>2
<1>13. room' \in 0 .. MaxRoom /\ (half' > 0 => room' > 0)
  <2>1. CASE half' = 0
    BY <1>1, <1>4, <2>1
  <2>2. CASE half' # 0
    BY <1>1, <1>4, <2>2
  <2> QED
    BY <2>1, <2>2
<1>14. (Http!TypeOK)'
  BY <1>1, <1>2, <1>8, <1>9, <1>10, <1>11, <1>12, <1>13 DEF Http!TypeOK
<1>15. PacketInv'
  BY <1>1, <1>13 DEF PacketInv
<1>16. httpconn /\ \A r \in Http!Streams : taken[r] + unsent[r] = Http!Length(r)
  BY <1>1 DEF StreamInv, UnitsInv
<1>17. ASSUME NEW r \in Http!Streams
       PROVE  taken'[r] + unsent'[r] = Http!Length(r)
  <2>1. CASE r = s
    <3>1. taken'[r] = taken[s] + n /\ unsent'[r] = unsent[s] - n
      BY <1>1, <1>2, <1>3, <2>1 DEF Http!TypeOK
    <3>2. taken[s] + unsent[s] = Http!Length(r)
      BY <1>16, <2>1
    <3> QED
      BY <1>4, <1>6, <3>1, <3>2
  <2>2. CASE r # s
    <3>1. taken'[r] = taken[r] /\ unsent'[r] = unsent[r]
      BY <1>1, <1>2, <2>2 DEF Http!TypeOK
    <3> QED
      BY <1>16, <3>1
  <2> QED
    BY <2>1, <2>2
<1>18. UnitsInv'
  BY <1>1, <1>16, <1>17 DEF UnitsInv
<1> QED
  BY <1>14, <1>15, <1>18 DEF StreamInv

\* Sending what is left under construction.
LEMMA FinishInv ==
  ASSUME StreamInv, Http!Finish
  PROVE  StreamInv'
<1>1. /\ pc = "finish" /\ pc' = "idle" /\ tight' = FALSE
      /\ UNCHANGED <<conn, httpconn, opened, unsent, stalled, taken, credit,
                    total, shut>>
  BY DEF Http!Finish, Http!streams
<1>2. CASE half > 0 /\ conn = "up"
  <2>1. half' = 0 /\ room' = room - 1 /\ room > 0
    BY <1>2 DEF Http!Finish, StreamInv, PacketInv
  <2>2. half' \in 0 .. Capacity - 1 /\ room' \in 0 .. MaxRoom
    BY <1>2, <2>1, WireAssumption
      DEF StreamInv, Http!TypeOK, Http!Http3Assumption
  <2>3. (Http!TypeOK)'
    BY <1>1, <2>2 DEF StreamInv, Http!TypeOK
  <2>4. PacketInv'
    BY <1>1, <2>1 DEF PacketInv
  <2>5. UnitsInv'
    BY <1>1 DEF StreamInv, UnitsInv
  <2> QED
    BY <2>3, <2>4, <2>5 DEF StreamInv
<1>3. CASE ~(half > 0 /\ conn = "up")
  <2>1. half' = half /\ room' = room
    BY <1>3 DEF Http!Finish
  <2>2. half = 0
    <3>1. half \in 0 .. Capacity - 1
      BY DEF StreamInv, Http!TypeOK
    <3> QED
      BY <1>3, <3>1, WireAssumption
        DEF StreamInv, PacketInv, Http!Http3Assumption
  <2> QED
    BY <1>1, <2>1, <2>2 DEF StreamInv, Http!TypeOK, PacketInv, UnitsInv
<1> QED
  BY <1>2, <1>3

\* The packets that the data on offer needs are a number.
LEMMA NeededTyped ==
  ASSUME Http!TypeOK
  PROVE  Http!Needed \in Nat
<1>1. \A s \in Http!Streams : Http!Units(s) \in Nat
  BY DEF Http!Units, Http!TypeOK
<1>2. /\ Http!Units("control") \in Nat /\ Http!Units("qpack_dec") \in Nat
      /\ Http!Units("qpack_enc") \in Nat /\ Http!Units("connect") \in Nat
  BY <1>1, StreamsAre
<1> QED
  BY <1>2, WireAssumption DEF Http!Needed, Http!Http3Assumption

\* The steps of on_write that move no unit.
LEMMA StillInv ==
  ASSUME StreamInv,
         \/ Http!on_write \/ Http!http3_writev \/ Http!WriteFails
         \/ Http!WriteShut \/ Http!WriteBlocked \/ Http!WriteLimited
  PROVE  StreamInv'
<1>1. /\ UNCHANGED <<conn, httpconn, opened, unsent, taken, credit, total,
                    shut, room, half>>
      /\ pc' \in {"idle", "offer", "write", "finish", "spin"}
      /\ tight' \in {tight, TRUE, FALSE}
      /\ pc' = "idle" => conn = "dead"
  <2>1. CASE Http!on_write
    <3>1. tight' = (room < Http!Needed)
      BY <2>1 DEF Http!on_write
    <3>2. tight' \in {TRUE, FALSE}
      <4>1. room \in Nat /\ Http!Needed \in Nat
        BY NeededTyped, WireAssumption
          DEF StreamInv, Http!TypeOK, Http!Http3Assumption
      <4>2. \A m, n \in Nat : (m < n) \in BOOLEAN
        OBVIOUS
      <4>3. (room < Http!Needed) \in BOOLEAN
        BY <4>1, <4>2, Zenon
      <4> QED
        BY <3>1, <4>3
    <3> QED
      BY <2>1, <3>2 DEF Http!on_write, Http!streams, Http!limits
  <2>2. CASE Http!http3_writev
    BY <2>2 DEF Http!http3_writev, Http!streams, Http!limits
  <2>3. CASE Http!WriteFails
    BY <2>3 DEF Http!WriteFails, Http!streams, Http!limits
  <2>4. CASE Http!WriteShut
    BY <2>4 DEF Http!WriteShut, Http!streams, Http!limits
  <2>5. CASE Http!WriteBlocked
    BY <2>5 DEF Http!WriteBlocked, Http!limits
  <2>6. CASE Http!WriteLimited
    BY <2>6 DEF Http!WriteLimited, Http!streams, Http!limits
  <2> QED
    BY <2>1, <2>2, <2>3, <2>4, <2>5, <2>6
<1>2. stalled' \subseteq Http!Streams
  <2>1. CASE Http!WriteBlocked
    <3>1. pc = "write" /\ stalled' = stalled \cup {Http!cur}
      BY <2>1 DEF Http!WriteBlocked
    <3>2. Http!cur \in Http!Streams
      BY <3>1, CurOffered DEF StreamInv, PacketInv
    <3> QED
      BY <3>1, <3>2 DEF StreamInv, Http!TypeOK
  <2>2. CASE ~Http!WriteBlocked
    <3>1. stalled' = stalled
      BY <2>2 DEF Http!on_write, Http!http3_writev, Http!WriteFails,
                  Http!WriteShut, Http!WriteLimited, Http!streams
    <3> QED
      BY <3>1 DEF StreamInv, Http!TypeOK
  <2> QED
    BY <2>1, <2>2
<1>3. pc' = "write" => (Http!Offered # {})'
  <2> SUFFICES ASSUME pc' = "write"
               PROVE  (Http!Offered # {})'
    OBVIOUS
  <2>1. Http!http3_writev
    BY DEF Http!on_write, Http!WriteFails, Http!WriteShut, Http!WriteBlocked,
           Http!WriteLimited
  <2>2. Http!Offered # {} /\ unsent' = unsent /\ stalled' = stalled
    BY <2>1 DEF Http!http3_writev, Http!streams
  <2> QED
    BY <2>2 DEF Http!Offered
<1>4. (Http!TypeOK)'
  BY <1>1, <1>2 DEF StreamInv, Http!TypeOK
<1>5. PacketInv'
  BY <1>1, <1>3 DEF StreamInv, PacketInv
<1>6. UnitsInv'
  BY <1>1 DEF StreamInv, UnitsInv
<1> QED
  BY <1>4, <1>5, <1>6 DEF StreamInv

\* What the other callbacks change between two calls of on_write.
LEMMA BetweenInv ==
  ASSUME StreamInv,
         \/ \E n \in 0 .. MaxRoom : Http!CongestionMoves(n)
         \/ \E s \in Http!Streams : Http!StreamCredit(s)
         \/ Http!ConnectionCredit \/ Http!StopSending \/ Http!ConnectionDies
  PROVE  StreamInv'
<1>1. /\ pc = "idle" /\ half = 0
      /\ UNCHANGED <<pc, httpconn, opened, unsent, stalled, taken, half, tight>>
  BY DEF StreamInv, PacketInv, Http!CongestionMoves, Http!StreamCredit,
         Http!ConnectionCredit, Http!StopSending, Http!ConnectionDies,
         Http!streams, Http!limits
<1>2. Http!TypeOK
  BY DEF StreamInv
<1>3. conn' \in {conn, "dead"}
  BY DEF Http!CongestionMoves, Http!StreamCredit, Http!ConnectionCredit,
         Http!StopSending, Http!ConnectionDies
<1>4. room' \in 0 .. MaxRoom
  BY <1>2 DEF Http!TypeOK, Http!CongestionMoves, Http!StreamCredit,
         Http!ConnectionCredit, Http!StopSending, Http!ConnectionDies,
         Http!limits
<1>5. total' \in 0 .. MaxCredit
  <2>1. CASE Http!ConnectionCredit
    BY <2>1, WireAssumption DEF Http!ConnectionCredit, Http!Http3Assumption
  <2>2. CASE ~Http!ConnectionCredit
    BY <1>2, <2>2 DEF Http!TypeOK, Http!CongestionMoves, Http!StreamCredit,
           Http!StopSending, Http!ConnectionDies, Http!limits
  <2> QED
    BY <2>1, <2>2
<1>6. shut' \subseteq Http!Streams
  <2>1. "connect" \in Http!Streams
    BY StreamsAre
  <2> QED
    BY <1>2, <2>1 DEF Http!TypeOK, Http!CongestionMoves, Http!StreamCredit,
         Http!ConnectionCredit, Http!StopSending, Http!ConnectionDies,
         Http!limits
<1>7. credit' \in [Http!Streams -> 0 .. MaxCredit]
  <2>1. CASE \E s \in Http!Streams : Http!StreamCredit(s)
    <3>1. PICK s \in Http!Streams : credit' = [credit EXCEPT ![s] = unsent[s]]
      BY <2>1 DEF Http!StreamCredit
    <3>2. unsent[s] \in 0 .. Request
      BY <1>2 DEF Http!TypeOK
    <3>3. unsent[s] \in 0 .. MaxCredit
      BY <3>2, WireAssumption DEF Http!Http3Assumption
    <3> QED
      BY <1>2, <3>1, <3>3 DEF Http!TypeOK
  <2>2. CASE ~\E s \in Http!Streams : Http!StreamCredit(s)
    <3>1. credit' = credit
      BY <2>2 DEF Http!CongestionMoves, Http!ConnectionCredit,
                  Http!StopSending, Http!ConnectionDies, Http!limits
    <3> QED
      BY <1>2, <3>1 DEF Http!TypeOK
  <2> QED
    BY <2>1, <2>2
<1>8. (Http!TypeOK)'
  BY <1>1, <1>2, <1>3, <1>4, <1>5, <1>6, <1>7 DEF Http!TypeOK
<1>9. PacketInv'
  BY <1>1 DEF PacketInv
<1>10. UnitsInv'
  BY <1>1, <1>3 DEF StreamInv, UnitsInv
<1> QED
  BY <1>8, <1>9, <1>10 DEF StreamInv

\* Every step of Http3Connect keeps its invariant.
LEMMA StreamStep ==
  ASSUME StreamInv, Http!Next
  PROVE  StreamInv'
  BY SetUpInv, TakesInv, FinishInv, StillInv, BetweenInv
  DEF Http!Next, Http!WriteStep

\* A connection starts with nothing open.
LEMMA StreamStart ==
  ASSUME Http!Init
  PROVE  StreamInv
<1>1. PICK uni \in 0 .. 1, bidi \in 0 .. Request :
        credit = [s \in Http!Streams |-> IF s = "connect" THEN bidi ELSE uni]
  BY DEF Http!Init
<1>2. uni \in 0 .. MaxCredit /\ bidi \in 0 .. MaxCredit
  BY WireAssumption DEF Http!Http3Assumption
<1>3. credit \in [Http!Streams -> 0 .. MaxCredit]
  BY <1>1, <1>2
<1>4. 0 \in 0 .. Request /\ 0 \in 0 .. Capacity - 1 /\ MaxRoom \in 0 .. MaxRoom
  BY WireAssumption DEF Http!Http3Assumption
<1>5. Http!Nothing \in [Http!Streams -> 0 .. Request]
  BY <1>4 DEF Http!Nothing
<1>6. Http!TypeOK
  BY <1>3, <1>4, <1>5 DEF Http!Init, Http!TypeOK
<1> QED
  BY <1>6 DEF Http!Init, StreamInv, PacketInv, UnitsInv

-----------------------------------------------------------------------------
(* The theorems.                                                           *)

\* The invariant holds of every packet and stream of a connection.
THEOREM WireInvariant == MCSpec => []IInv
<1>1. MCInit => IInv
  BY DatagramStart, StreamStart DEF MCInit, IInv
<1>2. IInv /\ [MCNext]_<<kind, vars, http>> => IInv'
  <2> SUFFICES ASSUME IInv, [MCNext]_<<kind, vars, http>>
               PROVE  IInv'
    OBVIOUS
  <2>1. CASE Next /\ UNCHANGED http
    <3>1. DatagramInv'
      BY <2>1, DatagramStep DEF IInv
    <3>2. StreamInv'
      BY <2>1 DEF IInv, StreamInv, PacketInv, UnitsInv, http, Http!TypeOK,
                  Http!Offered
    <3> QED
      BY <3>1, <3>2 DEF IInv
  <2>2. CASE Http!Next /\ UNCHANGED vars
    <3>1. StreamInv'
      BY <2>2, StreamStep DEF IInv
    <3>2. DatagramInv'
      BY <2>2 DEF IInv, DatagramInv, TypeOK, HopsInv, SummedInv, ComposedInv,
                  vars
    <3> QED
      BY <3>1, <3>2 DEF IInv
  <2>3. CASE UNCHANGED <<vars, http>>
    <3>1. StreamInv'
      BY <2>3 DEF IInv, StreamInv, PacketInv, UnitsInv, http, Http!TypeOK,
                  Http!Offered
    <3>2. DatagramInv'
      BY <2>3 DEF IInv, DatagramInv, TypeOK, HopsInv, SummedInv, ComposedInv,
                  vars
    <3> QED
      BY <3>1, <3>2 DEF IInv
  <2> QED
    BY <2>1, <2>2, <2>3 DEF MCNext
<1> QED
  BY <1>1, <1>2, PTL DEF MCSpec

\* Every variable keeps its type: no field of a packet leaves its width, no
\* credit or congestion window goes below nothing.
THEOREM TypesCorrect == MCSpec => []TypesOK
<1>1. IInv => TypesOK
  BY DEF IInv, DatagramInv, StreamInv, TypesOK
<1> QED
  BY <1>1, WireInvariant, PTL

\* cip_compose_datagram: a packet pays one unit of its time to live for each
\* hop, nothing else of it changes, and it never goes out with none left.
THEOREM HopsArePaid == MCSpec => []HopsPaid
<1>1. IInv => HopsPaid
  BY DatagramMeans DEF IInv
<1> QED
  BY <1>1, WireInvariant, PTL

\* cip_ipv4_checksum: after every hop the header of an IPv4 packet sums to all
\* ones just when its options add up to nothing.
THEOREM ChecksumIsSound == MCSpec => []ChecksumSound
<1>1. IInv => ChecksumSound
  BY DatagramMeans DEF IInv
<1> QED
  BY <1>1, WireInvariant, PTL

\* Whatever cip_compose_datagram lets out, cip_parse_datagram takes in.
THEOREM ComposedAreParsed == MCSpec => []ComposedParses
<1>1. IInv => ComposedParses
  BY DatagramMeans DEF IInv
<1> QED
  BY <1>1, WireInvariant, PTL

\* QuicEngine::on_write: after each call nghttp3 and ngtcp2 agree on every
\* byte, and no packet is left under construction.
THEOREM BytesAreOnce == MCSpec => []BytesOnce
<1>1. IInv => BytesOnce
  BY DEF IInv, StreamInv, PacketInv, UnitsInv, BytesOnce, Http!BytesOnce,
         Http!TypeOK
<1> QED
  BY <1>1, WireInvariant, PTL
=============================================================================

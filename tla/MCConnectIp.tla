---------------------------- MODULE MCConnectIp ----------------------------
(* Values for checking ConnectIp: packets on both sides of every length and  *)
(* time to live the code compares, sums that carry once, twice and not at   *)
(* all, and every width of a context identifier.                            *)
EXTENDS ConnectIp

Packet(ver, ihl, claimed, ttl, rest, opts, cksum, len) ==
  [ver |-> ver, ihl |-> ihl, claimed |-> claimed, ttl |-> ttl,
   rest |-> rest, opts |-> opts, cksum |-> cksum, len |-> len]

Ipv4(len) ==
  { Packet(4, ihl, claimed, ttl, rest, 0, cksum, len) :
      ihl \in {4, 5, 6}, claimed \in {0, len, len + 1}, ttl \in {0, 1, 2, 3},
      rest \in {0, 111396, 3 * 65535}, cksum \in {0, 65535} }

Ipv6(len) ==
  { Packet(6, 0, claimed, ttl, 0, 0, 0, len) :
      claimed \in {0, len - 40, len - 39} \cap Nat, ttl \in {0, 1, 2, 255} }

MCPackets ==
  UNION { Ipv4(len) : len \in {1, 19, 20, 24, 1499, 1500, 1501} }
  \union UNION { Ipv6(len) : len \in {39, 40, 1499, 1500} }
  \union { Packet(5, 5, 20, 3, 0, 0, 0, 20),
           Packet(4, 6, 24, 3, 0, 65280, 0, 24),
           Packet(4, 6, 24, 3, 0, 65535, 0, 24) }

Contexts ==
  { <<0>>, <<5>>, <<64, 0>>, <<65, 0>>, <<128, 0, 0, 0>>, <<128, 0, 0, 1>>,
    <<192, 0, 0, 0, 0, 0, 0, 0>>, <<192, 0, 0, 0, 0, 0, 1, 0>> }

MCDatagrams ==
  { [ctx |-> bytes, pkt |-> p] :
      bytes \in Contexts,
      p \in {Packet(4, 5, 24, 3, 0, 0, 7, 24), Packet(6, 0, 0, 3, 0, 0, 0, 40),
             Packet(4, 5, 25, 3, 0, 0, 0, 24), Packet(7, 0, 0, 3, 0, 0, 0, 40),
             NoPacket} }
  \union { [ctx |-> bytes, pkt |-> NoPacket] :
             bytes \in {<<>>, <<64>>, <<128, 0>>, <<192, 0, 0>>} }
=============================================================================

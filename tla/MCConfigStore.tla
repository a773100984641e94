--------------------------- MODULE MCConfigStore ---------------------------
(* Values for checking ConfigStore: a base of settings, and one edit for    *)
(* each way a setting is defaulted, refused or changed by a save.           *)
EXTENDS ConfigStore

CONSTANTS p1, p2

MCProcs == {p1, p2}
Symmetry == Permutations(MCProcs)

Base == [type |-> "tun"]

Noise(on, count, min, max, dmin, dmax) ==
  [type |-> "tun", enabled |-> on, count |-> count,
   min_size |-> min, max_size |-> max, delay_min |-> dmin, delay_max |-> dmax]

Spaced(n, u) == [Piece(n, u) EXCEPT !.gap = TRUE]

MCEdits ==
  { Base,
    [type |-> "socks"],
    [type |-> "tun", private_key |-> NoKey],
    [type |-> "tun", mtu |-> 0, dns |-> <<>>],
    [type |-> "tun", mtu |-> -1],
    [type |-> "tun", dns |-> <<"v4", "v6", "v4">>],
    [type |-> "tun", congestion |-> "brutal", brutal_bps |-> 0],
    [type |-> "tun", congestion |-> "brutal", brutal_bps |-> 7],
    [type |-> "tun", congestion |-> "reno", brutal_bps |-> 7],
    [type |-> "tun", congestion |-> "cubic"],
    [type |-> "tun", keepalive_period |-> <<Piece(90, "s")>>,
             reconnect_delay |-> <<Piece(0, "s")>>],
    [type |-> "tun", keepalive_period |-> <<Spaced(1, "h"), Piece(5, "none")>>,
             reconnect_delay |-> <<Piece(1, "m"), Piece(30, "s")>>],
    [type |-> "tun", keepalive_period |-> <<Piece(-5, "s")>>,
             reconnect_delay |-> <<Spaced(2, "s"), Piece(0, "word")>>],
    [type |-> "tun", keepalive_period |-> <<Piece(0, "m")>>,
             reconnect_delay |-> <<Piece(-5, "s")>>],
    [type |-> "tun", keepalive_period |-> <<Piece(500, "us")>>,
             reconnect_delay |-> <<Piece(1500, "us"), Piece(1, "s")>>],
    Noise(TRUE, 5, 100, 400, <<Piece(2, "s")>>, <<Piece(2500, "ms")>>),
    Noise(TRUE, 5, 100, 400, <<Piece(50, "ms")>>, <<Piece(10, "ms")>>),
    Noise(TRUE, 5, 400, 100, <<>>, <<>>),
    Noise(TRUE, -1, 100, 400, <<>>, <<>>),
    Noise(FALSE, -1, 400, 100, <<Piece(50, "ms")>>, <<Piece(10, "ms")>>) }
=============================================================================

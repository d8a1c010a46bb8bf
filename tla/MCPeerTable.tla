----------------------------- MODULE MCPeerTable -----------------------------
(* Three sessions to come and nobody roaming; two, one of whom roams; and    *)
(* one alone that roams, also between three addresses.                       *)
EXTENDS PeerTable

CONSTANTS a1, a2, a3

World(gone, roaming, addrs, flight) ==
    [gone |-> gone, roaming |-> roaming, addrs |-> addrs, flight |-> flight]
TableWorlds ==
    {World(0, {}, {a1, a2}, 2), World(1, {2}, {a1, a2}, 2),
     World(2, {3}, {a1, a2}, 2), World(2, {3}, {a1, a2, a3}, 1)}
=============================================================================

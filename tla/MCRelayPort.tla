---------------------------- MODULE MCRelayPort ----------------------------
(* Instances of RelayPort.                                                 *)
EXTENDS RelayPort

World(settled, senders, lossy, flight, periods) ==
  [settled |-> settled, senders |-> senders, lossy |-> lossy, flight |-> flight,
   periods |-> periods]

\* A party that settles in time; two that send while the allocation is
\* released; one that may fall back, over two periods, and with more in flight.
TwoParties ==
  {World({1}, {}, FALSE, 1, 1),
   World({0, 1}, {0, 1}, FALSE, 2, 0),
   World({1}, {0, 1}, TRUE, 1, 1),
   World({1}, {0}, TRUE, 2, 0)}
=============================================================================

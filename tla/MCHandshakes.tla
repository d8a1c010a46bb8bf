---------------------------- MODULE MCHandshakes ----------------------------
(* Instances of Handshakes.                                                 *)
EXTENDS Handshakes

CONSTANTS c1, c2

World(who, secret, faults, keys, addresses, losses) ==
    [clients |-> who, secret |-> secret, faults |-> faults, fresh |-> keys,
     sockets |-> addresses, lost |-> losses]

\* One client with everything that may go wrong, in either mode; two, one of
\* them an endpoint; and one that nothing but losses and a move hinder.
Openings ==
    {World({c1}, None, {"drop", "age", "move", "duplicate", "giveup", "early",
                        "device", "restart"}, 5, 3, 0),
     World({c1}, <<"secret">>, {"drop", "age", "move", "duplicate", "giveup", "early"}, 4, 3, 0),
     World({c1, c2}, None, {"giveup"}, 6, 3, 0),
     World({c1}, None, {}, 7, 4, 2),
     World({c1}, None, {"move"}, 7, 4, 2)}
=============================================================================

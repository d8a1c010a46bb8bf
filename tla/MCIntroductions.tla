-------------------------- MODULE MCIntroductions --------------------------
(***************************************************************************)
(* A rendezvous: Introductions for two clients, 1 the one that starts the  *)
(* handshake, and beside it Groups.  A behaviour is about one of them.     *)
(***************************************************************************)
EXTENDS Introductions

VARIABLES part, session, view, groups, open, mail, joins, raised

introducing == <<world, clientVars, serverVars, net, told>>
grouping == <<session, view, groups, open, mail, joins, raised>>

World(n, asks, direct, faults) ==
  [opens |-> n, calls |-> asks, direct |-> direct, faults |-> faults]

\* Nobody does anything.
Quiet == World(<<0, 0>>, <<0, 0>>, TRUE, {})

\* Nothing goes wrong, with and without a direct way between the clients; the
\* answers do; the sessions with the rendezvous do; and those are replaced.
TwoClients ==
  {Quiet,
   World(<<1, 1>>, <<1, 1>>, TRUE, {}),
   World(<<1, 1>>, <<1, 1>>, FALSE, {}),
   World(<<1, 1>>, <<2, 1>>, TRUE, {"budget", "refuse", "loss", "connect", "deadline",
                                    "window", "session", "slow"}),
   World(<<1, 1>>, <<1, 1>>, FALSE, {"budget", "loss", "connect", "deadline", "window",
                                     "rendezvous", "disconnect", "slow"}),
   World(<<2, 1>>, <<1, 1>>, TRUE, {"rendezvous"})}

\* A group with room for one, and sessions that are lost, replaced or dropped.
Filing == INSTANCE Groups WITH
  served <- open, net <- mail, calls <- joins, Tags <- {"g1"}, MaxSessions <- 2,
  MaxCalls <- 1, MAX_GROUP_MEMBERS <- 1, MAX_GROUPS <- 1,
  Faults <- {"session", "evict", "budget"}

\* Two groups, of which a client may be in one, joined and left.
Choosing == INSTANCE Groups WITH
  served <- open, net <- mail, calls <- joins, Tags <- {"g1", "g2"}, MaxSessions <- 1,
  MaxCalls <- 2, MAX_GROUP_MEMBERS <- 1, MAX_GROUPS <- 1, Faults <- {"leave", "budget"}

\* Three clients and a group with room for them.
Finding == INSTANCE Groups WITH
  Clients <- 1..3,
  served <- open, net <- mail, calls <- joins, Tags <- {"g1"}, MaxSessions <- 1,
  MaxCalls <- 1, MAX_GROUP_MEMBERS <- 3, MAX_GROUPS <- 1, Faults <- {}

ASSUME GroupsFit ==
  Filing!GroupsAssumption /\ Choosing!GroupsAssumption /\ Finding!GroupsAssumption

RendezvousInit ==
  /\ Init
  /\ \/ part = "introductions" /\ world # Quiet /\ Finding!Init
     \/ part = "filing" /\ world = Quiet /\ Filing!Init
     \/ part = "choosing" /\ world = Quiet /\ Choosing!Init
     \/ part = "finding" /\ world = Quiet /\ Finding!Init

RendezvousNext ==
  /\ UNCHANGED part
  /\ \/ part = "introductions" /\ Next /\ UNCHANGED grouping
     \/ part = "filing" /\ Filing!Next /\ UNCHANGED introducing
     \/ part = "choosing" /\ Choosing!Next /\ UNCHANGED introducing
     \/ part = "finding" /\ Finding!Next /\ UNCHANGED introducing

\* The fairness of Introductions, which asks nothing of a world in which nobody
\* does anything.
RendezvousSpec ==
  RendezvousInit /\ [][RendezvousNext]_<<part, introducing, grouping>> /\ Steps

\* The groups' lists are right: at the limits of a group and of a session, with
\* sessions lost, replaced or dropped, each member is filed once (FiledOnce of
\* Groups); and clients that stay have found each other once what was sent has
\* arrived (EveryoneFound of Groups; Rendezvous::join, tell_group,
\* Endpoint::on_control).
GroupsAgree ==
  /\ part = "filing" => Filing!FiledOnce
  /\ part = "choosing" => Choosing!FiledOnce
  /\ part = "finding" => Finding!EveryoneFound
=============================================================================

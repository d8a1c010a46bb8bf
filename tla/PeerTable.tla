------------------------------ MODULE PeerTable ------------------------------
(***************************************************************************)
(* The sessions an Endpoint holds: the table and its two indexes, who is   *)
(* dropped to make room, how a frame finds its session, and how a session  *)
(* follows a peer that changes address (crates/fectp/src/endpoint.rs:      *)
(* file, make_room, route, deliver, start_probe, settle_probe,             *)
(* repeat_handshake, drive_liveness, disconnect).                          *)
(*                                                                         *)
(* Whether a frame opens is whether it belongs to the session it is tried  *)
(* on.  The network loses and reorders frames; a peer moves when it likes, *)
(* and its frames carry the address it had when it sent them.              *)
(***************************************************************************)
EXTENDS Integers, Sequences, FiniteSetsExt, Functions

CONSTANTS
    Ids,               \* the handles: PeerId counts up from 1
    Addrs, Sids, Tokens,
    Worlds,            \* what a behaviour may be confined to: records
                       \*   gone: handles given out to sessions that are no more
                       \*   roaming: the sessions whose peer may change address
                       \*   addrs: the addresses there are
                       \*   flight: bound on what is on its way
    MaxPeers,          \* bound on the limit set_max_peers sets
    MaxCandidates, PathProbes, Replies, Rate,   \* constants of endpoint.rs
    NoToken

ASSUME TableAssumption ==
    /\ IsFiniteSet(Ids) /\ Ids = 1 .. Cardinality(Ids)
    /\ Worlds \subseteq [gone : Ids \cup {0}, roaming : SUBSET Ids,
                         addrs : (SUBSET Addrs) \ {{}}, flight : Nat]
    /\ MaxPeers \in Nat \ {0} /\ MaxCandidates \in Nat \ {0} /\ PathProbes \in Nat \ {0}
    /\ Replies \in Nat /\ Rate \in Nat \ {0} /\ NoToken \notin Tokens

VARIABLES
    table,         \* Endpoint::{peers, routes, by_session}; order and heard
                   \* list the sessions by filed and by last_heard
    outbound,      \* Endpoint::outbound: address and identifier
    max_peers,
    used,          \* handles given out: next_id
    world,         \* which of Worlds this is; it does not change
    where,         \* where each peer is (the environment's)
    net,           \* frames and challenges on their way
    reached        \* <<session, address>> its peer was at (history)

vars == <<table, outbound, max_peers, used, world, where, net, reached>>

Frame == [id : Ids, src : Addrs, token : Tokens \cup {NoToken}]
Challenge == [id : Ids, dst : Addrs, token : Tokens]

Probe == [addr : Addrs, token : Tokens, sent : 1 .. PathProbes,
          age : {"hot", "cool", "old"}]

\* PeerEntry.  left and resent: the copies of the handshake response still to
\* be had (-1: none is kept), and those sent again (history).
Entry == [addr : Addrs, sid : Sids, spoke : BOOLEAN, budget : 0 .. Rate,
          left : -1 .. Replies, resent : 0 .. Replies + 1,
          probe : {{}} \cup {{p} : p \in Probe}]

\* An endpoint that holds nobody: a new one, or one whose connections have all
\* failed or ended.
Init ==
    /\ table = [peers |-> [i \in {} |-> 0], routes |-> [r \in {} |-> 0],
                by_session |-> [s \in Sids |-> <<>>], order |-> <<>>, heard |-> <<>>]
    /\ outbound = [i \in {} |-> 0] /\ where = [i \in {} |-> 0]
    /\ max_peers = MaxPeers /\ net = {} /\ reached = {}
    /\ world \in Worlds /\ used = 1 .. world.gone

-----------------------------------------------------------------------------
(* The table.                                                              *)

Peers == table.peers
Held == DOMAIN Peers
NextId == Cardinality(used) + 1

Without(f, keys) == [x \in DOMAIN f \ keys |-> f[x]]
With(f, key, value) == [x \in DOMAIN f \cup {key} |-> IF x = key THEN value ELSE f[x]]

\* Vec::retain: what is not in gone stays, in its order.
Retain(s, gone) ==
    LET kept[n \in 0 .. Len(s)] ==
          IF n = 0 THEN <<>>
          ELSE IF s[n] \in gone THEN kept[n - 1] ELSE Append(kept[n - 1], s[n])
    IN kept[Len(s)]

\* Where a session is filed.
RouteOf(e) == <<e.addr, e.sid>>

\* Mutant: the identifier index keeps what the table has let go.
DropHalf(t, gone) ==
    [peers |-> Without(t.peers, gone),
     routes |-> Without(t.routes, {RouteOf(t.peers[i]) : i \in gone}),
     by_session |-> t.by_session,
     order |-> Retain(t.order, gone), heard |-> Retain(t.heard, gone)]

\* Sessions leave the table and both indexes (unfile_session and the two
\* removals beside each of its calls).
Drop(t, gone) ==
    [peers |-> Without(t.peers, gone),
     routes |-> Without(t.routes, {RouteOf(t.peers[i]) : i \in gone}),
     by_session |-> [s \in Sids |-> Retain(t.by_session[s], gone)],
     order |-> Retain(t.order, gone), heard |-> Retain(t.heard, gone)]

\* Who make_room drops: the first filed of those that never spoke, of all if
\* there are none.
Victim(t) ==
    LET silent == {k \in DOMAIN t.order : ~t.peers[t.order[k]].spoke}
    IN t.order[IF silent = {} THEN 1 ELSE Min(silent)]

\* make_room
MakeRoom(t) ==
    IF Cardinality(DOMAIN t.peers) < max_peers THEN t ELSE Drop(t, {Victim(t)})

\* file: room is made, a session on the same route is replaced, the new one is
\* entered everywhere.
File(t, id, addr, sid, left) ==
    LET roomy == MakeRoom(t)
        clear == IF <<addr, sid>> \in DOMAIN roomy.routes
                 THEN Drop(roomy, {roomy.routes[<<addr, sid>>]}) ELSE roomy
        entry == [addr |-> addr, sid |-> sid, spoke |-> FALSE, budget |-> Rate,
                  left |-> left, resent |-> 0, probe |-> {}]
    IN [peers |-> With(clear.peers, id, entry),
        routes |-> With(clear.routes, <<addr, sid>>, id),
        by_session |-> [clear.by_session EXCEPT ![sid] = Append(@, id)],
        order |-> Append(clear.order, id), heard |-> Append(clear.heard, id)]

-----------------------------------------------------------------------------
(* Sessions come and go.                                                   *)

\* What is on its way to or from a session that is gone finds nobody.
Peopled(known) ==
    LET held == DOMAIN table'.peers IN
    /\ net' = {m \in net : m.id \in held}
    /\ where' = [i \in held |-> known[i]]
    /\ reached' = {<<i, known[i]>> : i \in held \ Held} \cup {r \in reached : r[1] \in held}

\* An opening frame is answered (accept_full, accept_resumed, register,
\* remember_reply), unless repeat_handshake knows its address and identifier.
Accept(id, addr, sid) ==
    /\ id = NextId /\ <<addr, sid>> \notin DOMAIN table.routes
    /\ table' = File(table, id, addr, sid, Replies)
    /\ used' = used \cup {id}
    /\ Peopled(With(where, id, addr))
    /\ UNCHANGED <<outbound, max_peers, world>>

\* repeat_handshake: the response goes out again while there is one.
RepeatHandshake(id) ==
    /\ Peers[id].left >= 0
    /\ table' = [table EXCEPT !.peers[id].left = @ - 1, !.peers[id].resent = @ + 1]
    /\ UNCHANGED <<outbound, max_peers, used, where, net, reached, world>>

\* connect
Connect(id, addr, sid) ==
    /\ id = NextId
    /\ outbound' = With(outbound, id, <<addr, sid>>)
    /\ used' = used \cup {id}
    /\ UNCHANGED <<table, max_peers, where, net, reached, world>>

\* complete_outbound, with a reply that authenticates.
Complete(id) ==
    LET addr == outbound[id][1] IN
    /\ outbound' = Without(outbound, {id})
    /\ table' = File(table, id, addr, outbound[id][2], -1)
    /\ Peopled(With(where, id, addr))
    /\ UNCHANGED <<max_peers, used, world>>

\* A reply that does not, or none at all (drive_handshakes): ConnectFailed.
ConnectFails(id) ==
    /\ outbound' = Without(outbound, {id})
    /\ UNCHANGED <<table, max_peers, used, where, net, reached, world>>

\* drive_liveness: those unheard for longest are lost, with an event each.
PeerLost ==
    /\ \E n \in 1 .. Len(table.heard) :
          table' = Drop(table, {table.heard[k] : k \in 1 .. n})
    /\ Peopled(where)
    /\ UNCHANGED <<outbound, max_peers, used, world>>

\* disconnect, of a session or of a handshake.
Disconnect(id) ==
    /\ \/ id \in Held /\ table' = Drop(table, {id}) /\ UNCHANGED outbound
       \/ id \in DOMAIN outbound /\ outbound' = Without(outbound, {id}) /\ UNCHANGED table
    /\ Peopled(where)
    /\ UNCHANGED <<max_peers, used, world>>

\* set_max_peers, which takes zero as one.
SetMaxPeers(limit) ==
    /\ max_peers' = IF limit = 0 THEN 1 ELSE limit
    /\ UNCHANGED <<table, outbound, used, where, net, reached, world>>

-----------------------------------------------------------------------------
(* A frame finds its session.                                              *)

Sid(f) == Peers[f.id].sid

\* Mutant: the identifier decides, even where the address has a session.
CandidatesByIdentifier(f, sid) ==
    SubSeq(table.by_session[sid], 1,
           IF Len(table.by_session[sid]) < MaxCandidates
           THEN Len(table.by_session[sid]) ELSE MaxCandidates)

\* route: the sessions a frame is tried on, in turn.
Candidates(f, sid) ==
    IF <<f.src, sid>> \in DOMAIN table.routes
    THEN <<table.routes[<<f.src, sid>>]>>
    ELSE SubSeq(table.by_session[sid], 1,
                IF Len(table.by_session[sid]) < MaxCandidates
                THEN Len(table.by_session[sid]) ELSE MaxCandidates)

\* The filed address needs no budget (may_try_unknown_address).
MayTry(id, src) == Peers[id].addr = src \/ Peers[id].budget > 0

\* claimed: the walk ends at a session that is probing this address, or that
\* has taken the frame.
Ends(f, id) ==
    /\ MayTry(id, f.src)
    /\ \/ id = f.id /\ f.token = NoToken
       \/ \E p \in Peers[id].probe : p.addr = f.src

\* The sessions a frame is really tried on.
Tried(f, sid) ==
    LET c == Candidates(f, sid) IN
    {c[k] : k \in {n \in DOMAIN c :
        /\ MayTry(c[n], f.src)
        /\ \A m \in 1 .. n - 1 : ~Ends(f, c[m])}}

\* Mutant: an address that has not answered in time is given up on.
StartProbeOnce(e, addr, token) ==
    LET same == {p \in e.probe : p.addr = addr} IN
    IF same = {}
    THEN {[addr |-> addr, token |-> token, sent |-> 1, age |-> "hot"]}
    ELSE {IF p.sent < PathProbes /\ p.age = "cool"
          THEN [p EXCEPT !.sent = @ + 1, !.age = "hot"] ELSE p : p \in same}

\* start_probe: a challenge goes out for an address not heard from before, for
\* one whose probe has aged out, or again after a pause.
StartProbe(e, addr, token) ==
    LET same == {p \in e.probe : p.addr = addr /\ p.age # "old"} IN
    IF same = {}
    THEN {[addr |-> addr, token |-> token, sent |-> 1, age |-> "hot"]}
    ELSE {IF p.sent < PathProbes /\ p.age = "cool"
          THEN [p EXCEPT !.sent = @ + 1, !.age = "hot"] ELSE p : p \in same}

\* Mutant: the token alone is enough.
AnsweredToken(e, f) == \E p \in e.probe : p.token = f.token

\* The test of settle_probe.
Answered(e, f) == \E p \in e.probe : p.addr = f.src /\ p.token = f.token

\* settle_probe: the session moves, and takes the route from any other.
Settle(t, id, addr) ==
    LET e == t.peers[id]
        gone == IF <<addr, e.sid>> \in DOMAIN t.routes
                THEN {t.routes[<<addr, e.sid>>]} \ {id} ELSE {}
    IN [Drop(t, gone) EXCEPT !.peers[id] = [e EXCEPT !.addr = addr, !.probe = {}],
                     !.routes = With(Without(@, {RouteOf(e)}), <<addr, e.sid>>, id)]

\* Tokens are random: never one that is still about.
Fresh(token) ==
    /\ \A m \in net : m.token # token
    /\ \A i \in Held : \A p \in Peers[i].probe : p.token # token

\* deliver, once the frame has opened: the peer has spoken.
Spoken(e) == [e EXCEPT !.spoke = TRUE, !.left = -1]
Hear(t, id) ==
    [t EXCEPT !.peers[id] = Spoken(t.peers[id]),
              !.heard = Append(Retain(t.heard, {id}), id)]

\* dispatch and route, of one frame of a session on file.
Route(f) ==
    LET tried == Tried(f, Sid(f))
        spent == [table EXCEPT !.peers = [i \in Held |->
                    IF i \in tried /\ Peers[i].addr # f.src
                    THEN [Peers[i] EXCEPT !.budget = @ - 1] ELSE Peers[i]]]
        heard == Hear(spent, f.id)
    IN
    /\ f \in net /\ f \in Frame /\ f.id \in Held
    /\ \/ /\ f.id \notin tried
          /\ table' = spent /\ net' = net \ {f}
       \/ /\ f.id \in tried /\ f.src = Peers[f.id].addr
          /\ table' = heard /\ net' = net \ {f}
       \/ /\ f.id \in tried /\ f.src # Peers[f.id].addr /\ f.token # NoToken
          /\ table' = IF Answered(Peers[f.id], f) THEN Settle(heard, f.id, f.src) ELSE heard
          /\ net' = net \ {f}
       \/ /\ f.id \in tried /\ f.src # Peers[f.id].addr /\ f.token = NoToken
          /\ \E token \in Tokens : Fresh(token)
          /\ LET token == CHOOSE t \in Tokens : Fresh(t)
                 probe == StartProbe(Peers[f.id], f.src, token)
             IN /\ table' = [heard EXCEPT !.peers[f.id].probe = probe]
                /\ net' = (net \ {f}) \cup
                          {[id |-> f.id, dst |-> f.src, token |-> p.token]
                             : p \in {q \in probe : q \notin Peers[f.id].probe}}
    /\ UNCHANGED <<outbound, max_peers, used, where, reached, world>>

\* Time passes for a probe.
ProbeAges(id) ==
    /\ \E p \in Peers[id].probe :
          /\ p.age # "old"
          /\ table' = [table EXCEPT !.peers[id].probe =
                         {[p EXCEPT !.age = IF @ = "hot" THEN "cool" ELSE "old"]}]
    /\ UNCHANGED <<outbound, max_peers, used, where, net, reached, world>>

\* Time passes for a budget.
Refills(id) ==
    /\ Peers[id].budget < Rate
    /\ table' = [table EXCEPT !.peers[id].budget = Rate]
    /\ UNCHANGED <<outbound, max_peers, used, where, net, reached, world>>

-----------------------------------------------------------------------------
(* The peers and the network.                                              *)

PeerMoves(id, addr) ==
    /\ id \in world.roaming /\ addr # where[id]
    /\ where' = [where EXCEPT ![id] = addr]
    /\ UNCHANGED <<table, outbound, max_peers, used, net, reached, world>>

PeerSends(id) ==
    /\ Cardinality(net) < world.flight
    /\ net' = net \cup {[id |-> id, src |-> where[id], token |-> NoToken]}
    /\ UNCHANGED <<table, outbound, max_peers, used, where, reached, world>>

\* A challenge that finds the peer at the address it was sent to is answered,
\* and the peer may have moved when the answer leaves.
PeerAnswers(c, src) ==
    /\ c \in net /\ c \in Challenge /\ where[c.id] = c.dst
    /\ src = c.dst \/ c.id \in world.roaming
    /\ net' = (net \ {c}) \cup {[id |-> c.id, src |-> src, token |-> c.token]}
    /\ where' = [where EXCEPT ![c.id] = src]
    /\ reached' = reached \cup {<<c.id, c.dst>>}
    /\ UNCHANGED <<table, outbound, max_peers, used, world>>

Lose(m) ==
    /\ net' = net \ {m}
    /\ UNCHANGED <<table, outbound, max_peers, used, where, reached, world>>

Elsewhere(m) == where[m.id] # IF m \in Frame THEN m.src ELSE m.dst

\* The addresses are interchangeable while nothing refers to any of them.
Reachable ==
    IF Held = {} /\ DOMAIN outbound = {} THEN {CHOOSE a \in world.addrs : TRUE}
    ELSE world.addrs

Next ==
    \/ \E id \in Ids, addr \in Reachable, sid \in Sids :
          Accept(id, addr, sid) \/ Connect(id, addr, sid)
    \/ \E id \in DOMAIN outbound : Complete(id) \/ ConnectFails(id)
    \/ \E id \in Ids : Disconnect(id)
    \/ PeerLost
    \/ \E limit \in 0 .. MaxPeers : SetMaxPeers(limit)
    \/ \E id \in Held :
          RepeatHandshake(id) \/ ProbeAges(id) \/ Refills(id) \/ PeerSends(id)
    \/ \E id \in Held, addr \in world.addrs : PeerMoves(id, addr)
    \/ \E m \in net : Route(m) \/ Lose(m)
    \/ \E m \in net, addr \in world.addrs : PeerAnswers(m, addr)

Spec == Init /\ [][Next]_vars

\* What belongs to the probe under way.
Current(m) == \E p \in Peers[m.id].probe : p.token = m.token

Stale(m) == Elsewhere(m) \/ (m.token # NoToken /\ ~Current(m))

\* One session is left, which is the case Followed speaks of.
Alone == Cardinality(Held) = 1

\* Time passes, a peer at rest goes on sending, of what keeps being sent
\* something arrives, some challenges and answers within PROBE_TIMEOUT, and what
\* is stale does not stay on its way for ever.  No more is assumed than that it
\* is so while one session is left.
Fairness ==
    /\ WF_vars(Alone /\ \E id \in Held : ProbeAges(id))
    /\ WF_vars(Alone /\ \E id \in Held : Refills(id))
    /\ WF_vars(Alone /\ \E id \in Held : PeerSends(id))
    /\ SF_vars(Alone /\ \E f \in net : f.token = NoToken /\ ~Elsewhere(f) /\ Route(f))
    /\ SF_vars(Alone /\ \E f \in net : Current(f) /\ Route(f))
    /\ SF_vars(Alone /\ \E c \in net : Current(c) /\ PeerAnswers(c, c.dst))
    /\ WF_vars(Alone /\ \E m \in net : Stale(m) /\ Lose(m))

FairSpec == Spec /\ Fairness

-----------------------------------------------------------------------------
\* The table, its indexes, the probes and their budgets keep their ranges.
TypeOK ==
    /\ Held \subseteq Ids /\ \A i \in Held : Peers[i] \in Entry
    /\ DOMAIN table.routes \subseteq Addrs \X Sids
    /\ DOMAIN outbound \subseteq used /\ max_peers \in 1 .. MaxPeers
    /\ net \subseteq Frame \cup Challenge /\ reached \subseteq Ids \X Addrs
    /\ used \subseteq Ids

\* The table and its indexes agree after every sequence of arrivals, moves,
\* displacements and losses: each session has its route and its place under its
\* identifier, once, and neither index names anything else.
IndexesAgree ==
    /\ \A i \in Held : /\ RouteOf(Peers[i]) \in DOMAIN table.routes
                      /\ table.routes[RouteOf(Peers[i])] = i
    /\ \A r \in DOMAIN table.routes :
          table.routes[r] \in Held /\ r = RouteOf(Peers[table.routes[r]])
    /\ \A s \in Sids :
          /\ IsInjective(table.by_session[s])
          /\ Range(table.by_session[s]) = {i \in Held : Peers[i].sid = s}
    /\ Range(table.order) = Held /\ Range(table.heard) = Held
    /\ Held \cap DOMAIN outbound = {}

\* A session is filed under an address its peer has been at: the one it shook
\* hands from, or one where it received a challenge (settle_probe tests the
\* address and the token).
FiledWhereReached == \A i \in Held : <<i, Peers[i].addr>> \in reached

\* Moving never costs another session its place: a frame from an address that
\* has a session under its identifier never reaches settle_probe, so the
\* displacement there is never needed.
MovesDisplaceNobody ==
    [][\A i \in Held : i \in DOMAIN table'.peers /\ table'.peers[i].addr # Peers[i].addr
          => DOMAIN table'.peers = Held]_vars

\* A peer that comes to rest at an address is followed there, unless its session
\* ends: through lost challenges, stale answers and probes that age out, as long
\* as what it sends leaves some of its budget.
Followed ==
    (/\ <>[](Alone /\ \A id \in Held : Peers[id].budget > 0)
     /\ <>[][UNCHANGED where]_vars)
    => <>[](\A id \in Held : Peers[id].addr = where[id])

=============================================================================

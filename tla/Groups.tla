------------------------------- MODULE Groups -------------------------------
(***************************************************************************)
(* Groups of clients at a rendezvous (SPEC A.7): the server's record of    *)
(* them (Rendezvous::join, leave, forget, tell_group in                    *)
(* crates/fectp/src/rendezvous.rs) and what each client makes of what it   *)
(* is told (join_group, leave_group, on_control in endpoint.rs).           *)
(*                                                                         *)
(* A client is its key; a session of client c with the rendezvous is       *)
(* <<c, n>>.  Registration is one step here: Introductions has its detail. *)
(* Control messages are reliable and not ordered.  Every certificate is a  *)
(* good one, filed by the member it names.                                 *)
(***************************************************************************)
EXTENDS Naturals, FiniteSets, Bags, Functions

CONSTANTS Clients,            \* keys
          Tags,               \* group tags
          MaxSessions,        \* sessions a client opens
          MaxCalls,           \* join_group and leave_group calls per client
          MAX_GROUP_MEMBERS,  \* rendezvous.rs:96
          MAX_GROUPS,         \* rendezvous.rs:99
          Faults              \* what may happen: "budget", "session", "evict", "leave"

GroupsAssumption ==
  /\ MaxSessions \in Nat /\ MaxCalls \in Nat
  /\ MAX_GROUP_MEMBERS \in Nat /\ MAX_GROUPS \in Nat
  /\ Faults \subseteq {"budget", "session", "evict", "leave"}

VARIABLES
  session,   \* each client's registered session, 0 for none, and how many so far
  view,      \* ClientState.groups: each client's groups, with their members
  groups,    \* Rendezvous.groups: each tag's members, as <<session, key>>
  served,    \* sessions open at the server
  net,       \* control messages in flight
  calls,     \* calls so far
  raised     \* for each client and group, the keys PeerDiscovered was raised for

vars == <<session, view, groups, served, net, calls, raised>>

Sessions == Clients \X (1..MaxSessions)
SessionOf(c) == <<c, session[c].at>>
Registered(c) == session[c].at # 0

Message(s, kind, t, list) == [session |-> s, kind |-> kind, tag |-> t, list |-> list]
ToServer(c, kind, t) ==
  IF Registered(c) THEN SetToBag({Message(SessionOf(c), kind, t, {})}) ELSE EmptyBag

----------------------------------------------------------------------------
(* The client.                                                             *)

\* join_group: into the table with no members known, again or for the first
\* time, within MAX_GROUPS; the rendezvous is told if registration is done.
join_group(c, t) ==
  /\ calls[c] < MaxCalls
  /\ t \in DOMAIN view[c] \/ Cardinality(DOMAIN view[c]) < MAX_GROUPS
  /\ calls' = [calls EXCEPT ![c] = @ + 1]
  /\ view' = [view EXCEPT ![c] = (t :> {}) @@ @]
  /\ net' = net (+) ToServer(c, "Join", t)
  /\ UNCHANGED <<session, groups, served, raised>>

leave_group(c, t) ==
  /\ "leave" \in Faults
  /\ calls[c] < MaxCalls
  /\ t \in DOMAIN view[c]
  /\ calls' = [calls EXCEPT ![c] = @ + 1]
  /\ view' = [view EXCEPT ![c] = Restrict(@, DOMAIN @ \ {t})]
  /\ net' = net (+) ToServer(c, "Leave", t)
  /\ UNCHANGED <<session, groups, served, raised>>

\* on_control, Observed: registration is done, and every group is joined.
Observed(c) ==
  /\ ~Registered(c)
  /\ session[c].opened < MaxSessions
  /\ LET n == session[c].opened + 1 IN
     /\ session' = [session EXCEPT ![c] = [at |-> n, opened |-> n]]
     /\ served' = served \cup {<<c, n>>}
     /\ net' = net (+) SetToBag({Message(<<c, n>>, "Join", t, {}) : t \in DOMAIN view[c]})
  /\ UNCHANGED <<view, groups, calls, raised>>

\* lose_rendezvous: what it said about groups is forgotten.
lose_rendezvous(c) ==
  /\ "session" \in Faults
  /\ Registered(c)
  /\ session' = [session EXCEPT ![c].at = 0]
  /\ view' = [view EXCEPT ![c] = [t \in DOMAIN @ |-> {}]]
  /\ UNCHANGED <<groups, served, net, calls, raised>>

OnMembers(c, m) ==
  /\ m.kind = "Members"
  /\ m.session = SessionOf(c)
  /\ net' = net (-) SetToBag({m})
  /\ IF m.tag \notin DOMAIN view[c] THEN UNCHANGED <<view, raised>>
     ELSE LET checked == m.list \ {c}
              found == checked \ view[c][m.tag] IN
          /\ view' = [view EXCEPT ![c][m.tag] = checked]
          /\ raised' = [raised EXCEPT ![c][m.tag] = @ \cup found]
  /\ UNCHANGED <<session, groups, served, calls>>

----------------------------------------------------------------------------
(* The server.                                                             *)

Keys(members) == {p[2] : p \in members}
\* tell_group: the whole of it to every member whose session is open.
tell_group(t, members) ==
  SetToBag({Message(p[1], "Members", t, Keys(members)) : p \in {q \in members : q[1] \in served}})

\* Mutant: the newcomer alone is told.
JoinQuietly(m) ==
  LET s == m.session
      members == {p \in groups[m.tag] : p[2] # s[1]} \cup {<<s, s[1]>>} IN
  /\ groups' = [groups EXCEPT ![m.tag] = members]
  /\ net' = net (-) SetToBag({m}) (+) SetToBag({Message(s, "Members", m.tag, Keys(members))})

Join(m) ==
  LET s == m.session
      others == {t \in Tags \ {m.tag} : \E p \in groups[t] : p[1] = s}
      kept == {p \in groups[m.tag] : p[1] # s /\ p[2] # s[1]}
      full == Cardinality(kept) >= MAX_GROUP_MEMBERS \/ Cardinality(others) >= MAX_GROUPS
      members == kept \cup {<<s, s[1]>>} IN
  /\ groups' = [groups EXCEPT ![m.tag] = IF full THEN kept ELSE members]
  /\ net' = net (-) SetToBag({m}) (+)
            IF full THEN EmptyBag ELSE tell_group(m.tag, members)

\* leave: nothing if it was not there; the rest are told.
Left(s, t) == {p \in groups[t] : p[1] # s}
Leave(m) ==
  /\ groups' = [groups EXCEPT ![m.tag] = Left(m.session, m.tag)]
  /\ net' = net (-) SetToBag({m}) (+)
            IF Left(m.session, m.tag) = groups[m.tag] THEN EmptyBag
            ELSE tell_group(m.tag, Left(m.session, m.tag))

\* handle: a join over its address's budget is dropped.
Handle(m) ==
  /\ m.kind \in {"Join", "Leave"}
  /\ m.session \in served
  /\ \/ m.kind = "Join" /\ Join(m)
     \/ m.kind = "Leave" /\ Leave(m)
     \/ /\ "budget" \in Faults /\ m.kind = "Join"
        /\ net' = net (-) SetToBag({m})
        /\ UNCHANGED groups
  /\ UNCHANGED <<session, view, served, calls, raised>>

\* forget, on PeerLost: out of every group, and the rest are told.
Forget(s) ==
  /\ "session" \in Faults
  /\ s \in served
  /\ session[s[1]].at # s[2]
  /\ served' = served \ {s}
  /\ groups' = [t \in Tags |-> Left(s, t)]
  /\ net' = net (+) SetToBag({Message(p[1], "Members", t, Keys(Left(s, t))) :
                      <<t, p>> \in {<<u, q>> \in Tags \X UNION {groups[v] : v \in Tags} :
                        /\ \E r \in groups[u] : r[1] = s
                        /\ q \in Left(s, u) /\ q[1] \in served}})
  /\ UNCHANGED <<session, view, calls, raised>>

\* The endpoint under the server drops a session to make room, with no event.
Evicted(s) ==
  /\ "evict" \in Faults
  /\ s \in served
  /\ served' = served \ {s}
  /\ UNCHANGED <<session, view, groups, net, calls, raised>>

\* A message of a session that has ended at the end it is for.
Lose(m) ==
  /\ \/ m.kind = "Members" /\ m.session # SessionOf(m.session[1])
     \/ m.kind # "Members" /\ m.session \notin served
  /\ net' = net (-) SetToBag({m})
  /\ UNCHANGED <<session, view, groups, served, calls, raised>>

----------------------------------------------------------------------------
Init ==
  /\ session = [c \in Clients |-> [at |-> 0, opened |-> 0]]
  /\ view = [c \in Clients |-> <<>>]
  /\ groups = [t \in Tags |-> {}]
  /\ served = {}
  /\ net = EmptyBag
  /\ calls = [c \in Clients |-> 0]
  /\ raised = [c \in Clients |-> [t \in Tags |-> {}]]

Deliver == \E m \in BagToSet(net) : OnMembers(m.session[1], m) \/ Handle(m) \/ Lose(m)

Next ==
  \/ \E c \in Clients : Observed(c) \/ lose_rendezvous(c)
  \/ \E c \in Clients, t \in Tags : join_group(c, t) \/ leave_group(c, t)
  \/ Deliver
  \/ \E s \in Sessions : Forget(s) \/ Evicted(s)

Spec == Init /\ [][Next]_vars

----------------------------------------------------------------------------
(* Properties.                                                             *)

\* The client's groups and the server's registers hold keys, tags and sessions
\* that exist.
TypeOK ==
  /\ \A c \in Clients : /\ session[c] \in [at : 0..MaxSessions, opened : 0..MaxSessions]
                        /\ DOMAIN view[c] \subseteq Tags
                        /\ \A t \in DOMAIN view[c] : view[c][t] \subseteq Clients \ {c}
  /\ groups \in [Tags -> SUBSET (Sessions \X Clients)]
  /\ served \subseteq Sessions

\* A group files each key and each session once, and stays within its bounds,
\* and a session within its own, whatever joins are repeated or come from a
\* client's old session and its new one.
FiledOnce ==
  /\ \A t \in Tags : /\ Cardinality(groups[t]) <= MAX_GROUP_MEMBERS
                     /\ Cardinality(Keys(groups[t])) = Cardinality(groups[t])
  /\ \A s \in Sessions :
       Cardinality({t \in Tags : \E p \in groups[t] : p[1] = s}) <= MAX_GROUPS

\* Every member finds every other: once every message has arrived, two clients
\* in one group have each been raised to the other, in whatever order the joins
\* and the lists arrived (Rendezvous::join, tell_group, Endpoint::on_control).
EveryoneFound ==
  net = EmptyBag =>
    \A c, k \in Clients, t \in Tags :
      c # k /\ Registered(c) /\ Registered(k) /\ t \in DOMAIN view[c] \cap DOMAIN view[k]
        => k \in raised[c][t]
=============================================================================

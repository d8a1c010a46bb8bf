--------------------------- MODULE Introductions ---------------------------
(***************************************************************************)
(* How two clients of a rendezvous come to have a session with each other: *)
(* registration, the two requests, the introduction, the direct handshake  *)
(* and the relayed one after it (SPEC A.1 to A.4).  The clients are the    *)
(* rendezvous part of an Endpoint (crates/fectp/src/endpoint.rs); the      *)
(* server is Rendezvous (crates/fectp/src/rendezvous.rs).  One step is one *)
(* event taken by one of them, with everything the handler does to its     *)
(* tables and every message it sends.                                      *)
(*                                                                         *)
(* The control messages are reliable messages of a session between client *)
(* and rendezvous: delivered at most once, in any order, and lost only if  *)
(* every transmission was, or the session ended.  A session of client c    *)
(* with the rendezvous is <<c, n>>, the n-th it opened; both ends' PeerIds *)
(* for it are that name.  A client's key is a number, compared as keys     *)
(* are.  Time is abstracted: a window, a deadline or a timeout may pass    *)
(* whenever it is running.  The relay's ports are those of RelayPort: here *)
(* a port has recorded its party's address or has not.                     *)
(***************************************************************************)
EXTENDS Naturals, FiniteSets, Bags, Functions

CONSTANTS Clients,      \* the clients' static keys, numbers
          BINDS,        \* hellos to a port before giving up, rendezvous.rs:1236
          Worlds        \* what a behaviour may be confined to: records
                        \*   opens: sessions each opens with the rendezvous
                        \*   calls: calls of introduce each makes
                        \*   direct: whether a handshake gets through the NATs
                        \*   faults: what may go wrong

FaultKinds == {"budget", "refuse", "loss", "connect", "deadline", "window",
               "session", "rendezvous", "disconnect", "slow"}

ASSUME InstanceAssumption ==
  /\ Clients \subseteq Nat
  /\ BINDS \in Nat
  /\ \A w \in Worlds : w.opens \in [Clients -> Nat] /\ w.calls \in [Clients -> Nat]
                       /\ w.direct \in BOOLEAN /\ w.faults \subseteq FaultKinds

VARIABLES
  world,      \* which of Worlds this is; it does not change
  rv,         \* ClientState: the session it takes for the rendezvous's (0 for
              \* None), whether registration is done, whether that session's
              \* handshake is under way, and how many it has opened
  up,         \* rendezvous sessions open at the client
  ask,        \* ClientState.asks: by <<client, key>>, where it has got to
  outbound,   \* handshakes under way: by <<client, key, route>>, whether the
              \* other side has accepted it already
  sessions,   \* <<client, key, route>>: sessions between clients
  relayed,    \* ClientState.relayed: sessions filed with a Link
  calls,      \* calls of introduce so far
  served,     \* rendezvous sessions open at the server
  clients,    \* Rendezvous.clients: the registered sessions
  byKey,      \* Rendezvous.by_key: each registered key's session
  asked,      \* Rendezvous.asked
  introduced, \* Rendezvous.introduced
  relays,     \* Rendezvous.relays: the pairs with an allocation
  bound,      \* <<client, key>>: ports that have recorded their party
  net,        \* control messages in flight
  wanted,     \* history: <<client, key>> pairs asked for by an application
  told,       \* the events the last step raised to the applications
  overtaken   \* history: an offer reached a client before its introduction

clientVars == <<rv, up, ask, outbound, sessions, relayed, calls, wanted, overtaken>>
serverVars == <<served, clients, byKey, asked, introduced, relays, bound>>
moving == <<clientVars, serverVars, net, told>>
vars == <<world, moving>>

Faults == world.faults
Sessions == UNION {{c} \X (1..world.opens[c]) : c \in Clients}
Routes == {"direct", "relay"}
Pairs == {p \in Clients \X Clients : p[1] # p[2]}
Reasons == {"NotRegistered", "Refused", "NoRelay", "NotAsked", "Unreachable"}

\* starts: the smaller key starts the handshake.
starts(ours, theirs) == ours < theirs

\* pair: one name for the two orders.
pair(a, b) == IF a < b THEN <<a, b>> ELSE <<b, a>>

\* HashMap::insert: a new entry, or the entry's new value.
Insert(map, key, value) ==
  [k \in DOMAIN map \cup {key} |-> IF k = key THEN value ELSE map[k]]

\* A message of session s: to the server, or to the client.
Up(s, kind, key) == [to |-> "server", session |-> s, kind |-> kind, key |-> key]
Down(s, kind, key) == [to |-> "client", session |-> s, kind |-> kind, key |-> key]

\* What the application hears.
Connected(c, k) == [at |-> c, event |-> "Connected", key |-> k]
Failed(c, k, why) == [at |-> c, event |-> "IntroductionFailed", key |-> k, why |-> why]
ConnectFailed(c, k) == [at |-> c, event |-> "ConnectFailed", key |-> k]

\* Stage::Asked, Stage::Introduced and Stage::Relaying.
Asked == [stage |-> "Asked", outbound |-> FALSE, relay_asked |-> FALSE,
          checked |-> FALSE, legacy |-> FALSE, binds |-> 0]
Introduced(dials) == [Asked EXCEPT !.stage = "Introduced", !.outbound = dials]
Relaying == [Asked EXCEPT !.stage = "Relaying"]

\* The client's session with its rendezvous, and whether it can carry a message.
RvOf(c) == <<c, rv[c].rendezvous>>
HasRv(c) == rv[c].rendezvous # 0

\* tell_rendezvous: sends, or drops what cannot go.  Messages of c: the kinds
\* and keys in what.
tell_rendezvous(c, what) ==
  IF HasRv(c) /\ RvOf(c) \in up
  THEN SetToBag({Up(RvOf(c), w[1], w[2]) : w \in what})
  ELSE EmptyBag

\* has_session_with: a session open, or a handshake under way.
has_session_with(c, k) ==
  \/ \E r \in Routes : <<c, k, r>> \in sessions
  \/ \E r \in Routes : <<c, k, r>> \in DOMAIN outbound


\* The events a step raises to the applications.
Hear(events) == told' = events

\* fail_introduction for some of c's keys: what is there is removed, and told.
\* Mutant: the event is raised whether or not the ask was still there.
fail_introduction_always(c, keys, why) ==
  /\ ask' = Restrict(ask, DOMAIN ask \ {<<c, k>> : k \in keys})
  /\ Hear({Failed(c, k, why) : k \in keys})

fail_introduction(c, keys, why) ==
  LET held == {k \in keys : <<c, k>> \in DOMAIN ask} IN
  /\ ask' = Restrict(ask, DOMAIN ask \ {<<c, k>> : k \in held})
  /\ Hear({Failed(c, k, why) : k \in held})

\* lose_rendezvous: everything asked of it fails.
lose_rendezvous(c) ==
  /\ rv' = [rv EXCEPT ![c].rendezvous = 0, ![c].registered = FALSE,
                     ![c].shaking = FALSE]
  /\ fail_introduction(c, Clients, "Unreachable")

----------------------------------------------------------------------------
(* The client: its calls and its session with the rendezvous.              *)

\* connect_rendezvous: the new session replaces the one before it, which stays
\* open as an ordinary peer's.
connect_rendezvous(c) ==
  /\ rv[c].opened < world.opens[c]
  /\ rv' = [rv EXCEPT ![c] = [rendezvous |-> rv[c].opened + 1, registered |-> FALSE,
                              shaking |-> TRUE, opened |-> rv[c].opened + 1]]
  /\ Hear({})
  /\ UNCHANGED <<up, ask, outbound, sessions, relayed, calls, wanted, overtaken, serverVars, net>>

\* intercept, Connected for the rendezvous: registration is sent.
RendezvousConnected(c) ==
  /\ rv[c].shaking
  /\ rv' = [rv EXCEPT ![c].shaking = FALSE]
  /\ up' = up \cup {RvOf(c)}
  /\ served' = served \cup {RvOf(c)}
  /\ net' = net (+) SetToBag({Up(RvOf(c), "Register", c)})
  /\ Hear({})
  /\ UNCHANGED <<ask, outbound, sessions, relayed, calls, wanted, overtaken,
                 clients, byKey, asked, introduced, relays, bound>>

\* intercept, ConnectFailed for the rendezvous, or PeerLost for the session.
RendezvousLost(c) ==
  /\ "rendezvous" \in Faults
  /\ rv[c].shaking \/ RvOf(c) \in up
  /\ up' = up \ {RvOf(c)}
  /\ lose_rendezvous(c)
  /\ UNCHANGED <<outbound, sessions, relayed, calls, wanted, overtaken, serverVars, net>>

\* disconnect of the rendezvous's handle: the session is dropped, and the
\* ClientState is not told.
Disconnect(c) ==
  /\ "disconnect" \in Faults
  /\ RvOf(c) \in up
  /\ up' = up \ {RvOf(c)}
  /\ Hear({})
  /\ UNCHANGED <<rv, ask, outbound, sessions, relayed, calls, wanted, overtaken, serverVars, net>>

\* introduce: asks, or says Ok with nothing asked if there is a session with
\* the key or a handshake to it.
introduce(c, k) ==
  /\ HasRv(c)
  /\ calls[c] < world.calls[c]
  /\ calls' = [calls EXCEPT ![c] = @ + 1]
  /\ wanted' = wanted \cup {<<c, k>>}
  /\ Hear({})
  /\ IF has_session_with(c, k)
     THEN UNCHANGED <<ask, net>>
     ELSE /\ ask' = Insert(ask, <<c, k>>, Asked)
          /\ net' = net (+) IF rv[c].registered
                            THEN tell_rendezvous(c, {<<"Introduce", k>>}) ELSE EmptyBag
  /\ UNCHANGED <<rv, up, outbound, sessions, relayed, overtaken, serverVars>>

Deadline(c, k) ==
  /\ "deadline" \in Faults
  /\ <<c, k>> \in DOMAIN ask
  /\ fail_introduction(c, {k}, "Unreachable")
  /\ UNCHANGED <<rv, up, outbound, sessions, relayed, calls, wanted, overtaken, serverVars, net>>

Bind(c, k) ==
  LET a == ask[<<c, k>>] IN
  /\ <<c, k>> \in DOMAIN ask
  /\ a.stage = "Relaying"
  /\ a.binds <= BINDS
  /\ "loss" \in Faults \/ a.binds = 0 \/ a.checked \/ pair(c, k) \notin relays
  /\ IF a.binds = BINDS /\ a.legacy /\ ~a.checked
     THEN fail_introduction(c, {k}, "Unreachable")
     ELSE /\ ask' = [ask EXCEPT ![<<c, k>>] =
                       IF a.binds = BINDS /\ ~a.checked
                       THEN [a EXCEPT !.legacy = TRUE, !.binds = 0]
                       ELSE [a EXCEPT !.binds = @ + 1]]
          /\ Hear({})
  /\ UNCHANGED <<rv, up, outbound, sessions, relayed, calls, wanted, overtaken, serverVars, net>>

----------------------------------------------------------------------------
(* The client: what the rendezvous says (on_control).                      *)

\* A message for client c on the session it takes for the rendezvous's: the
\* ones on any other session are the application's.
Heard(c, m) == m.to = "client" /\ m.session = RvOf(c) /\ m.session \in up

\* Control::Observed: registration is done, and what waited for it is sent.
OnObserved(c, m) ==
  /\ m.kind = "Observed"
  /\ rv' = [rv EXCEPT ![c].registered = TRUE]
  /\ net' = net (-) SetToBag({m}) (+)
            IF rv[c].registered THEN EmptyBag
            ELSE tell_rendezvous(c, {<<"Introduce", p[2]>> :
                   p \in {q \in DOMAIN ask : q[1] = c /\ ask[q].stage = "Asked"}})
  /\ Hear({})
  /\ UNCHANGED <<up, ask, outbound, sessions, relayed, calls, wanted, overtaken>>

\* Control::Unavailable: the introduction is over, whatever its stage.
OnUnavailable(c, m) ==
  /\ m.kind \in Reasons
  /\ fail_introduction(c, {m.key}, m.kind)
  /\ net' = net (-) SetToBag({m})
  /\ UNCHANGED <<rv, up, outbound, sessions, relayed, calls, wanted, overtaken>>

\* Control::Introduction: only a key asked for and not yet introduced, and with
\* no session or handshake.  The starting side connects; an address it cannot
\* connect to fails the introduction.
OnIntroduction(c, m) ==
  LET p == <<c, m.key>>
      due == /\ p \in DOMAIN ask
             /\ ask[p].stage = "Asked"
             /\ ~has_session_with(c, m.key) IN
  /\ m.kind = "Introduction"
  /\ net' = net (-) SetToBag({m})
  /\ \/ /\ ~due
        /\ Hear({})
        /\ UNCHANGED <<ask, outbound>>
     \/ /\ due
        /\ ask' = [ask EXCEPT ![p] = Introduced(starts(c, m.key))]
        /\ outbound' = IF starts(c, m.key)
                       THEN Insert(outbound, <<c, m.key, "direct">>, FALSE) ELSE outbound
        /\ Hear({})
     \/ /\ due
        /\ "connect" \in Faults /\ starts(c, m.key)
        /\ fail_introduction(c, {m.key}, "Unreachable")
        /\ UNCHANGED outbound
  /\ UNCHANGED <<rv, up, sessions, relayed, calls, wanted, overtaken>>

\* Control::RelayOffer: only for a key introduced, and once.
OnRelayOffer(c, m) ==
  LET p == <<c, m.key>> IN
  /\ m.kind = "RelayOffer"
  /\ net' = net (-) SetToBag({m})
  /\ ask' = IF p \in DOMAIN ask /\ ask[p].stage = "Introduced"
            THEN [ask EXCEPT ![p] = Relaying] ELSE ask
  /\ overtaken' = (overtaken \/ (p \in DOMAIN ask /\ ask[p].stage = "Asked"))
  /\ Hear({})
  /\ UNCHANGED <<rv, up, outbound, sessions, relayed, calls, wanted>>

OnControl(c, m) ==
  /\ Heard(c, m)
  /\ \/ OnObserved(c, m)
     \/ OnUnavailable(c, m)
     \/ OnIntroduction(c, m)
     \/ OnRelayOffer(c, m)
  /\ UNCHANGED serverVars

\* not_a_frame: a check from the port offered, which is only there while the
\* allocation is.  It is answered, and the answer may be lost; the starting
\* side connects through the port on the first one.
Checked(c, k) ==
  LET p == <<c, k>>
      first == ~ask[p].checked IN
  /\ p \in DOMAIN ask
  /\ ask[p].stage = "Relaying"
  /\ ask[p].binds > 0
  /\ pair(c, k) \in relays
  /\ bound' \in {bound \cup {p}} \cup IF "loss" \in Faults THEN {bound} ELSE {}
  /\ \/ /\ ask' = [ask EXCEPT ![p].checked = TRUE,
                              ![p].outbound = @ \/ (first /\ starts(c, k))]
        /\ outbound' = IF first /\ starts(c, k)
                       THEN Insert(outbound, <<c, k, "relay">>, FALSE) ELSE outbound
        /\ Hear({})
     \/ /\ "connect" \in Faults /\ first /\ starts(c, k)
        /\ fail_introduction(c, {k}, "Unreachable")
        /\ UNCHANGED outbound
  /\ UNCHANGED <<rv, up, sessions, relayed, calls, wanted, overtaken,
                 served, clients, byKey, asked, introduced, relays, net>>

----------------------------------------------------------------------------
(* Handshakes between the clients, and what intercept makes of them.       *)

\* intercept, Connected: a session with the key asked for answers the request,
\* and is filed as relayed if it runs through the port offered.
ConnectedTo(c, k, r) ==
  LET p == <<c, k>> IN
  /\ sessions' = sessions \cup {<<c, k, r>>}
  /\ ask' = Restrict(ask, DOMAIN ask \ {p})
  /\ relayed' = IF p \in DOMAIN ask /\ ask[p].stage = "Relaying" /\ r = "relay"
                THEN relayed \cup {p} ELSE relayed
  /\ Hear({Connected(c, k)})

\* Whether a datagram gets from one client to the other: directly if the NATs
\* let it, through the relay once both ports know their party.
Reaches(c, k, r) ==
  IF r = "direct" THEN world.direct
  ELSE pair(c, k) \in relays /\ {<<c, k>>, <<k, c>>} \subseteq bound

\* The opening frame of c's handshake reaches k, which accepts it.
Accepted(c, k, r) ==
  /\ <<c, k, r>> \in DOMAIN outbound
  /\ ~outbound[<<c, k, r>>]
  /\ Reaches(c, k, r)
  /\ outbound' = [outbound EXCEPT ![<<c, k, r>>] = TRUE]
  /\ ConnectedTo(k, c, r)
  /\ UNCHANGED <<rv, up, calls, wanted, overtaken, serverVars, net>>

\* The reply reaches c.
Completed(c, k, r) ==
  /\ <<c, k, r>> \in DOMAIN outbound
  /\ outbound[<<c, k, r>>]
  /\ Reaches(c, k, r)
  /\ outbound' = Restrict(outbound, DOMAIN outbound \ {<<c, k, r>>})
  /\ ConnectedTo(c, k, r)
  /\ UNCHANGED <<rv, up, calls, wanted, overtaken, serverVars, net>>

\* Whether k may still come to have its port know it: it can bind, or there is
\* word on the way to it.
Coming(k, c) ==
  \/ /\ <<k, c>> \in DOMAIN ask
     /\ ask[<<k, c>>].stage = "Relaying"
     /\ ask[<<k, c>>].binds <= BINDS
  \/ \E m \in BagToSet(net) : m.to = "client" /\ m.session[1] = k

\* intercept, ConnectFailed: the first failure of an introduction asks for a
\* relay, the second fails it.  One no ask owns goes to the application.
HandshakeFailed(c, k, r) ==
  LET p == <<c, k>>
      owner == /\ p \in DOMAIN ask
               /\ ask[p].outbound
               /\ ask[p].stage = IF r = "direct" THEN "Introduced" ELSE "Relaying" IN
  /\ <<c, k, r>> \in DOMAIN outbound
  /\ \/ "session" \in Faults
     \/ r = "direct" /\ ~world.direct
     \/ r = "relay" /\ ~Reaches(c, k, r) /\ ("slow" \in Faults \/ ~Coming(k, c))
  /\ outbound' = Restrict(outbound, DOMAIN outbound \ {<<c, k, r>>})
  /\ \/ /\ ~owner
        /\ Hear({ConnectFailed(c, k)})
        /\ UNCHANGED <<ask, net>>
     \/ /\ owner
        /\ ask[p].stage = "Introduced" /\ ~ask[p].relay_asked
        /\ ask' = [ask EXCEPT ![p].relay_asked = TRUE]
        /\ net' = net (+) tell_rendezvous(c, {<<"Relay", k>>})
        /\ Hear({})
     \/ /\ owner
        /\ ask[p].stage = "Relaying" \/ ask[p].relay_asked
        /\ fail_introduction(c, {k}, "Unreachable")
        /\ UNCHANGED net
  /\ UNCHANGED <<rv, up, sessions, relayed, calls, wanted, overtaken, serverVars>>

\* A session between the clients ends at c: PeerLost.
SessionLost(c, k, r) ==
  /\ "session" \in Faults
  /\ <<c, k, r>> \in sessions
  /\ sessions' = sessions \ {<<c, k, r>>}
  /\ relayed' = IF r = "relay" THEN relayed \ {<<c, k>>} ELSE relayed
  /\ Hear({})
  /\ UNCHANGED <<rv, up, ask, outbound, calls, wanted, overtaken, serverVars, net>>

----------------------------------------------------------------------------
(* The server (Rendezvous::handle and what it calls).                      *)

\* send: to a session still open; dropped otherwise.
Send(ms) == SetToBag({m \in ms : m.session \in served})

\* To the session registered for each key, if there is one.
SendTo(what) ==
  Send({Down(byKey[w[1]], w[2], w[3]) : w \in {v \in what : v[1] \in DOMAIN byKey}})

\* register: a key reconnecting replaces its old registration.
Register(s) ==
  /\ byKey' = Insert(byKey, s[1], s)
  /\ clients' = (IF s[1] \in DOMAIN byKey THEN clients \ {byKey[s[1]]} ELSE clients)
                \cup {s}
  /\ net' = net (-) SetToBag({Up(s, "Register", s[1])}) (+) Send({Down(s, "Observed", s[1])})
  /\ UNCHANGED <<asked, introduced, relays>>

\* introduce: held until the other asks too and is registered.  An address
\* missing for either leaves the request to expire.
\* Mutant: the first of the two requests is enough.
IntroduceAlone(s, m) ==
  LET from == s[1]
      target == m.key IN
  /\ asked' = asked \ {<<from, target>>, <<target, from>>}
  /\ introduced' = introduced \cup {pair(from, target)}
  /\ net' = net (-) SetToBag({m}) (+)
            Send({Down(s, "Introduction", target)}) (+)
            SendTo({<<target, "Introduction", from>>})
  /\ UNCHANGED <<clients, byKey, relays>>

\* Mutant: a request is held only if its target has registered.
IntroduceKnown(s, m) ==
  LET from == s[1]
      target == m.key
      both == <<target, from>> \in asked /\ target \in DOMAIN byKey IN
  /\ asked' = IF both THEN asked \ {<<target, from>>}
              ELSE asked \cup {p \in {<<from, target>>} : target \in DOMAIN byKey}
  /\ introduced' = IF both THEN introduced \cup {pair(from, target)} ELSE introduced
  /\ net' = net (-) SetToBag({m}) (+)
            IF both THEN Send({Down(s, "Introduction", target),
                               Down(byKey[target], "Introduction", from)})
            ELSE EmptyBag
  /\ UNCHANGED <<clients, byKey, relays>>

Introduce(s, m) ==
  LET from == s[1]
      target == m.key
      both == /\ <<target, from>> \in asked
              /\ target \in DOMAIN byKey
              /\ {s, byKey[target]} \subseteq served IN
  /\ asked' = IF both THEN asked \ {<<from, target>>, <<target, from>>}
              ELSE asked \cup {<<from, target>>}
  /\ introduced' = IF both THEN introduced \cup {pair(from, target)} ELSE introduced
  /\ net' = net (-) SetToBag({m}) (+)
            IF both THEN Send({Down(s, "Introduction", target),
                               Down(byKey[target], "Introduction", from)})
            ELSE EmptyBag
  /\ UNCHANGED <<clients, byKey, relays>>

Relay(s, m) ==
  LET from == s[1]
      target == m.key
      key == pair(from, target) IN
  /\ \E room \in IF "refuse" \in Faults THEN BOOLEAN ELSE {TRUE} :
       LET opens == key \in relays \/ room
           answer == IF target \notin DOMAIN byKey
                       THEN Send({Down(s, "NotRegistered", target)})
                     ELSE IF key \notin introduced
                       THEN Send({Down(s, "NoRelay", target)})
                     ELSE IF opens
                       THEN SendTo({<<from, "RelayOffer", target>>,
                                    <<target, "RelayOffer", from>>})
                     ELSE SendTo({<<from, "NoRelay", target>>,
                                  <<target, "NoRelay", from>>}) IN
       /\ relays' = IF target \in DOMAIN byKey /\ key \in introduced /\ opens
                    THEN relays \cup {key} ELSE relays
       /\ net' = net (-) SetToBag({m}) (+) answer
  /\ UNCHANGED <<clients, byKey, asked, introduced>>

\* A request from a session that has not registered is not listened to; one
\* over its address's budget, or against the policy, is refused to the asker.
Ignored(m) ==
  /\ net' = net (-) SetToBag({m})
  /\ UNCHANGED <<clients, byKey, asked, introduced, relays>>
Refuse(s, m) ==
  /\ "budget" \in Faults
  /\ net' = net (-) SetToBag({m}) (+) Send({Down(s, "Refused", m.key)})
  /\ UNCHANGED <<clients, byKey, asked, introduced, relays>>

\* handle.
Handle(m) ==
  LET s == m.session IN
  /\ m.to = "server"
  /\ s \in served
  /\ \/ m.kind = "Register" /\ Register(s)
     \/ m.kind # "Register" /\ s \notin clients /\ Ignored(m)
     \/ m.kind # "Register" /\ s \in clients /\ Refuse(s, m)
     \/ m.kind = "Introduce" /\ s \in clients /\ Introduce(s, m)
     \/ m.kind = "Relay" /\ s \in clients /\ Relay(s, m)
  /\ Hear({})
  /\ UNCHANGED <<rv, up, ask, outbound, sessions, relayed, calls, wanted, overtaken, served, bound>>

\* forget: what PeerLost does.
\* Mutant: the key is dropped whichever session it is registered for now.
ForgetKey(s) ==
  /\ "rendezvous" \in Faults
  /\ s \in served
  /\ served' = served \ {s}
  /\ clients' = clients \ {s}
  /\ byKey' = IF s[1] \in DOMAIN byKey
              THEN Restrict(byKey, DOMAIN byKey \ {s[1]}) ELSE byKey
  /\ Hear({})
  /\ UNCHANGED <<rv, up, ask, outbound, sessions, relayed, calls, wanted, overtaken,
                 asked, introduced, relays, bound, net>>

Forget(s) ==
  /\ "rendezvous" \in Faults
  /\ s \in served
  /\ served' = served \ {s}
  /\ clients' = clients \ {s}
  /\ byKey' = IF s \in clients /\ byKey[s[1]] = s
              THEN Restrict(byKey, DOMAIN byKey \ {s[1]}) ELSE byKey
  /\ Hear({})
  /\ UNCHANGED <<rv, up, ask, outbound, sessions, relayed, calls, wanted, overtaken,
                 asked, introduced, relays, bound, net>>

ExpireAsked(p) ==
  /\ "window" \in Faults
  /\ p \in asked
  /\ asked' = asked \ {p}
  /\ net' = net (+) SendTo({<<p[1], IF p[2] \in DOMAIN byKey THEN "NotAsked"
                                    ELSE "NotRegistered", p[2]>>})
  /\ Hear({})
  /\ UNCHANGED <<rv, up, ask, outbound, sessions, relayed, calls, wanted, overtaken,
                 served, clients, byKey, introduced, relays, bound>>

ExpirePair(p) ==
  /\ "window" \in Faults
  /\ \/ /\ p \in introduced
        /\ introduced' = introduced \ {p}
        /\ UNCHANGED <<relays, bound>>
     \/ /\ p \in relays
        /\ relays' = relays \ {p}
        /\ bound' = bound \ {p, <<p[2], p[1]>>}
        /\ UNCHANGED introduced
  /\ Hear({})
  /\ UNCHANGED <<rv, up, ask, outbound, sessions, relayed, calls, wanted, overtaken, net,
                 served, clients, byKey, asked>>

\* A message whose every transmission is lost, or whose session has ended at
\* the end it is for, or which is not the rendezvous's to its client any more.
Lose(m) ==
  /\ \/ "loss" \in Faults
     \/ m.to = "server" /\ m.session \notin served
     \/ m.to = "client" /\ (m.session \notin up \/ m.session # RvOf(m.session[1]))
  /\ net' = net (-) SetToBag({m})
  /\ Hear({})
  /\ UNCHANGED <<rv, up, ask, outbound, sessions, relayed, calls, wanted, overtaken, serverVars>>

----------------------------------------------------------------------------
Init ==
  /\ world \in Worlds
  /\ rv = [c \in Clients |-> [rendezvous |-> 0, registered |-> FALSE,
                           shaking |-> FALSE, opened |-> 0]]
  /\ ask = <<>> /\ outbound = <<>> /\ byKey = <<>>
  /\ up = {} /\ sessions = {} /\ relayed = {} /\ wanted = {} /\ told = {}
  /\ overtaken = FALSE
  /\ served = {} /\ clients = {} /\ asked = {} /\ introduced = {}
  /\ relays = {} /\ bound = {}
  /\ calls = [c \in Clients |-> 0]
  /\ net = EmptyBag

Between(c, k) ==
  \/ introduce(c, k)
  \/ Deadline(c, k)
  \/ Bind(c, k)
  \/ Checked(c, k)
  \/ \E r \in Routes : \/ Accepted(c, k, r)
                       \/ Completed(c, k, r)
                       \/ HandshakeFailed(c, k, r)
                       \/ SessionLost(c, k, r)

Next ==
  /\ \/ \E c \in Clients : \/ connect_rendezvous(c)
                           \/ RendezvousConnected(c)
                           \/ RendezvousLost(c)
                           \/ Disconnect(c)
     \/ \E p \in Pairs : Between(p[1], p[2]) \/ ExpireAsked(p) \/ ExpirePair(p)
     \/ \E m \in BagToSet(net) : OnControl(m.session[1], m) \/ Handle(m) \/ Lose(m)
     \/ \E s \in Sessions : Forget(s)
  /\ UNCHANGED world

Spec == Init /\ [][Next]_vars

\* The poll loops come round: what is due is done and what arrives is handled.
\* What the network, the applications or the clock may do, they need not; a
\* deadline that is running does pass.
Steps ==
  /\ \A c \in Clients : WF_moving(connect_rendezvous(c)) /\ WF_moving(RendezvousConnected(c))
  /\ \A p \in Pairs : /\ WF_moving(Deadline(p[1], p[2]))
                      /\ WF_moving(Bind(p[1], p[2]))
                      /\ \A r \in Routes : /\ WF_moving(Accepted(p[1], p[2], r))
                                           /\ WF_moving(Completed(p[1], p[2], r))
                                           /\ WF_moving(HandshakeFailed(p[1], p[2], r))
                      /\ SF_moving(Checked(p[1], p[2]) /\ p \in bound')
  /\ WF_moving(\E m \in BagToSet(net) : OnControl(m.session[1], m) \/ Handle(m) \/ Lose(m))

FairSpec == Spec /\ Steps

----------------------------------------------------------------------------
(* Properties.                                                             *)

\* The asks of both clients and the server's registers and tables keep their
\* shape.
TypeOK ==
  /\ \A c \in Clients :
       rv[c] \in [rendezvous : 0..world.opens[c], registered : BOOLEAN,
                 shaking : BOOLEAN, opened : 0..world.opens[c]]
  /\ up \subseteq Sessions /\ served \subseteq Sessions /\ clients \subseteq Sessions
  /\ DOMAIN ask \subseteq Pairs
  /\ \A p \in DOMAIN ask :
       ask[p] \in [stage : {"Asked", "Introduced", "Relaying"}, outbound : BOOLEAN,
                   relay_asked : BOOLEAN, checked : BOOLEAN, legacy : BOOLEAN,
                   binds : 0..BINDS + 1]
  /\ DOMAIN outbound \subseteq Clients \X Clients \X Routes
  /\ sessions \subseteq Clients \X Clients \X Routes
  /\ DOMAIN byKey \subseteq Clients
  /\ \A k \in DOMAIN byKey : byKey[k] \in Sessions
  /\ asked \subseteq Pairs /\ introduced \subseteq Pairs /\ relays \subseteq Pairs
  /\ bound \subseteq Pairs /\ relayed \subseteq Pairs
  /\ wanted \subseteq Pairs

\* Rendezvous.clients and Rendezvous.by_key describe the same registrations,
\* whatever the order in which a client's new session registers and its old
\* one is lost: a key is filed for the session registered under it, and a
\* registered session is the one its key is filed for.
RegistersAgree ==
  /\ \A k \in DOMAIN byKey : byKey[k] \in clients /\ byKey[k][1] = k
  /\ \A s \in clients : s[1] \in DOMAIN byKey /\ byKey[s[1]] = s

\* Both must have asked (SPEC A.3): a client acts on an introduction, punching
\* and connecting, only if the application of the other side asked for it too,
\* whatever requests were repeated, expired, or answered late.
TakesBothToAgree ==
  \A p \in DOMAIN ask : ask[p].stage # "Asked" => {p, <<p[2], p[1]>>} \subseteq wanted

\* An ask and its verdict are one: the step that ends an introduction raises
\* Connected or IntroductionFailed for its key, one of them and once, and no
\* IntroductionFailed is raised for what was not being asked.
OneVerdict ==
  [][/\ \A p \in DOMAIN ask \ DOMAIN ask' :
          Cardinality({e \in told' : e.at = p[1] /\ e.key = p[2]
                                     /\ e.event # "ConnectFailed"}) = 1
     /\ \A e \in told' : e.event = "IntroductionFailed" =>
          <<e.at, e.key>> \in DOMAIN ask \ DOMAIN ask']_vars

\* With nothing lost and no handshake given up on before the other side has
\* heard of the relay, two applications that each ask once both get their
\* session, in whatever order registrations, requests and introductions arrive:
\* directly where the NATs let a handshake through, through the relay where they
\* do not, unless an offer overtook the introduction it follows.
BothConnect ==
  Faults = {} => \A p \in Pairs :
    {p, <<p[2], p[1]>>} \subseteq wanted ~>
      overtaken \/ <<p[1], p[2], IF world.direct THEN "direct" ELSE "relay">> \in sessions
=============================================================================

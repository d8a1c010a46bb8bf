----------------------------- MODULE Handshakes ------------------------------
(***************************************************************************)
(* Opening a session: clients and one responder over a network that loses, *)
(* duplicates, delays and reorders.  The framed handshakes are those of    *)
(* crates/fectp-core/src/session.rs, over the key schedules of Noise; the  *)
(* responder is Endpoint of crates/fectp/src/endpoint.rs with its          *)
(* TicketStore of pipeline.rs; a client is a Connection of lib.rs, which   *)
(* has a socket of its own per connect, or an Endpoint, which keeps one.   *)
(* A session that is dropped by the responder, for whatever reason, is one *)
(* action.  When a client resends and gives up is left open; the timing of *)
(* an endpoint's is that of module Wake.                                   *)
(***************************************************************************)
EXTENDS Noise, Integers, Functions, SequencesExt, FiniteSets

CONSTANTS
    Clients,
    Endpoints,      \* those that connect from an Endpoint
    Server,         \* the responder
    Sids,           \* session identifiers a client may draw
    MaxTickets,     \* MAX_TICKETS (256)
    Replies,        \* HANDSHAKE_REPLIES (8)
    Worlds          \* what a behaviour may be confined to: records
                    \*   clients: those that connect
                    \*   secret: of pre-shared-key mode; None in public-key mode
                    \*   faults: what may go wrong: "drop", "age", "restart", "move",
                    \*      "duplicate", "device", "giveup", "early"
                    \*   fresh, sockets, lost: bounds on ephemeral keys drawn, on
                    \*      addresses a client uses and on datagrams lost

ASSUME HandshakesAssumption ==
    /\ MaxTickets \in Nat \ {0} /\ Replies \in Nat /\ Endpoints \subseteq Clients
    /\ IsFiniteSet(Clients) /\ \A w \in Worlds : w.clients \subseteq Clients

VARIABLES
    world,      \* which of Worlds this is; it does not change
    fresh,      \* ephemeral keys drawn so far
    socket,     \* the address each client sends from
    attempt,    \* the handshake each client has under way, or None
    session,    \* the session each client holds, or None
    held,       \* the ticket each client's application has stored, or None
    tickets,    \* TicketStore: [byId, order]
    peers,      \* the responder's sessions by address and identifier
    net,        \* datagrams under way
    log,        \* history: sessions the responder ever established
    lost        \* history: datagrams lost

moving == <<fresh, socket, attempt, session, held, tickets, peers, net, log, lost>>
vars == <<world, moving>>
client == <<socket, attempt, session, held>>

Static(x) == <<"static", x>>
Anonymous == Static("anonymous")
Ephemeral(n) == <<"ephemeral", n>>
Here(c) == <<c, socket[c]>>
Id(key) == <<"id", key>>                \* ResumptionTicket::from_key
Psk == <<"preshared", world.secret>>          \* preshared_key
PskMode == world.secret # None

-----------------------------------------------------------------------------
\* TicketStore.

\* insert, and prune: the expired go first, then the oldest past the bound.
Insert(t, key, peer) ==
    LET all == Id(key) :> [key |-> key, peer |-> peer, old |-> FALSE] @@ t.byId
        kept == SelectSeq(Append(t.order, Id(key)), LAMBDA id : ~all[id].old)
        spare == IF Len(kept) > MaxTickets THEN Len(kept) - MaxTickets ELSE 0
        queue == SubSeq(kept, spare + 1, Len(kept))
    IN [order |-> queue, byId |-> Restrict(all, ToSet(queue))]

\* Mutant: the ticket stays.
TakeKeeping(t, id) == [found |-> id \in DOMAIN t.byId /\ ~t.byId[id].old, after |-> t]

\* take: removed either way, given only if not expired.
Take(t, id) ==
    [found |-> id \in DOMAIN t.byId /\ ~t.byId[id].old,
     after |-> [byId |-> Restrict(t.byId, DOMAIN t.byId \ {id}),
                order |-> SelectSeq(t.order, LAMBDA other : other # id)]]

-----------------------------------------------------------------------------
\* The framed handshakes.  The header of the first frame is the prologue; the
\* body is the capabilities and the application's data.

Header(type, sid) == <<type, sid>>
Body(x, data) == [caps |-> x, data |-> data]

\* Session::new, of either side.
Established(hs, initiator, sid, remote, caps) ==
    [sid |-> sid, keys |-> Transport(hs.sym, initiator), ticket |-> ResumptionKey(hs.sym),
     remote |-> remote, caps |-> caps]

\* Initiator.
NewFull(c, sid) == IkInit("initiator", Static(c), Static(Server), Header("HandshakeInit", sid))
OpenFull(c, sid, e) ==
    LET w == IkWrite1(NewFull(c, sid), e, Body(c, e), TRUE)
    IN [kind |-> "full", sid |-> sid, hs |-> w.hs, remote |-> Static(Server),
        frame |-> [type |-> "HandshakeInit", sid |-> sid, msg |-> w.msg]]
ReadFull(a, frame, works) ==
    LET r == IkRead2(a.hs, frame.msg, works)
    IN [ok |-> frame.type = "HandshakeResponse" /\ frame.sid = a.sid /\ r.ok,
        session |-> Established(r.hs, TRUE, a.sid, a.remote, frame.msg.payload.body.caps)]

\* Responder.
TakeFull(frame, works) ==
    IkRead1(IkInit("responder", Static(Server), None, Header(frame.type, frame.sid)), frame.msg, works)
AnswerFull(frame, e, works) ==
    LET r == TakeFull(frame, works)
        w == IkWrite2(r.hs, e, Body(Server, e))
    IN [ok |-> r.ok /\ w.ok,
        session |-> Established(w.hs, FALSE, frame.sid, r.hs.rs, frame.msg.payload.body.caps),
        frame |-> [type |-> "HandshakeResponse", sid |-> frame.sid, msg |-> w.msg]]

\* ResumeInitiator.
NewResume(key, sid) == PskInit("initiator", key, <<Header("ResumeInit", sid), Id(key)>>)
OpenResume(kind, c, key, remote, sid, e) ==
    LET w == PskWrite1(NewResume(key, sid), e, Body(c, e))
    IN [kind |-> kind, sid |-> sid, hs |-> w.hs, remote |-> remote,
        frame |-> [type |-> "ResumeInit", sid |-> sid, id |-> Id(key), msg |-> w.msg]]
ReadResume(a, frame) ==
    LET r == PskRead2(a.hs, frame.msg)
    IN [ok |-> frame.type = "ResumeResponse" /\ frame.sid = a.sid /\ r.ok,
        session |-> Established(r.hs, TRUE, a.sid, a.remote, frame.msg.payload.body.caps)]

\* ResumeResponder.
TicketId(frame) == frame.id
TakeResume(frame, key) ==
    PskRead1(PskInit("responder", key, <<Header(frame.type, frame.sid), TicketId(frame)>>), frame.msg)
AnswerResume(frame, key, remote, e) ==
    LET r == TakeResume(frame, key)
        w == PskWrite2(r.hs, e, Body(Server, e))
    IN [ok |-> r.ok /\ w.ok,
        session |-> Established(w.hs, FALSE, frame.sid, remote, frame.msg.payload.body.caps),
        frame |-> [type |-> "ResumeResponse", sid |-> frame.sid, msg |-> w.msg]]

-----------------------------------------------------------------------------
Init ==
    /\ world \in Worlds
    /\ fresh = 0 /\ socket = [c \in Clients |-> 1]
    /\ attempt = [c \in Clients |-> None] /\ session = [c \in Clients |-> None]
    /\ held = [c \in Clients |-> None]
    /\ tickets = [byId |-> <<>>, order |-> <<>>] /\ peers = <<>> /\ net = {} /\ log = {} /\ lost = 0

\* The client.  Whatever session it had before, it has let go.
Open(c, a) ==
    LET from == IF c \in Endpoints THEN socket[c] ELSE socket[c] + 1 IN
    /\ attempt[c] = None /\ fresh < world.fresh /\ from <= world.sockets
    /\ fresh' = fresh + 1
    /\ socket' = [socket EXCEPT ![c] = from]
    /\ attempt' = [attempt EXCEPT ![c] = a]
    /\ session' = [session EXCEPT ![c] = None]
    /\ net' = net \cup {[from |-> <<c, from>>, to |-> Server, frame |-> a.frame]}
    /\ UNCHANGED <<held, tickets, peers, log, lost>>

\* Connection::connect, Endpoint::connect in public-key mode.
Connect(c) ==
    ~PskMode /\ \E sid \in Sids : Open(c, OpenFull(c, sid, Ephemeral(fresh)))

\* Connection::connect_psk, Endpoint::connect in pre-shared-key mode.
ConnectPsk(c) ==
    PskMode /\ \E sid \in Sids : Open(c, OpenResume("psk", c, Psk, Anonymous, sid, Ephemeral(fresh)))

\* Connection::resume.  The application passes the identity it expects.
Resume(c) ==
    /\ c \notin Endpoints /\ held[c] # None
    /\ \E sid \in Sids :
        Open(c, OpenResume("resume", c, held[c], IF PskMode THEN Anonymous ELSE Static(Server),
                            sid, Ephemeral(fresh)))

\* exchange_handshake and drive_handshakes: the same frame again, once the round
\* trip is over or, "early", before.
Resend(c) ==
    LET d == [from |-> Here(c), to |-> Server, frame |-> attempt[c].frame] IN
    /\ attempt[c] # None /\ d \notin net
    /\ "early" \in world.faults \/ ~\E r \in net : r.to = Here(c) /\ r.frame.sid = attempt[c].sid
    /\ net' = net \cup {d}
    /\ UNCHANGED <<fresh, client, tickets, peers, log, lost>>

GiveUp(c) ==
    /\ "giveup" \in world.faults /\ attempt[c] # None
    /\ attempt' = [attempt EXCEPT ![c] = None]
    /\ UNCHANGED <<fresh, socket, session, held, tickets, peers, net, log, lost>>

\* complete_outbound, and the end of a blocking connect: the attempt is over
\* whatever the reply says.  The application stores the
\* session's ticket.
Complete(c, d, works) ==
    LET a == attempt[c]
        r == IF a.kind = "full" THEN ReadFull(a, d.frame, works) ELSE ReadResume(a, d.frame)
    IN
    /\ attempt[c] # None /\ d.to = Here(c) /\ d.frame.sid = attempt[c].sid
    /\ attempt' = [attempt EXCEPT ![c] = None]
    /\ session' = IF r.ok THEN [session EXCEPT ![c] = r.session] ELSE session
    /\ held' = IF r.ok THEN [held EXCEPT ![c] = r.session.ticket] ELSE held
    /\ net' = net \ {d}
    /\ UNCHANGED <<fresh, socket, tickets, peers, log, lost>>

\* A data frame of the client's session.
Speak(c) ==
    /\ session[c] # None
    /\ net' = net \cup {[from |-> Here(c), to |-> Server,
                         frame |-> [type |-> "Data", sid |-> session[c].sid, key |-> session[c].keys.send]]}
    /\ UNCHANGED <<fresh, client, tickets, peers, log, lost>>

\* The address translator gives the client another address.
Move(c) ==
    /\ "move" \in world.faults /\ socket[c] < world.sockets
    /\ socket' = [socket EXCEPT ![c] = @ + 1]
    /\ UNCHANGED <<fresh, attempt, session, held, tickets, peers, net, log, lost>>

-----------------------------------------------------------------------------
\* The responder.

Opening == {"HandshakeInit", "ResumeInit"}
Route(d) == <<d.from, d.frame.sid>>
Rest(d) == {net \ {d}} \cup (IF "duplicate" \in world.faults THEN {net} ELSE {})
Back(d, frame) == [from |-> Server, to |-> d.from, frame |-> frame]

\* dispatch: which opening frames a mode has an arm for.
Understood(frame) ==
    \/ frame.type = "HandshakeInit" /\ ~PskMode
    \/ frame.type = "ResumeInit"

\* repeat_handshake: a session is filed for this address and identifier.
IsRepeat(d) == Route(d) \in DOMAIN peers

\* Mutant: one repeat fewer.
RepeatFewer(d) ==
    LET p == peers[Route(d)] IN
    /\ d.frame.type \in Opening /\ IsRepeat(d)
    /\ \E rest \in Rest(d) :
        net' = IF p.left > 0 THEN rest \cup {Back(d, p.reply)} ELSE rest
    /\ peers' = IF p.left > 0 THEN [peers EXCEPT ![Route(d)].left = @ - 1] ELSE peers
    /\ UNCHANGED <<fresh, client, tickets, log, lost>>

\* repeat_handshake: the same reply again, as long as it is held.
Repeat(d) ==
    LET p == peers[Route(d)] IN
    /\ d.frame.type \in Opening /\ IsRepeat(d)
    /\ \E rest \in Rest(d) :
        net' = IF p.left >= 0 THEN rest \cup {Back(d, p.reply)} ELSE rest
    /\ peers' = IF p.left >= 0 THEN [peers EXCEPT ![Route(d)].left = @ - 1] ELSE peers
    /\ UNCHANGED <<fresh, client, tickets, log, lost>>

\* register, file and remember_reply; before is the store the ticket left.
Register(d, answer, redeemed, before, rest) ==
    LET s == answer.session
        filed == [session |-> s, reply |-> answer.frame, left |-> Replies]
    IN
    /\ fresh' = fresh + 1
    /\ tickets' = Insert(before, s.ticket, s.remote)
    /\ peers' = Route(d) :> filed @@ peers
    /\ net' = rest \cup {Back(d, answer.frame)}
    /\ log' = log \cup {[session |-> s, frame |-> d.frame, redeemed |-> redeemed]}

\* A frame that is not answered.
Ignore(before, rest) ==
    tickets' = before /\ net' = rest /\ UNCHANGED <<fresh, peers, log>>

\* dispatch and accept_full.
AcceptFull(d, works) ==
    LET answer == AnswerFull(d.frame, Ephemeral(fresh), works) IN
    /\ d.frame.type = "HandshakeInit" /\ Understood(d.frame) /\ ~IsRepeat(d) /\ fresh < world.fresh
    /\ \E rest \in Rest(d) :
        IF answer.ok THEN Register(d, answer, None, tickets, rest) ELSE Ignore(tickets, rest)
    /\ UNCHANGED <<client, lost>>

\* dispatch and accept_resumed, with the configured key, which stays.
AcceptPsk(d) ==
    LET answer == AnswerResume(d.frame, Psk, Anonymous, Ephemeral(fresh)) IN
    /\ d.frame.type = "ResumeInit" /\ Understood(d.frame) /\ ~IsRepeat(d) /\ fresh < world.fresh
    /\ PskMode /\ TicketId(d.frame) = Id(Psk)
    /\ \E rest \in Rest(d) :
        IF answer.ok THEN Register(d, answer, None, tickets, rest) ELSE Ignore(tickets, rest)
    /\ UNCHANGED <<client, lost>>

\* dispatch and accept_resumed, with a ticket, which is spent.
AcceptTicket(d) ==
    LET id == TicketId(d.frame)
        taken == Take(tickets, id)
        ticket == tickets.byId[id]
        answer == AnswerResume(d.frame, ticket.key, ticket.peer, Ephemeral(fresh))
    IN
    /\ d.frame.type = "ResumeInit" /\ Understood(d.frame) /\ ~IsRepeat(d) /\ fresh < world.fresh
    /\ ~(PskMode /\ id = Id(Psk))
    /\ \E rest \in Rest(d) :
        IF taken.found /\ answer.ok THEN Register(d, answer, ticket.key, taken.after, rest)
        ELSE Ignore(taken.after, rest)
    /\ UNCHANGED <<client, lost>>

\* deliver, of a frame that opens: the peer has its reply.
Hear(d) ==
    LET r == Route(d)
        opens == r \in DOMAIN peers /\ peers[r].session.keys.recv = d.frame.key
    IN
    /\ d.frame.type = "Data"
    /\ net' = net \ {d}
    /\ peers' = IF opens THEN [peers EXCEPT ![r].left = -1] ELSE peers
    /\ UNCHANGED <<fresh, client, tickets, log, lost>>

\* disconnect, a peer timeout, or room made for another.
Drop(r) ==
    /\ "drop" \in world.faults
    /\ peers' = Restrict(peers, DOMAIN peers \ {r})
    /\ UNCHANGED <<fresh, client, tickets, net, log, lost>>

\* Every ticket out there has passed its lifetime.
Age ==
    /\ "age" \in world.faults
    /\ tickets' = [tickets EXCEPT !.byId = [id \in DOMAIN @ |-> [@[id] EXCEPT !.old = TRUE]]]
    /\ UNCHANGED <<fresh, client, peers, net, log, lost>>

\* The responder starts again, with the key it had.
Restart ==
    /\ "restart" \in world.faults
    /\ peers' = <<>> /\ tickets' = [byId |-> <<>>, order |-> <<>>]
    /\ UNCHANGED <<fresh, client, net, log, lost>>

Lose(d) ==
    /\ lost < world.lost /\ lost' = lost + 1
    /\ net' = net \ {d}
    /\ UNCHANGED <<fresh, client, tickets, peers, log>>

-----------------------------------------------------------------------------
ToServer == {d \in net : d.to = Server}
Works == {TRUE} \cup (IF "device" \in world.faults THEN {FALSE} ELSE {})

Next ==
    /\ \/ \E c \in world.clients :
           \/ Connect(c) \/ ConnectPsk(c) \/ Resume(c) \/ Resend(c) \/ GiveUp(c)
           \/ Speak(c) \/ Move(c)
           \/ \E d \in net \ ToServer, works \in Works : Complete(c, d, works)
       \/ \E d \in ToServer :
           \/ Repeat(d) \/ AcceptPsk(d) \/ AcceptTicket(d) \/ Hear(d)
           \/ \E works \in Works : AcceptFull(d, works)
       \/ \E d \in net : Lose(d)
       \/ \E r \in DOMAIN peers : Drop(r)
       \/ Age
       \/ Restart
    /\ UNCHANGED world

Spec == Init /\ [][Next]_vars

\* What is fair: a client sends its opening frame again until it is answered, and
\* a datagram that is not lost is taken.  The steps' guards are written out.
Mine(c, d) == attempt[c] # None /\ d.from = Here(c) /\ d.frame = attempt[c].frame
ForMe(c, d) == attempt[c] # None /\ d.to = Here(c) /\ d.frame.sid = attempt[c].sid
CanAnswer(c) == \E d \in ToServer : Mine(c, d) /\ (IsRepeat(d) \/ fresh < world.fresh)
CanComplete(c) == \E d \in net : ForMe(c, d)
Taken(d) == d \notin net' /\ lost' = lost

Fairness ==
    \A c \in Clients :
        /\ WF_moving(Resend(c))
        /\ <>[]CanAnswer(c) => []<><<\E d \in ToServer : Mine(c, d) /\ Taken(d)>>_moving
        /\ <>[]CanComplete(c) => []<><<\E d \in net : ForMe(c, d) /\ Taken(d)>>_moving

FairSpec == Spec /\ Fairness

-----------------------------------------------------------------------------
\* The replies repeat_handshake may still send, each client's socket and the
\* bounded counters keep their ranges.
TypeOK ==
    /\ fresh \in 0 .. world.fresh /\ lost \in 0 .. world.lost
    /\ \A r \in DOMAIN peers : peers[r].left \in -1 .. Replies
    /\ \A c \in Clients : socket[c] \in 1 .. world.sockets

\* Whoever the responder established the session of a client with: one session,
\* whose keys mirror the client's, with the same next ticket, each side told of
\* the other's capabilities, and the client named by its own key, in a resumed
\* session by way of the ticket.
Agreement ==
    \A c \in Clients : session[c] # None =>
        LET s == session[c]
            mirror == {l \in log : l.session.keys.recv = s.keys.send}
        IN /\ Cardinality(mirror) = 1
           /\ \A l \in mirror :
                /\ l.session.keys.send = s.keys.recv /\ l.session.ticket = s.ticket
                /\ l.session.sid = s.sid
                /\ l.session.caps = c /\ s.caps = Server
                /\ IF PskMode THEN l.session.remote = Anonymous /\ s.remote = Anonymous
                   ELSE l.session.remote = Static(c) /\ s.remote = Static(Server)

\* A ticket is redeemed once, so what a resuming client sends with its first
\* frame is delivered once, whatever is duplicated or sent again, from wherever.
RedeemedOnce ==
    \A l, m \in log : l.redeemed # None /\ l.redeemed = m.redeemed => l = m

\* So does one that resumes, with a ticket the responder still has, if the client
\* stays where it is: the ticket is spent with the first frame to arrive, and the
\* replies to the others are the same.
Resumed ==
    world.faults = {} => \A c \in Clients :
        attempt[c] # None /\ attempt[c].kind = "resume" ~> session[c] # None \/ fresh = world.fresh
=============================================================================

------------------------ MODULE IntroductionsProofs ------------------------
(***************************************************************************)
(* Introductions, for any number of clients and sessions and whatever goes *)
(* wrong: what the clients and the rendezvous hold keeps its shape, the    *)
(* rendezvous's two registers agree, a client acts on an introduction only *)
(* if both applications asked for it, and an ask ends with one verdict.    *)
(*                                                                         *)
(* The consent of both sides is in the clients' tables, in the requests on *)
(* their way to the server, in its table of requests and in introductions  *)
(* on their way back, one after another: the inductive invariant says of   *)
(* each of them whose applications asked (Asks, Held, Sound).  Who an      *)
(* introduction reaches is decided by the registers, so it rests on their  *)
(* agreement too.                                                          *)
(***************************************************************************)
EXTENDS Introductions, FiniteSetTheorems, TLAPS

-----------------------------------------------------------------------------
(* Bags, of which only what is in them matters here.                       *)

\* What is in the union of two bags.
LEMMA InUnion ==
  ASSUME NEW A, NEW B
  PROVE  BagToSet(A (+) B) = BagToSet(A) \cup BagToSet(B)
BY DEF BagToSet, (+)

\* Taking out of a bag puts nothing into it.
LEMMA InDifference ==
  ASSUME NEW A, NEW B
  PROVE  BagToSet(A (-) B) \subseteq BagToSet(A)
BY DEF BagToSet, (-)

\* A set made a bag, and the empty bag.
LEMMA InSet ==
  /\ \A S : BagToSet(SetToBag(S)) = S
  /\ BagToSet(EmptyBag) = {}
BY DEF BagToSet, SetToBag, EmptyBag

-----------------------------------------------------------------------------
(* The inductive invariant.                                                *)

AskState == [stage : {"Asked", "Introduced", "Relaying"}, outbound : BOOLEAN,
             relay_asked : BOOLEAN, checked : BOOLEAN, legacy : BOOLEAN,
             binds : 0..BINDS + 1]

\* The clients' sessions with the rendezvous, at both ends.
Own ==
  /\ world \in Worlds
  /\ rv \in [Clients -> [rendezvous : Nat, registered : BOOLEAN,
                         shaking : BOOLEAN, opened : Nat]]
  /\ \A c \in Clients : /\ rv[c].rendezvous <= world.opens[c]
                        /\ rv[c].opened <= world.opens[c]
                        /\ rv[c].shaking => rv[c].rendezvous # 0
  /\ up \subseteq Sessions /\ served \subseteq Sessions

\* The clients' asks: each was wanted, and past its first stage by both.
Asks ==
  /\ ask \in [DOMAIN ask -> AskState]
  /\ DOMAIN ask \subseteq wanted /\ wanted \subseteq Pairs
  /\ \A p \in DOMAIN ask : ask[p].stage # "Asked" => <<p[2], p[1]>> \in wanted

\* What the clients have with each other.
Links ==
  /\ outbound \in [DOMAIN outbound -> BOOLEAN]
  /\ DOMAIN outbound \subseteq Clients \X Clients \X Routes
  /\ sessions \subseteq Clients \X Clients \X Routes
  /\ relayed \subseteq Pairs

\* The server's two registers.
Registers ==
  /\ byKey \in [DOMAIN byKey -> Sessions] /\ DOMAIN byKey \subseteq Clients
  /\ clients \subseteq Sessions
  /\ RegistersAgree

\* What the server holds for pairs of clients: a request, only if wanted.
Held ==
  /\ asked \subseteq wanted
  /\ introduced \subseteq Pairs /\ relays \subseteq Pairs /\ bound \subseteq Pairs

\* A message on its way: a request says what its sender's application wants, an
\* introduction what both do.
Sound(m) ==
  LET p == <<m.session[1], m.key>> IN
  /\ m.session \in Sessions
  /\ m.to = "server" => m.kind \in {"Register", "Introduce", "Relay"}
  /\ m.kind \notin {"Register", "Observed"} => p \in Pairs
  /\ m.kind = "Introduce" => p \in wanted
  /\ m.kind = "Introduction" => {p, <<p[2], p[1]>>} \subseteq wanted

Sent == \A m \in BagToSet(net) : Sound(m)

IInv == Own /\ Asks /\ Links /\ Registers /\ Held /\ Sent

-----------------------------------------------------------------------------
(* What the steps have in common.                                          *)

\* The world's sessions are its own.
LEMMA SessionNames ==
  /\ \A s \in Sessions : s[1] \in Clients /\ s = <<s[1], s[2]>>
  /\ \A c \in Clients : \A n \in 1..world.opens[c] : <<c, n>> \in Sessions
BY DEF Sessions

\* The sessions there can be depend on the world alone.
LEMMA SameSessions == UNCHANGED world => Sessions' = Sessions
BY DEF Sessions

\* What is sent is sound, and what was sent stays so.
LEMMA SentAfter ==
  ASSUME Sent, UNCHANGED world, wanted \subseteq wanted',
         \A m \in BagToSet(net') : m \in BagToSet(net) \/ Sound(m)'
  PROVE  Sent'
BY SameSessions, Zenon DEF Sent, Sound

\* A client's message to the rendezvous goes by its session with it.
LEMMA Tells ==
  ASSUME Own, NEW c \in Clients, NEW what
  PROVE  \A m \in BagToSet(tell_rendezvous(c, what)) :
           /\ m.session \in Sessions /\ m.session[1] = c
           /\ m.to = "server"
           /\ \E w \in what : m.kind = w[1] /\ m.key = w[2]
BY InSet, SessionNames DEF tell_rendezvous, Up, Own, RvOf

\* The server's messages go to sessions, those for a key to that key's.
LEMMA SendsTo ==
  ASSUME Registers, Own, NEW what
  PROVE  \A m \in BagToSet(SendTo(what)) :
           /\ m.session \in Sessions /\ m.to = "client"
           /\ \E w \in what : m.session[1] = w[1] /\ m.kind = w[2] /\ m.key = w[3]
BY InSet DEF SendTo, Send, Down, Registers, RegistersAgree, Own

\* What the rendezvous sends, it sends to sessions it serves.
LEMMA Sends ==
  ASSUME NEW ms
  PROVE  \A m \in BagToSet(Send(ms)) : m \in ms /\ m.session \in served
BY InSet DEF Send

\* An ask that is given up leaves the others as they were.
LEMMA AsksShrink ==
  ASSUME Asks, NEW S, ask' = Restrict(ask, DOMAIN ask \ S), UNCHANGED wanted
  PROVE  Asks'
<1>1. /\ DOMAIN ask' = DOMAIN ask \ S
      /\ \A p \in DOMAIN ask' : ask'[p] = ask[p]
  BY DEF Restrict
<1>2. ask' \in [DOMAIN ask' -> AskState]
  <2>1. ask' = [p \in DOMAIN ask \ S |-> ask[p]]
    BY DEF Restrict
  <2> QED  BY <2>1 DEF Asks
<1> QED  BY <1>1, <1>2, Zenon DEF Asks

\* fail_introduction takes asks away, and changes no other.
LEMMA FailedAsks ==
  ASSUME Asks, NEW c, NEW keys, NEW why, fail_introduction(c, keys, why),
         UNCHANGED wanted
  PROVE  Asks'
BY AsksShrink, Zenon DEF fail_introduction

\* An ask that changes keeps its place, and is past its first stage only if both
\* sides wanted it.
LEMMA AskChanges ==
  ASSUME Asks, NEW p \in DOMAIN ask, NEW a \in AskState,
         ask' = [ask EXCEPT ![p] = a], UNCHANGED wanted,
         a.stage # "Asked" => <<p[2], p[1]>> \in wanted
  PROVE  Asks'
<1>1. /\ DOMAIN ask' = DOMAIN ask
      /\ ask'[p] = a /\ \A q \in DOMAIN ask : q # p => ask'[q] = ask[q]
  OBVIOUS
<1>2. ask' \in [DOMAIN ask' -> AskState]
  BY DEF Asks
<1> QED  BY <1>1, <1>2 DEF Asks

\* A client takes or leaves a session between clients (ConnectedTo).
LEMMA Connects ==
  ASSUME Asks, Links, NEW c \in Clients, NEW k \in Clients, NEW r \in Routes,
         ConnectedTo(c, k, r), UNCHANGED wanted,
         outbound' \in [DOMAIN outbound' -> BOOLEAN],
         DOMAIN outbound' \subseteq DOMAIN outbound
  PROVE  Asks' /\ Links'
<1>1. Asks'
  BY AsksShrink, Zenon DEF ConnectedTo
<1>2. relayed' \subseteq Pairs
  BY Zenon DEF ConnectedTo, Links, Asks
<1>3. sessions' \subseteq Clients \X Clients \X Routes
  BY DEF ConnectedTo, Links
<1> QED  BY <1>1, <1>2, <1>3, Zenon DEF Links, Pairs, Routes

\* What a step leaves alone stays right.
LEMMA Untouched ==
  ASSUME UNCHANGED world
  PROVE  /\ Own /\ UNCHANGED <<rv, up, served>> => Own'
         /\ Asks /\ UNCHANGED <<ask, wanted>> => Asks'
         /\ Links /\ UNCHANGED <<outbound, sessions, relayed>> => Links'
         /\ Registers /\ UNCHANGED <<clients, byKey>> => Registers'
         /\ Held /\ UNCHANGED <<asked, introduced, relays, bound, wanted>> => Held'
         /\ Sent /\ UNCHANGED <<net, wanted>> => Sent'
<1>1. Own /\ UNCHANGED <<rv, up, served>> => Own'
  BY SameSessions DEF Own
<1>2. Asks /\ UNCHANGED <<ask, wanted>> => Asks'
  BY DEF Asks, Pairs
<1>3. Links /\ UNCHANGED <<outbound, sessions, relayed>> => Links'
  BY DEF Links, Pairs, Routes
<1>4. Registers /\ UNCHANGED <<clients, byKey>> => Registers'
  BY SameSessions DEF Registers, RegistersAgree
<1>5. Held /\ UNCHANGED <<asked, introduced, relays, bound, wanted>> => Held'
  BY DEF Held, Pairs
<1>6. Sent /\ UNCHANGED <<net, wanted>> => Sent'
  BY SameSessions, Zenon DEF Sent, Sound, Pairs
<1> QED  BY <1>1, <1>2, <1>3, <1>4, <1>5, <1>6

-----------------------------------------------------------------------------
(* The clients' steps.                                                     *)

\* The calls and the session with the rendezvous.
LEMMA RendezvousSteps ==
  ASSUME IInv, UNCHANGED world, NEW c \in Clients,
         \/ connect_rendezvous(c)
         \/ RendezvousConnected(c)
         \/ RendezvousLost(c)
         \/ Disconnect(c)
  PROVE  IInv'
<1> USE Untouched DEF IInv
<1>o. world.opens \in [Clients -> Nat]
  BY InstanceAssumption DEF Own
<1>1. CASE connect_rendezvous(c)
  <2>1. Own'
    <3>1. UNCHANGED <<up, served>>
      BY <1>1, Zenon DEF connect_rendezvous, serverVars
    <3>2. \A d \in Clients : rv'[d] =
            IF d = c THEN [rendezvous |-> rv[c].opened + 1, registered |-> FALSE,
                           shaking |-> TRUE, opened |-> rv[c].opened + 1]
            ELSE rv[d]
      BY <1>1 DEF connect_rendezvous, Own
    <3>3. rv[c].opened + 1 \in Nat /\ rv[c].opened + 1 <= world.opens[c]
      BY <1>1, <1>o DEF connect_rendezvous, Own
    <3> QED  BY <1>1, <3>1, <3>2, <3>3, SameSessions, SMTT(30) DEF connect_rendezvous, Own
  <2> QED  BY <1>1, <2>1, Zenon DEF connect_rendezvous, serverVars
<1>2. CASE RendezvousConnected(c)
  <2>1. RvOf(c) \in Sessions
    BY <1>2, <1>o, SessionNames DEF RendezvousConnected, RvOf, Own
  <2>2. Own'
    BY <1>2, <1>o, <2>1, SameSessions, Zenon DEF RendezvousConnected, Own
  <2>3. Sent'
    <3> DEFINE m == Up(RvOf(c), "Register", c)
    <3>1. BagToSet(net') \subseteq BagToSet(net) \cup {m}
      BY <1>2, InUnion, InSet, SMTT(30) DEF RendezvousConnected
    <3>2. \A n \in {m} : Sound(n)'
      BY <1>2, <2>1, SameSessions, SMTT(30) DEF Sound, Up
    <3> QED  BY <1>2, <3>1, <3>2, SentAfter, ZenonT(30) DEF RendezvousConnected
  <2> QED  BY <1>2, <2>2, <2>3, Zenon DEF RendezvousConnected
<1>3. CASE RendezvousLost(c)
  <2>1. Own'
    <3>1. \A d \in Clients : rv'[d] =
            IF d = c THEN [rv[c] EXCEPT !.rendezvous = 0, !.registered = FALSE,
                                        !.shaking = FALSE]
            ELSE rv[d]
      BY <1>3 DEF RendezvousLost, lose_rendezvous, Own
    <3>2. rv' \in [Clients -> [rendezvous : Nat, registered : BOOLEAN,
                              shaking : BOOLEAN, opened : Nat]]
      BY <1>3, ZenonT(30) DEF RendezvousLost, lose_rendezvous, Own
    <3>3. UNCHANGED served /\ up' \subseteq up
      BY <1>3 DEF RendezvousLost, serverVars
    <3>4. \A d \in Clients : /\ rv'[d].rendezvous <= world.opens[d]
                             /\ rv'[d].opened <= world.opens[d]
                             /\ rv'[d].shaking => rv'[d].rendezvous # 0
      <4>1. rv[c] \in [rendezvous : Nat, registered : BOOLEAN,
                       shaking : BOOLEAN, opened : Nat]
        BY DEF Own
      <4>2. /\ rv'[c].rendezvous = 0 /\ rv'[c].opened = rv[c].opened
            /\ rv'[c].shaking = FALSE
        BY <3>1, <4>1, Zenon
      <4>3. world.opens[c] \in Nat
        BY <1>o
      <4> QED  BY <3>1, <4>2, <4>3, SMTT(30) DEF Own
    <3> QED  BY <3>2, <3>3, <3>4, SameSessions, Zenon DEF Own
  <2>2. Asks'
    BY <1>3, FailedAsks, Zenon DEF RendezvousLost, lose_rendezvous
  <2> QED  BY <1>3, <2>1, <2>2, Zenon DEF RendezvousLost, serverVars
<1>4. CASE Disconnect(c)
  <2>1. Own'
    BY <1>4, SameSessions, Zenon DEF Disconnect, Own, serverVars
  <2> QED  BY <1>4, <2>1, Zenon DEF Disconnect, serverVars
<1> QED  BY <1>1, <1>2, <1>3, <1>4, ZenonT(30)

\* introduce: the only step by which more is wanted.
LEMMA IntroduceStep ==
  ASSUME IInv, UNCHANGED world, NEW c \in Clients, NEW k \in Clients, c # k,
         introduce(c, k)
  PROVE  IInv'
<1> DEFINE p == <<c, k>>
<1>0. p \in Pairs /\ wanted' = wanted \cup {p} /\ wanted \subseteq wanted'
  BY DEF introduce, Pairs
<1>1. Asks'
  <2>1. CASE UNCHANGED ask
    BY <1>0, <2>1, Zenon DEF IInv, Asks, Pairs
  <2>2. CASE ask' = Insert(ask, p, Asked)
    <3>1. Asked \in AskState /\ Asked.stage = "Asked"
      BY InstanceAssumption DEF Asked, AskState
    <3>2. ask' \in [DOMAIN ask' -> AskState] /\ DOMAIN ask' = DOMAIN ask \cup {p}
      BY <2>2, <3>1, Zenon DEF IInv, Asks, Insert
    <3>3. \A q \in DOMAIN ask' : ask'[q].stage # "Asked" => q \in DOMAIN ask /\ ask'[q] = ask[q]
      BY <2>2, <3>1, <3>2, ZenonT(30) DEF Insert
    <3> QED  BY <1>0, <3>2, <3>3, Zenon DEF IInv, Asks, Pairs
  <2> QED  BY <2>1, <2>2, Zenon DEF introduce
<1>2. Held'
  BY <1>0 DEF introduce, serverVars, IInv, Held, Pairs
<1>3. Sent'
  <2>1. CASE UNCHANGED net
    BY <1>0, <2>1, SentAfter, ZenonT(30) DEF IInv
  <2>2. CASE net' = net (+) tell_rendezvous(c, {<<"Introduce", k>>})
    <3>1. \A m \in BagToSet(tell_rendezvous(c, {<<"Introduce", k>>})) : Sound(m)'
      BY <1>0, Tells, SameSessions, SMTT(30) DEF IInv, Sound, Pairs
    <3> QED  BY <1>0, <2>2, <3>1, InUnion, SentAfter, ZenonT(30) DEF IInv
  <2>3. CASE net' = net (+) EmptyBag
    BY <1>0, <2>3, InUnion, InSet, SentAfter, SMTT(30) DEF IInv
  <2> QED  BY <2>1, <2>2, <2>3, ZenonT(30) DEF introduce
<1> QED  BY <1>1, <1>2, <1>3, Untouched, Zenon DEF introduce, IInv, serverVars

\* What a client does about another.
LEMMA BetweenSteps ==
  ASSUME IInv, UNCHANGED world, NEW c \in Clients, NEW k \in Clients, c # k,
         Between(c, k)
  PROVE  IInv'
<1> DEFINE p == <<c, k>>
<1> USE Untouched DEF IInv
<1>0. p \in Pairs /\ <<k, c>> \in Pairs
  BY DEF Pairs
<1>1. CASE introduce(c, k)
  BY <1>1, IntroduceStep, Zenon
<1>2. CASE Deadline(c, k)
  <2>1. Asks'
    BY <1>2, FailedAsks, Zenon DEF Deadline
  <2> QED  BY <1>2, <2>1, Zenon DEF Deadline, serverVars
<1>3. CASE Bind(c, k)
  <2>1. Asks'
    <3>1. CASE fail_introduction(c, {k}, "Unreachable")
      BY <1>3, <3>1, FailedAsks, ZenonT(30) DEF Bind
    <3>2. ASSUME NEW a \in {[ask[p] EXCEPT !.legacy = TRUE, !.binds = 0],
                            [ask[p] EXCEPT !.binds = @ + 1]},
                 ask' = [ask EXCEPT ![p] = a]
          PROVE  Asks'
      <4>1. p \in DOMAIN ask /\ ask[p] \in AskState /\ ask[p].binds <= BINDS
        BY <1>3 DEF Bind, Asks
      <4>2. a \in AskState /\ a.stage = ask[p].stage
        <5>1. CASE a = [ask[p] EXCEPT !.legacy = TRUE, !.binds = 0]
          <6>1. 0 \in 0..BINDS + 1
            BY InstanceAssumption
          <6> QED  BY <4>1, <5>1, <6>1, Zenon DEF AskState
        <5>2. CASE a = [ask[p] EXCEPT !.binds = @ + 1]
          <6>1. ask[p].binds + 1 \in 0..BINDS + 1
            BY <4>1, InstanceAssumption, SMTT(30) DEF AskState
          <6> QED  BY <4>1, <5>2, <6>1, ZenonT(30) DEF AskState
        <5> QED  BY <3>2, <5>1, <5>2, ZenonT(30)
      <4>3. a.stage # "Asked" => <<p[2], p[1]>> \in wanted
        BY <4>1, <4>2, Zenon DEF Asks
      <4> QED  BY <1>3, <3>2, <4>1, <4>2, <4>3, AskChanges, Zenon DEF Bind
    <3> QED  BY <1>3, <3>1, <3>2, ZenonT(30) DEF Bind
  <2> QED  BY <1>3, <2>1 DEF Bind, serverVars
<1>4. CASE Checked(c, k)
  <2>1. Asks'
    <3>1. CASE fail_introduction(c, {k}, "Unreachable")
      BY <1>4, <3>1, FailedAsks, Zenon DEF Checked
    <3>2. CASE ask' = [ask EXCEPT ![p].checked = TRUE,
                  ![p].outbound = @ \/ (~ask[p].checked /\ starts(c, k))]
      <4> DEFINE a == [ask[p] EXCEPT !.checked = TRUE,
                         !.outbound = @ \/ (~ask[p].checked /\ starts(c, k))]
      <4>1. p \in DOMAIN ask /\ ask[p] \in AskState
        BY <1>4 DEF Checked, Asks
      <4>2. a \in AskState /\ a.stage = ask[p].stage
        BY <4>1, Zenon DEF AskState
      <4>3. ask' = [ask EXCEPT ![p] = a]
        BY <3>2, <4>1, Zenon DEF AskState
      <4>4. a.stage # "Asked" => <<p[2], p[1]>> \in wanted
        BY <4>1, <4>2, Zenon DEF Asks
      <4> HIDE DEF a
      <4> QED  BY <1>4, <4>1, <4>2, <4>3, <4>4, AskChanges, Zenon DEF Checked
    <3> QED  BY <1>4, <3>1, <3>2, Zenon DEF Checked
  <2>2. Held'
    BY <1>0, <1>4, Zenon DEF Checked, Held, Pairs
  <2>3. Links'
    <3>1. CASE UNCHANGED outbound
      BY <1>4, <3>1, Zenon DEF Checked
    <3>2. CASE outbound' = Insert(outbound, <<c, k, "relay">>, FALSE)
      <4>1. outbound' \in [DOMAIN outbound' -> BOOLEAN]
            /\ DOMAIN outbound' = DOMAIN outbound \cup {<<c, k, "relay">>}
        BY <3>2, Zenon DEF Links, Insert
      <4>2. <<c, k, "relay">> \in Clients \X Clients \X Routes
        BY DEF Routes
      <4>3. UNCHANGED <<sessions, relayed>>
        BY <1>4 DEF Checked
      <4> QED  BY <4>1, <4>2, <4>3, ZenonT(30) DEF Links, Pairs, Routes
    <3> QED  BY <1>4, <3>1, <3>2, Zenon DEF Checked
  <2> QED  BY <1>4, <2>1, <2>2, <2>3, Zenon DEF Checked
<1>5. ASSUME NEW r \in Routes, Accepted(c, k, r) PROVE IInv'
  <2>1. outbound' \in [DOMAIN outbound' -> BOOLEAN] /\ DOMAIN outbound' = DOMAIN outbound
    BY <1>5 DEF Accepted, Links
  <2>2. Asks' /\ Links'
    BY <1>5, <2>1, Connects, ZenonT(30) DEF Accepted
  <2> QED  BY <1>5, <2>2, ZenonT(30) DEF Accepted, serverVars
<1>6. ASSUME NEW r \in Routes, Completed(c, k, r) PROVE IInv'
  <2>1. outbound' \in [DOMAIN outbound' -> BOOLEAN] /\ DOMAIN outbound' \subseteq DOMAIN outbound
    BY <1>6 DEF Completed, Links, Restrict
  <2>2. Asks' /\ Links'
    BY <1>6, <2>1, Connects, ZenonT(30) DEF Completed
  <2> QED  BY <1>6, <2>2, ZenonT(30) DEF Completed, serverVars
<1>7. ASSUME NEW r \in Routes, HandshakeFailed(c, k, r) PROVE IInv'
  <2>1. Links'
    BY <1>7 DEF HandshakeFailed, Links, Restrict, Pairs, Routes
  <2>2. Asks'
    <3>1. CASE UNCHANGED ask
      BY <1>7, <3>1, Zenon DEF HandshakeFailed
    <3>2. CASE fail_introduction(c, {k}, "Unreachable")
      BY <1>7, <3>2, FailedAsks, ZenonT(30) DEF HandshakeFailed
    <3>3. CASE p \in DOMAIN ask /\ ask' = [ask EXCEPT ![p].relay_asked = TRUE]
      <4> DEFINE a == [ask[p] EXCEPT !.relay_asked = TRUE]
      <4>1. ask[p] \in AskState
        BY <3>3 DEF Asks
      <4>2. a \in AskState /\ a.stage = ask[p].stage
        BY <4>1, Zenon DEF AskState
      <4>3. ask' = [ask EXCEPT ![p] = a]
        BY <3>3, <4>1, Zenon DEF AskState
      <4>4. a.stage # "Asked" => <<p[2], p[1]>> \in wanted
        BY <3>3, <4>2, Zenon DEF Asks
      <4> HIDE DEF a
      <4> QED  BY <1>7, <3>3, <4>2, <4>3, <4>4, AskChanges, Zenon DEF HandshakeFailed
    <3> QED  BY <1>7, <3>1, <3>2, <3>3, ZenonT(30) DEF HandshakeFailed
  <2>3. Sent'
    <3>1. CASE UNCHANGED net
      BY <1>7, <3>1, Zenon DEF HandshakeFailed
    <3>2. CASE net' = net (+) tell_rendezvous(c, {<<"Relay", k>>})
      <4>1. \A m \in BagToSet(tell_rendezvous(c, {<<"Relay", k>>})) : Sound(m)'
        BY <1>0, Tells, SameSessions, SMTT(30) DEF Sound, Pairs
      <4>2. UNCHANGED wanted
        BY <1>7, Zenon DEF HandshakeFailed
      <4> QED  BY <3>2, <4>1, <4>2, InUnion, SentAfter, ZenonT(30)
    <3> QED  BY <1>7, <3>1, <3>2, Zenon DEF HandshakeFailed
  <2> QED  BY <1>7, <2>1, <2>2, <2>3, ZenonT(30) DEF HandshakeFailed, serverVars
<1>8. ASSUME NEW r \in Routes, SessionLost(c, k, r) PROVE IInv'
  <2>1. Links'
    BY <1>8 DEF SessionLost, Links, Pairs, Routes
  <2> QED  BY <1>8, <2>1, Zenon DEF SessionLost, serverVars
<1> QED  BY <1>1, <1>2, <1>3, <1>4, <1>5, <1>6, <1>7, <1>8, ZenonT(30) DEF Between

\* A message that is taken, with nothing sent, leaves the others.
LEMMA Taken ==
  ASSUME Sent, UNCHANGED <<world, wanted>>, NEW m, net' = net (-) SetToBag({m})
  PROVE  Sent'
BY InDifference, SentAfter, Zenon

\* What the rendezvous says to a client.
LEMMA ControlSteps ==
  ASSUME IInv, UNCHANGED world, NEW m \in BagToSet(net), OnControl(m.session[1], m)
  PROVE  IInv'
<1> DEFINE c == m.session[1]
<1> DEFINE p == <<c, m.key>>
<1> USE Untouched DEF IInv
<1>0. Sound(m) /\ c \in Clients
  BY SessionNames DEF Sent, Sound
<1>1. CASE OnObserved(c, m)
  <2>1. Own'
    <3>1. \A d \in Clients :
            rv'[d] = IF d = c THEN [rv[c] EXCEPT !.registered = TRUE] ELSE rv[d]
      BY <1>0, <1>1 DEF OnObserved, Own
    <3>2. rv' \in [Clients -> [rendezvous : Nat, registered : BOOLEAN,
                              shaking : BOOLEAN, opened : Nat]]
      BY <1>0, <1>1, ZenonT(30) DEF OnObserved, Own
    <3>3. \A d \in Clients : /\ rv'[d].rendezvous = rv[d].rendezvous
                             /\ rv'[d].opened = rv[d].opened
                             /\ rv'[d].shaking = rv[d].shaking
      BY <1>0, <3>1, SMTT(30) DEF Own
    <3>4. UNCHANGED <<up, served>>
      BY <1>1, Zenon DEF OnObserved, OnControl, serverVars
    <3> QED  BY <3>2, <3>3, <3>4, SameSessions, ZenonT(30) DEF Own
  <2>2. Sent'
    <3> DEFINE what == {<<"Introduce", q[2]>> :
                          q \in {o \in DOMAIN ask : o[1] = c /\ ask[o].stage = "Asked"}}
    <3>1. \A n \in BagToSet(tell_rendezvous(c, what)) : Sound(n)'
      <4> SUFFICES ASSUME NEW n \in BagToSet(tell_rendezvous(c, what))
                   PROVE  Sound(n)'
        OBVIOUS
      <4>1. /\ n.session \in Sessions /\ n.session[1] = c /\ n.to = "server"
            /\ \E w \in what : n.kind = w[1] /\ n.key = w[2]
        BY <1>0, Tells
      <4>2. n.kind = "Introduce" /\ <<c, n.key>> \in DOMAIN ask
        BY <4>1 DEF Asks, Pairs
      <4>3. UNCHANGED wanted
        BY <1>1 DEF OnObserved
      <4> QED  BY <4>1, <4>2, <4>3, SameSessions, ZenonT(30) DEF Sound, Asks, Pairs
    <3>2. net' = net (-) SetToBag({m}) (+) tell_rendezvous(c, what)
          \/ net' = net (-) SetToBag({m}) (+) EmptyBag
      BY <1>1 DEF OnObserved
    <3>3. UNCHANGED wanted
      BY <1>1, ZenonT(30) DEF OnObserved
    <3> HIDE DEF what
    <3> QED  BY <3>1, <3>2, <3>3, InUnion, InDifference, InSet, SentAfter, SMTT(30)
  <2> QED  BY <1>1, <2>1, <2>2, Zenon DEF OnControl, OnObserved, serverVars
<1>2. CASE OnUnavailable(c, m)
  <2>1. Asks' /\ Sent'
    BY <1>2, FailedAsks, Taken, ZenonT(30) DEF OnUnavailable
  <2> QED  BY <1>2, <2>1 DEF OnControl, OnUnavailable, serverVars
<1>3. CASE OnIntroduction(c, m)
  <2>1. Sent'
    BY <1>3, Taken, Zenon DEF OnIntroduction
  <2>2. Asks'
    <3>1. CASE UNCHANGED ask
      BY <1>3, <3>1, Zenon DEF OnIntroduction
    <3>2. CASE fail_introduction(c, {m.key}, "Unreachable")
      BY <1>3, <3>2, FailedAsks, ZenonT(30) DEF OnIntroduction
    <3>3. CASE p \in DOMAIN ask
               /\ ask' = [ask EXCEPT ![p] = Introduced(starts(c, m.key))]
      <4>1. Introduced(starts(c, m.key)) \in AskState
        <5>1. 0 \in 0..BINDS + 1
          BY InstanceAssumption, SMTT(30)
        <5>2. starts(c, m.key) \in BOOLEAN
          BY DEF starts
        <5>3. \A b \in BOOLEAN : Introduced(b) \in AskState
          BY <5>1, ZenonT(30) DEF Introduced, Asked, AskState
        <5> QED  BY <5>2, <5>3, ZenonT(30)
      <4>2. <<p[2], p[1]>> \in wanted
        BY <1>0, <1>3, ZenonT(30) DEF OnIntroduction, Sound
      <4>3. UNCHANGED wanted
        BY <1>3 DEF OnIntroduction
      <4> QED  BY <3>3, <4>1, <4>2, <4>3, AskChanges, Zenon
    <3> QED  BY <1>3, <3>1, <3>2, <3>3, ZenonT(30) DEF OnIntroduction
  <2>3. Links'
    <3>1. CASE UNCHANGED outbound
      BY <1>3, <3>1, ZenonT(30) DEF OnIntroduction
    <3>2. CASE outbound' = Insert(outbound, <<c, m.key, "direct">>, FALSE)
      <4>1. outbound' \in [DOMAIN outbound' -> BOOLEAN]
            /\ DOMAIN outbound' = DOMAIN outbound \cup {<<c, m.key, "direct">>}
        BY <3>2, ZenonT(30) DEF Links, Insert
      <4>2. <<c, m.key, "direct">> \in Clients \X Clients \X Routes
        BY <1>0, <1>3, Zenon DEF OnIntroduction, Sound, Pairs, Routes
      <4>3. UNCHANGED <<sessions, relayed>>
        BY <1>3, Zenon DEF OnIntroduction
      <4> QED  BY <4>1, <4>2, <4>3, Zenon DEF Links, Pairs, Routes
    <3> QED  BY <1>3, <3>1, <3>2, Zenon DEF OnIntroduction
  <2> QED  BY <1>3, <2>1, <2>2, <2>3, ZenonT(30) DEF OnControl, OnIntroduction, serverVars
<1>4. CASE OnRelayOffer(c, m)
  <2>1. Sent'
    BY <1>4, Taken, Zenon DEF OnRelayOffer
  <2>2. Asks'
    <3>1. CASE UNCHANGED ask
      BY <1>4, <3>1 DEF OnRelayOffer
    <3>2. CASE /\ p \in DOMAIN ask /\ ask[p].stage = "Introduced"
               /\ ask' = [ask EXCEPT ![p] = Relaying]
      <4>1. Relaying \in AskState
        <5>1. 0 \in 0..BINDS + 1
          BY InstanceAssumption
        <5> QED  BY <5>1, Zenon DEF Relaying, Asked, AskState
      <4>2. <<p[2], p[1]>> \in wanted /\ UNCHANGED wanted
        BY <1>4, <3>2, ZenonT(30) DEF OnRelayOffer, Asks
      <4> QED  BY <3>2, <4>1, <4>2, AskChanges, Zenon
    <3> QED  BY <1>4, <3>1, <3>2, Zenon DEF OnRelayOffer
  <2> QED  BY <1>4, <2>1, <2>2, ZenonT(30) DEF OnControl, OnRelayOffer, serverVars
<1> QED  BY <1>1, <1>2, <1>3, <1>4, Zenon DEF OnControl

-----------------------------------------------------------------------------
(* The server's steps.                                                     *)

\* register: the two registers change together.
LEMMA RegisterStep ==
  ASSUME IInv, UNCHANGED world, NEW s \in Sessions, Register(s)
  PROVE  Registers'
<1>1. s[1] \in Clients
  BY SessionNames
<1>2. byKey' \in [DOMAIN byKey' -> Sessions] /\ DOMAIN byKey' = DOMAIN byKey \cup {s[1]}
  BY DEF Register, Insert, IInv, Registers
<1>3. byKey'[s[1]] = s /\ \A k \in DOMAIN byKey : k # s[1] => byKey'[k] = byKey[k]
  BY DEF Register, Insert
<1>4. clients' \subseteq Sessions /\ s \in clients'
  BY DEF Register, IInv, Registers
<1>5. \A q \in clients' : q # s => q \in clients /\ q[1] # s[1]
  BY DEF Register, IInv, Registers, RegistersAgree
<1>6. \A q \in clients : q[1] # s[1] => q \in clients'
  BY DEF Register, IInv, Registers, RegistersAgree
<1>7. RegistersAgree'
  BY <1>2, <1>3, <1>4, <1>5, <1>6, SMTT(30) DEF IInv, Registers, RegistersAgree
<1> QED  BY <1>1, <1>2, <1>4, <1>7, SameSessions, ZenonT(30) DEF Registers, IInv

\* introduce: two requests make an introduction, and no fewer.
LEMMA IntroducingStep ==
  ASSUME IInv, UNCHANGED <<world, wanted, bound>>, NEW m \in BagToSet(net),
         m.kind = "Introduce", Introduce(m.session, m)
  PROVE  Held' /\ Sent'
<1> DEFINE from == m.session[1]
<1> DEFINE target == m.key
<1> DEFINE both == /\ <<target, from>> \in asked
                   /\ target \in DOMAIN byKey
                   /\ {m.session, byKey[target]} \subseteq served
<1>0. /\ m.session \in Sessions /\ <<from, target>> \in wanted
      /\ <<from, target>> \in Pairs /\ <<target, from>> \in Pairs
  BY DEF IInv, Sent, Sound, Pairs
<1>1. Held'
  <2>1. asked' \subseteq asked \cup {<<from, target>>}
    BY Zenon DEF Introduce
  <2>2. introduced' \subseteq introduced \cup {pair(from, target)} /\ UNCHANGED relays
    BY DEF Introduce
  <2>3. pair(from, target) \in Pairs
    BY <1>0 DEF pair
  <2> QED  BY <1>0, <2>1, <2>2, <2>3, Zenon DEF IInv, Held, Pairs
<1>2. Sent'
  <2>1. CASE both
    <3> DEFINE ms == {Down(m.session, "Introduction", target),
                      Down(byKey[target], "Introduction", from)}
    <3>1. {<<from, target>>, <<target, from>>} \subseteq wanted
      BY <1>0, <2>1 DEF IInv, Held
    <3>2. byKey[target] \in Sessions /\ byKey[target][1] = target
      BY <2>1, Zenon DEF IInv, Registers, RegistersAgree
    <3>3. \A n \in ms : Sound(n)'
      BY <1>0, <3>1, <3>2, SameSessions, SMTT(30) DEF Sound, Down, Pairs
    <3>4. net' = net (-) SetToBag({m}) (+) Send(ms)
      BY <2>1 DEF Introduce
    <3> HIDE DEF ms
    <3> QED  BY <3>3, <3>4, InUnion, InDifference, Sends, SentAfter, SMTT(30) DEF IInv
  <2>2. CASE ~both
    <3>1. net' = net (-) SetToBag({m}) (+) EmptyBag
      BY <2>2 DEF Introduce
    <3> QED  BY <3>1, InUnion, InDifference, InSet, SentAfter, SMTT(30) DEF IInv
  <2> QED  BY <2>1, <2>2, Zenon
<1> QED  BY <1>1, <1>2, Zenon

\* relay: its answers introduce nobody.
LEMMA RelayStep ==
  ASSUME IInv, UNCHANGED <<world, wanted, bound>>, NEW m \in BagToSet(net),
         m.kind = "Relay", Relay(m.session, m)
  PROVE  Held' /\ Sent'
<1> DEFINE from == m.session[1]
<1> DEFINE target == m.key
<1>0. /\ m.session \in Sessions
      /\ <<from, target>> \in Pairs /\ <<target, from>> \in Pairs
  BY DEF IInv, Sent, Sound, Pairs
<1>1. Held'
  <2>1. relays' \subseteq relays \cup {pair(from, target)} /\ UNCHANGED <<asked, introduced>>
    BY DEF Relay
  <2>2. pair(from, target) \in Pairs
    BY <1>0, Zenon DEF pair
  <2> QED  BY <2>1, <2>2, Zenon DEF IInv, Held, Pairs
<1>2. Sent'
  <2> DEFINE Quiet(n) == /\ n.session \in Sessions /\ n.to = "client"
                         /\ n.kind \in {"RelayOffer", "NoRelay", "NotRegistered"}
                         /\ <<n.session[1], n.key>> \in Pairs
  <2>1. \A n : Quiet(n) => Sound(n)'
    BY SameSessions DEF Sound, Pairs
  <2>2. \A kind \in {"NotRegistered", "NoRelay"} :
          \A n \in BagToSet(Send({Down(m.session, kind, target)})) : Quiet(n)
    BY <1>0, Sends, SMTT(30) DEF Down
  <2>3. \A kind \in {"RelayOffer", "NoRelay"} :
          \A n \in BagToSet(SendTo({<<from, kind, target>>, <<target, kind, from>>})) :
            Quiet(n)
    <3> SUFFICES ASSUME NEW kind \in {"RelayOffer", "NoRelay"},
                        NEW n \in BagToSet(SendTo({<<from, kind, target>>,
                                                   <<target, kind, from>>}))
                 PROVE  Quiet(n)
      BY Zenon
    <3>1. /\ n.session \in Sessions /\ n.to = "client"
          /\ \E w \in {<<from, kind, target>>, <<target, kind, from>>} :
                n.session[1] = w[1] /\ n.kind = w[2] /\ n.key = w[3]
      BY SendsTo, SMTT(30) DEF IInv
    <3> QED  BY <1>0, <3>1
  <2>4. PICK answer : /\ net' = net (-) SetToBag({m}) (+) answer
                      /\ \/ answer = Send({Down(m.session, "NotRegistered", target)})
                         \/ answer = Send({Down(m.session, "NoRelay", target)})
                         \/ answer = SendTo({<<from, "RelayOffer", target>>,
                                             <<target, "RelayOffer", from>>})
                         \/ answer = SendTo({<<from, "NoRelay", target>>,
                                             <<target, "NoRelay", from>>})
    BY DEF Relay
  <2>5. \A n \in BagToSet(answer) : Quiet(n)
    BY <2>2, <2>3, <2>4, ZenonT(30)
  <2> HIDE DEF Quiet
  <2> QED  BY <2>1, <2>4, <2>5, InUnion, InDifference, SentAfter, SMTT(30) DEF IInv
<1> QED  BY <1>1, <1>2, Zenon

\* handle: what a client says to the rendezvous.
LEMMA HandleStep ==
  ASSUME IInv, UNCHANGED world, NEW m \in BagToSet(net), Handle(m)
  PROVE  IInv'
<1> USE Untouched DEF IInv
<1> DEFINE s == m.session
<1>0. /\ s \in Sessions /\ Sound(m)
      /\ UNCHANGED <<rv, up, served, ask, outbound, sessions, relayed, wanted, bound>>
  BY ZenonT(30) DEF Handle, Sent, Sound
<1>1. CASE m.kind = "Register" /\ Register(s)
  <2>1. Registers'
    BY <1>0, <1>1, RegisterStep, ZenonT(30)
  <2>2. Sent'
    <3>1. \A n \in BagToSet(Send({Down(s, "Observed", s[1])})) : Sound(n)'
      BY <1>0, Sends, SameSessions, SMTT(30) DEF Down, Sound
    <3>2. net' = net (-) SetToBag({Up(s, "Register", s[1])})
                 (+) Send({Down(s, "Observed", s[1])})
      BY <1>1, Zenon DEF Register
    <3>3. \A n \in BagToSet(net') :
            n \in BagToSet(net) \/ n \in BagToSet(Send({Down(s, "Observed", s[1])}))
      BY <3>2, InUnion, InDifference, SMTT(30)
    <3> QED  BY <1>0, <3>1, <3>3, SentAfter, ZenonT(30)
  <2> QED  BY <1>0, <1>1, <2>1, <2>2, ZenonT(30) DEF Register
<1>2. CASE Ignored(m)
  <2>1. Sent'
    BY <1>0, <1>2, Taken, ZenonT(30) DEF Ignored
  <2> QED  BY <1>0, <1>2, <2>1, Zenon DEF Ignored
<1>3. CASE m.kind # "Register" /\ Refuse(s, m)
  <2>1. <<s[1], m.key>> \in Pairs
    BY <1>0, <1>3, ZenonT(30) DEF Handle, Sound
  <2>2. \A n \in BagToSet(Send({Down(s, "Refused", m.key)})) : Sound(n)'
    <3> SUFFICES ASSUME NEW n \in BagToSet(Send({Down(s, "Refused", m.key)}))
                 PROVE  Sound(n)'
      OBVIOUS
    <3>1. n = Down(s, "Refused", m.key)
      BY Sends
    <3>2. /\ n.session = s /\ n.to = "client" /\ n.kind = "Refused" /\ n.key = m.key
      BY <3>1 DEF Down
    <3>3. Sessions' = Sessions /\ Pairs' = Pairs
      BY SameSessions DEF Pairs
    <3> QED  BY <1>0, <2>1, <3>2, <3>3, Zenon DEF Sound
  <2>3. net' = net (-) SetToBag({m}) (+) Send({Down(s, "Refused", m.key)})
    BY <1>3, Zenon DEF Refuse
  <2>4. Sent'
    BY <1>0, <2>2, <2>3, InUnion, InDifference, SentAfter, SMTT(30)
  <2> QED  BY <1>0, <1>3, <2>4, ZenonT(30) DEF Refuse
<1>4. CASE m.kind = "Introduce" /\ Introduce(s, m)
  <2>1. Held' /\ Sent'
    BY <1>0, <1>4, IntroducingStep, Zenon
  <2> QED  BY <1>0, <1>4, <2>1, Zenon DEF Introduce
<1>5. CASE m.kind = "Relay" /\ Relay(s, m)
  <2>1. Held' /\ Sent'
    BY <1>0, <1>5, RelayStep, ZenonT(30)
  <2> QED  BY <1>0, <1>5, <2>1, Zenon DEF Relay
<1> QED  BY <1>1, <1>2, <1>3, <1>4, <1>5, ZenonT(30) DEF Handle

\* What time and lost sessions do to the server's tables.
LEMMA ExpirySteps ==
  ASSUME IInv, UNCHANGED world,
         \/ \E p \in Pairs : ExpireAsked(p) \/ ExpirePair(p)
         \/ \E s \in Sessions : Forget(s)
  PROVE  IInv'
<1> USE Untouched DEF IInv
<1>1. ASSUME NEW p \in Pairs, ExpireAsked(p) PROVE IInv'
  <2> DEFINE kind == IF p[2] \in DOMAIN byKey THEN "NotAsked" ELSE "NotRegistered"
  <2>1. Held'
    BY <1>1, Zenon DEF ExpireAsked, Held, Pairs
  <2>2. \A n \in BagToSet(SendTo({<<p[1], kind, p[2]>>})) : Sound(n)'
    <3> SUFFICES ASSUME NEW n \in BagToSet(SendTo({<<p[1], kind, p[2]>>})) PROVE Sound(n)'
      BY Zenon
    <3>1. /\ n.session \in Sessions /\ n.to = "client"
          /\ n.session[1] = p[1] /\ n.kind = kind /\ n.key = p[2]
      BY SendsTo
    <3> QED  BY <1>1, <3>1, SameSessions, ZenonT(30) DEF Sound, Pairs
  <2>3. net' = net (+) SendTo({<<p[1], kind, p[2]>>}) /\ UNCHANGED wanted
    BY <1>1, Zenon DEF ExpireAsked
  <2> HIDE DEF kind
  <2>4. Sent'
    BY <2>2, <2>3, InUnion, SentAfter, ZenonT(30)
  <2> QED  BY <1>1, <2>1, <2>4, ZenonT(30) DEF ExpireAsked
<1>2. ASSUME NEW p \in Pairs, ExpirePair(p) PROVE IInv'
  <2>1. Held'
    BY <1>2 DEF ExpirePair, Held, Pairs
  <2> QED  BY <1>2, <2>1, ZenonT(30) DEF ExpirePair
<1>3. ASSUME NEW s \in Sessions, Forget(s) PROVE IInv'
  <2>1. Own'
    BY <1>3, SameSessions, Zenon DEF Forget, Own
  <2>2. Registers'
    <3>1. CASE s \in clients
      <4>1. byKey[s[1]] = s /\ s[1] \in DOMAIN byKey
        BY <3>1, Zenon DEF Registers, RegistersAgree
      <4>2. byKey' = [k \in DOMAIN byKey \ {s[1]} |-> byKey[k]]
        BY <1>3, <3>1, <4>1, SMTT(30) DEF Forget, Restrict
      <4>3. clients' = clients \ {s}
        BY <1>3, Zenon DEF Forget
      <4>4. \A q \in clients : q # s => q[1] # s[1]
        BY <4>1, Zenon DEF Registers, RegistersAgree
      <4>5. RegistersAgree'
        BY <4>1, <4>2, <4>3, <4>4, Zenon DEF Registers, RegistersAgree
      <4>6. byKey' \in [DOMAIN byKey' -> Sessions] /\ DOMAIN byKey' \subseteq Clients
        BY <4>2, Zenon DEF Registers
      <4> QED  BY <4>3, <4>5, <4>6, SameSessions, ZenonT(30) DEF Registers
    <3>2. CASE s \notin clients
      BY <1>3, <3>2, SameSessions, SMTT(30) DEF Forget, Registers, RegistersAgree
    <3> QED  BY <3>1, <3>2, ZenonT(30)
  <2> QED  BY <1>3, <2>1, <2>2, ZenonT(30) DEF Forget
<1> QED  BY <1>1, <1>2, <1>3, ZenonT(30)

-----------------------------------------------------------------------------
(* The invariant, and what it gives.                                       *)

\* Nothing asked, nothing registered, nothing on its way.
LEMMA IInvInitially == Init => IInv
<1> SUFFICES ASSUME Init PROVE IInv
  OBVIOUS
<1>1. Own
  <2>1. world.opens \in [Clients -> Nat]
    BY InstanceAssumption, Zenon DEF Init
  <2>2. ASSUME NEW c \in Clients
        PROVE  /\ rv[c].rendezvous = 0 /\ rv[c].opened = 0 /\ ~rv[c].shaking
               /\ 0 <= world.opens[c]
    BY <2>1, SMTT(30) DEF Init
  <2>3. rv \in [Clients -> [rendezvous : Nat, registered : BOOLEAN,
                            shaking : BOOLEAN, opened : Nat]]
    BY DEF Init
  <2>4. world \in Worlds /\ up \subseteq Sessions /\ served \subseteq Sessions
    BY Zenon DEF Init
  <2> QED  BY <2>2, <2>3, <2>4, Zenon DEF Own
<1>2. Asks /\ Links /\ Registers /\ Held
  BY DEF Init, Asks, Links, Registers, RegistersAgree, Held
<1>3. Sent
  BY InSet, Zenon DEF Init, Sent
<1> QED  BY <1>1, <1>2, <1>3, Zenon DEF IInv

\* Every step keeps the invariant.
LEMMA IInvKept == IInv /\ [Next]_vars => IInv'
<1> SUFFICES ASSUME IInv, [Next]_vars PROVE IInv'
  OBVIOUS
<1>1. CASE UNCHANGED vars
  BY <1>1, Untouched, Zenon DEF IInv, vars, moving, clientVars, serverVars
<1>2. ASSUME Next, NEW c \in Clients,
             \/ connect_rendezvous(c) \/ RendezvousConnected(c)
             \/ RendezvousLost(c) \/ Disconnect(c)
      PROVE  IInv'
  BY <1>2, RendezvousSteps, Zenon DEF Next
<1>3. ASSUME Next, NEW p \in Pairs, Between(p[1], p[2]) PROVE IInv'
  BY <1>3, BetweenSteps, Zenon DEF Next, Pairs
<1>4. ASSUME Next, NEW m \in BagToSet(net),
             OnControl(m.session[1], m) \/ Handle(m) \/ Lose(m)
      PROVE  IInv'
  <2>1. CASE OnControl(m.session[1], m)
    BY <1>4, <2>1, ControlSteps, Zenon DEF Next
  <2>2. CASE Handle(m)
    BY <1>4, <2>2, HandleStep, ZenonT(30) DEF Next
  <2>3. CASE Lose(m)
    <3>1. Sent'
      BY <1>4, <2>3, Taken, ZenonT(30) DEF Lose, IInv, Next
    <3> QED  BY <1>4, <2>3, <3>1, Untouched, ZenonT(30) DEF Lose, IInv, Next, serverVars
  <2> QED  BY <1>4, <2>1, <2>2, <2>3, ZenonT(30)
<1>5. ASSUME Next, \/ \E p \in Pairs : ExpireAsked(p) \/ ExpirePair(p)
                   \/ \E s \in Sessions : Forget(s)
      PROVE  IInv'
  BY <1>5, ExpirySteps, Zenon DEF Next
<1> QED  BY <1>1, <1>2, <1>3, <1>4, <1>5, ZenonT(30) DEF Next

\* The tables of the clients and of the server keep their shape, for any clients,
\* sessions and faults.
THEOREM TypeCorrect == Spec => []TypeOK
<1>1. IInv => TypeOK
  <2> SUFFICES ASSUME IInv PROVE TypeOK
    OBVIOUS
  <2>1. \A c \in Clients : rv[c] \in [rendezvous : 0..world.opens[c], registered : BOOLEAN,
                                      shaking : BOOLEAN, opened : 0..world.opens[c]]
    <3> SUFFICES ASSUME NEW c \in Clients
                 PROVE  rv[c] \in [rendezvous : 0..world.opens[c], registered : BOOLEAN,
                                   shaking : BOOLEAN, opened : 0..world.opens[c]]
      BY Zenon
    <3>1. world.opens[c] \in Nat
      BY InstanceAssumption DEF IInv, Own
    <3>2. /\ rv[c] \in [rendezvous : Nat, registered : BOOLEAN, shaking : BOOLEAN, opened : Nat]
          /\ rv[c].rendezvous <= world.opens[c] /\ rv[c].opened <= world.opens[c]
      BY Zenon DEF IInv, Own
    <3>3. rv[c].rendezvous \in 0..world.opens[c] /\ rv[c].opened \in 0..world.opens[c]
      BY <3>1, <3>2
    <3> QED  BY <3>2, <3>3
  <2>2. \A p \in DOMAIN ask : ask[p] \in AskState
    BY DEF IInv, Asks
  <2> QED  BY <2>1, <2>2 DEF TypeOK, IInv, Own, Asks, Links, Registers, Held, AskState
<1> QED  BY IInvInitially, IInvKept, <1>1, PTL DEF Spec

\* Rendezvous.clients and by_key describe the same registrations, in whatever
\* order the sessions of any number of clients register, are replaced and are
\* lost (register, forget).
THEOREM RegistersAlwaysAgree == Spec => []RegistersAgree
<1>1. IInv => RegistersAgree
  BY DEF IInv, Registers
<1> QED  BY IInvInitially, IInvKept, <1>1, PTL DEF Spec

\* Both must have asked, among any number of clients and whatever is repeated,
\* lost, refused, expired or answered late (introduce, on_control).
THEOREM ConsentOfBoth == Spec => []TakesBothToAgree
<1>1. IInv => TakesBothToAgree
  BY DEF IInv, Asks, TakesBothToAgree
<1> QED  BY IInvInitially, IInvKept, <1>1, PTL DEF Spec

-----------------------------------------------------------------------------
(* What a step tells the applications.                                     *)

\* A step and its events: OneVerdict of the step.
Verdict ==
  /\ \A p \in DOMAIN ask \ DOMAIN ask' :
       Cardinality({e \in told' : e.at = p[1] /\ e.key = p[2]
                                  /\ e.event # "ConnectFailed"}) = 1
  /\ \A e \in told' : e.event = "IntroductionFailed" =>
       <<e.at, e.key>> \in DOMAIN ask \ DOMAIN ask'

\* fail_introduction raises one event for each ask it removes, and no other.
LEMMA FailVerdict ==
  ASSUME Asks, NEW c, NEW keys, NEW why, fail_introduction(c, keys, why)
  PROVE  Verdict
<1> DEFINE held == {k \in keys : <<c, k>> \in DOMAIN ask}
<1>1. /\ DOMAIN ask' = DOMAIN ask \ {<<c, k>> : k \in held}
      /\ told' = {Failed(c, k, why) : k \in held}
  BY DEF fail_introduction, Restrict, Hear
<1>a. \A k : /\ Failed(c, k, why).at = c /\ Failed(c, k, why).key = k
             /\ Failed(c, k, why).event = "IntroductionFailed"
  BY DEF Failed
<1>2. ASSUME NEW p \in DOMAIN ask \ DOMAIN ask'
      PROVE  Cardinality({e \in told' : e.at = p[1] /\ e.key = p[2]
                                        /\ e.event # "ConnectFailed"}) = 1
  <2>1. PICK k \in held : p = <<c, k>>
    BY <1>1, Zenon
  <2>2. {e \in told' : e.at = p[1] /\ e.key = p[2] /\ e.event # "ConnectFailed"}
          = {Failed(c, k, why)}
    <3>1. Failed(c, k, why) \in told'
      BY <1>1, Zenon
    <3>2. ASSUME NEW e \in told', e.key = k PROVE e = Failed(c, k, why)
      <4>1. PICK j \in held : e = Failed(c, j, why)
        BY <1>1
      <4> QED  BY <1>a, <3>2, <4>1, ZenonT(30)
    <3> QED  BY <1>a, <2>1, <3>1, <3>2, ZenonT(30)
  <2> QED  BY <2>2, FS_Singleton, Zenon
<1>3. ASSUME NEW e \in told' PROVE <<e.at, e.key>> \in DOMAIN ask \ DOMAIN ask'
  <2>1. PICK k \in held : e = Failed(c, k, why)
    BY <1>1, Zenon
  <2> QED  BY <1>1, <1>a, <2>1, ZenonT(30)
<1> QED  BY <1>2, <1>3 DEF Verdict

\* A session answers the ask for its key, and is told of once.
LEMMA ConnectVerdict ==
  ASSUME NEW c, NEW k, NEW r, ConnectedTo(c, k, r)
  PROVE  Verdict
<1>1. told' = {Connected(c, k)} /\ DOMAIN ask' = DOMAIN ask \ {<<c, k>>}
  BY DEF ConnectedTo, Hear, Restrict
<1>2. ASSUME NEW p \in DOMAIN ask \ DOMAIN ask'
      PROVE  Cardinality({e \in told' : e.at = p[1] /\ e.key = p[2]
                                        /\ e.event # "ConnectFailed"}) = 1
  <2>1. {e \in told' : e.at = p[1] /\ e.key = p[2] /\ e.event # "ConnectFailed"}
          = {Connected(c, k)}
    BY <1>1 DEF Connected
  <2> QED  BY <2>1, FS_Singleton, ZenonT(30)
<1> QED  BY <1>1, <1>2, SMTT(30) DEF Verdict, Connected

\* A step that ends no ask and says at most that a handshake of nobody's failed.
LEMMA QuietVerdict ==
  ASSUME DOMAIN ask \subseteq DOMAIN ask',
         \A e \in told' : e.event = "ConnectFailed"
  PROVE  Verdict
BY DEF Verdict

\* An ask and its verdict are one, whatever the clients, the sessions and the
\* faults (fail_introduction, intercept).
THEOREM EveryAskOneVerdict == Spec => OneVerdict
<1>1. IInv /\ [Next]_vars => [Verdict]_vars
  <2> SUFFICES ASSUME IInv, Next PROVE Verdict
    OBVIOUS
  <2>0. Asks
    BY DEF IInv
  <2>1. ASSUME NEW c \in Clients,
               \/ connect_rendezvous(c) \/ RendezvousConnected(c)
               \/ RendezvousLost(c) \/ Disconnect(c)
        PROVE  Verdict
    <3>1. CASE RendezvousLost(c)
      BY <2>0, <3>1, FailVerdict, ZenonT(30) DEF RendezvousLost, lose_rendezvous
    <3>2. CASE connect_rendezvous(c) \/ RendezvousConnected(c) \/ Disconnect(c)
      BY <3>2, QuietVerdict
        , Zenon DEF connect_rendezvous, RendezvousConnected, Disconnect, Hear
    <3> QED  BY <2>1, <3>1, <3>2, ZenonT(30)
  <2>2. ASSUME NEW c, NEW k, Between(c, k) PROVE Verdict
    <3>1. CASE introduce(c, k)
      <4>1. ask' = ask \/ ask' = Insert(ask, <<c, k>>, Asked)
        BY <3>1, Zenon DEF introduce
      <4> QED  BY <3>1, <4>1, QuietVerdict, ZenonT(30) DEF introduce, Hear, Insert
    <3>2. CASE Deadline(c, k)
      BY <2>0, <3>2, FailVerdict, ZenonT(30) DEF Deadline
    <3>3. CASE Bind(c, k)
      <4>1. CASE fail_introduction(c, {k}, "Unreachable")
        BY <2>0, <4>1, FailVerdict, ZenonT(30)
      <4>2. CASE DOMAIN ask' = DOMAIN ask /\ Hear({})
        BY <4>2, QuietVerdict, ZenonT(30) DEF Hear
      <4> QED  BY <3>3, <4>1, <4>2, ZenonT(30) DEF Bind
    <3>4. CASE Checked(c, k)
      <4>1. CASE fail_introduction(c, {k}, "Unreachable")
        BY <2>0, <4>1, FailVerdict
      <4>2. CASE DOMAIN ask' = DOMAIN ask /\ Hear({})
        BY <4>2, QuietVerdict DEF Hear
      <4> QED  BY <3>4, <4>1, <4>2, Zenon DEF Checked
    <3>5. ASSUME NEW r, Accepted(c, k, r) \/ Completed(c, k, r) PROVE Verdict
      BY <3>5, ConnectVerdict, ZenonT(30) DEF Accepted, Completed
    <3>6. ASSUME NEW r, HandshakeFailed(c, k, r) PROVE Verdict
      <4>1. CASE fail_introduction(c, {k}, "Unreachable")
        BY <2>0, <4>1, FailVerdict
      <4>2. CASE DOMAIN ask' = DOMAIN ask /\ (Hear({}) \/ Hear({ConnectFailed(c, k)}))
        BY <4>2, QuietVerdict, SMTT(30) DEF Hear, ConnectFailed
      <4> QED  BY <3>6, <4>1, <4>2, ZenonT(30) DEF HandshakeFailed
    <3>7. ASSUME NEW r, SessionLost(c, k, r) PROVE Verdict
      BY <3>7, QuietVerdict DEF SessionLost, Hear
    <3> QED  BY <2>2, <3>1, <3>2, <3>3, <3>4, <3>5, <3>6, <3>7, ZenonT(30) DEF Between
  <2>3. ASSUME NEW c, NEW m, OnControl(c, m) PROVE Verdict
    <3>1. CASE \E keys, why : fail_introduction(c, keys, why)
      BY <2>0, <3>1, FailVerdict, ZenonT(30)
    <3>2. CASE DOMAIN ask' = DOMAIN ask /\ Hear({})
      BY <3>2, QuietVerdict DEF Hear
    <3> QED  BY <2>3, <3>1, <3>2
               , Zenon DEF OnControl, OnObserved, OnUnavailable, OnIntroduction, OnRelayOffer
  <2>4. CASE UNCHANGED ask /\ Hear({})
    BY <2>4, QuietVerdict, ZenonT(30) DEF Hear
  <2>5. ASSUME NEW m, Handle(m) \/ Lose(m) PROVE UNCHANGED ask /\ Hear({})
    BY <2>5, ZenonT(30) DEF Handle, Lose
  <2>6. ASSUME NEW p, ExpireAsked(p) \/ ExpirePair(p) \/ Forget(p)
        PROVE  UNCHANGED ask /\ Hear({})
    BY <2>6 DEF ExpireAsked, ExpirePair, Forget
  <2> QED  BY <2>1, <2>2, <2>3, <2>4, <2>5, <2>6, Zenon DEF Next
<1> QED  BY IInvInitially, IInvKept, <1>1, PTL DEF Spec, OneVerdict, Verdict
=============================================================================

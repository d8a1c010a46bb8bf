----------------------------- MODULE RelayPort -----------------------------
(***************************************************************************)
(* One relay allocation of a rendezvous: two ports, a thread serving each  *)
(* (serve_port in crates/fectp/src/rendezvous.rs), the two parties proving *)
(* their addresses to them (SPEC A.4, A.5), and the release of the         *)
(* allocation.  A thread's step is one datagram taken from its socket, but *)
(* for a frame to be forwarded, which takes a second step once the other   *)
(* port's party has been locked.                                           *)
(*                                                                         *)
(* A party has the address its NAT gives it, which may change; it hears    *)
(* only what is sent to the address it has.  The network loses, repeats    *)
(* and reorders datagrams.  A nonce is what it is derived from: the port,  *)
(* the address and the ten-second period.  Whether a check is within the   *)
(* port's bounds per second is left open, and so is whether a frame is     *)
(* within its bytes per second.                                            *)
(***************************************************************************)
EXTENDS Naturals, FiniteSets

CONSTANTS Addrs,      \* addresses the parties' NATs give them
          Nobody,     \* no address recorded: None
          Movers,     \* the sides whose NAT moves them
          MaxMoves,   \* bound: moves in all
          Worlds      \* what a behaviour may be confined to: records
                      \*   settled: sides recorded already, which prove nothing more
                      \*   senders: the sides whose party has frames to send
                      \*   lossy: whether hellos may go unanswered for long
                      \*   flight: datagrams in flight when a party sends another
                      \*   periods: ten-second periods

ASSUME PortAssumption ==
  /\ Nobody \notin Addrs /\ Movers \subseteq {0, 1} /\ MaxMoves \in Nat
  /\ Worlds \subseteq [settled : SUBSET {0, 1}, senders : SUBSET {0, 1}, lossy : BOOLEAN,
                      flight : Nat, periods : Nat]

VARIABLES
  world,      \* which of Worlds this is; it does not change
  party,      \* Port.party of each side
  exposed,    \* Port.exposed of each side
  pc,         \* each thread: waiting in recv, holding a frame, or returned
  stop,       \* the flag the threads share
  woken,      \* whether Drop has sent its wakes
  epoch,      \* Port::epoch, the same for both ports
  at,         \* where each party is
  legacy,     \* the parties that have fallen back to the old bind
  checked,    \* the parties that have heard a check
  net,        \* datagrams in flight
  moves,      \* moves so far
  proved      \* history: for each side, the addresses it answered a check at

ports == <<party, exposed, pc, stop, woken>>
parties == <<at, legacy, checked, moves>>
moving == <<ports, parties, epoch, net, proved>>
vars == <<world, moving>>

Sides == {0, 1}

\* Datagrams to port s and from it, with the client address at the other end.
In(s, kind, a, nonce) == [port |-> s, way |-> "in", kind |-> kind, addr |-> a, nonce |-> nonce]
Out(s, kind, a, nonce) == [port |-> s, way |-> "out", kind |-> kind, addr |-> a, nonce |-> nonce]
NoNonce == <<Nobody, 0>>

\* Port::nonce, and Port::sent: a nonce of this period or the last, for that
\* address.
Nonce(a, e) == <<a, e>>
Sent(a, nonce) ==
  nonce \in {Nonce(a, epoch)} \cup {Nonce(a, e) : e \in {f \in Nat \cap 0..epoch : f + 1 = epoch}}

\* A datagram is taken from the network; it may have been repeated.
Without(d) == {net, net \ {d}}

\* serve_port, a check: sent, or withheld by the bounds on checks.
MayCheck(s, d) ==
  \E rest \in Without(d) :
    net' \in {rest, rest \cup {Out(s, "Check", d.addr, Nonce(d.addr, epoch))}}

\* What a thread does with its party's address.
Record(s, a) == party' = [party EXCEPT ![s] = a]

\* serve_port, the datagrams of the port's own conversation.
\* Mutant: an answer is taken from whatever address it comes from.
ConverseUnbound(s, d) ==
  \/ /\ d.kind \in {"Hello", "Bind"}
     /\ MayCheck(s, d)
     /\ UNCHANGED <<party, exposed>>
  \/ /\ d.kind \in {"Answer", "Proof"}
     /\ net' \in Without(d)
     /\ Record(s, d.addr)
     /\ UNCHANGED exposed

\* Mutant: the old bind is honoured again for an address recorded before.
ConverseFollowing(s, d) ==
  \/ /\ d.kind \in {"Hello", "Bind"}
     /\ exposed' = [exposed EXCEPT ![s] = @ \/ d.kind = "Bind"]
     /\ MayCheck(s, d)
     /\ UNCHANGED party
  \/ /\ d.kind \in {"Answer", "Proof"}
     /\ net' \in Without(d)
     /\ IF Sent(d.addr, d.nonce) THEN Record(s, d.addr) ELSE UNCHANGED party
     /\ UNCHANGED exposed

\* Mutant: a port records one address, and no other after it.
ConverseOnce(s, d) ==
  \/ /\ d.kind \in {"Hello", "Bind"}
     /\ MayCheck(s, d)
     /\ UNCHANGED <<party, exposed>>
  \/ /\ d.kind \in {"Answer", "Proof"}
     /\ net' \in Without(d)
     /\ IF party[s] = Nobody /\ Sent(d.addr, d.nonce)
        THEN Record(s, d.addr) ELSE UNCHANGED party
     /\ UNCHANGED exposed

Converse(s, d) ==
  \/ /\ d.kind = "Hello"
     /\ IF exposed[s] THEN net' \in Without(d) ELSE MayCheck(s, d)
     /\ UNCHANGED <<party, exposed>>
  \/ /\ d.kind = "Answer"
     /\ net' \in Without(d)
     /\ IF ~exposed[s] /\ Sent(d.addr, d.nonce)
        THEN Record(s, d.addr) ELSE UNCHANGED party
     /\ UNCHANGED exposed
  \/ /\ d.kind = "Bind"
     /\ IF party[s] = Nobody
        THEN exposed' = [exposed EXCEPT ![s] = TRUE] /\ MayCheck(s, d)
        ELSE net' \in Without(d) /\ UNCHANGED exposed
     /\ UNCHANGED party
  \/ /\ d.kind = "Proof"
     /\ net' \in Without(d)
     /\ IF party[s] = Nobody /\ exposed[s] /\ Sent(d.addr, d.nonce)
        THEN Record(s, d.addr) ELSE UNCHANGED party
     /\ UNCHANGED exposed

\* serve_port, one datagram: with stop set the thread returns, whatever it was.
\* A frame is for forwarding only from the recorded address.
Take(s, d) ==
  /\ pc[s] = "recv"
  /\ d \in net /\ d.port = s /\ d.way = "in"
  /\ \/ /\ stop
        /\ pc' = [pc EXCEPT ![s] = "done"]
        /\ net' \in Without(d)
        /\ UNCHANGED <<party, exposed>>
     \/ /\ ~stop
        /\ Converse(s, d)
        /\ UNCHANGED pc
     \/ /\ ~stop
        /\ d.kind \in {"Frame", "Wake"}
        /\ pc' = IF party[s] = d.addr THEN [pc EXCEPT ![s] = "frame"] ELSE pc
        /\ net' \in Without(d)
        /\ UNCHANGED <<party, exposed>>
  /\ UNCHANGED <<stop, woken, parties, epoch, proved>>

Forward(s) ==
  LET to == party[1 - s] IN
  /\ pc[s] = "frame"
  /\ pc' = [pc EXCEPT ![s] = "recv"]
  /\ net' \in {net} \cup {net \cup {Out(1 - s, "Frame", a, NoNonce)} : a \in {to} \ {Nobody}}
  /\ UNCHANGED <<party, exposed, stop, woken, parties, epoch, proved>>

\* Allocation::drop: the flag, then a datagram from each port to itself.
\* Mutant: the wakes go first, and the flag after them.
ReleaseLate ==
  \/ /\ ~woken
     /\ woken' = TRUE
     /\ net' = net \cup {In(s, "Wake", Nobody, NoNonce) : s \in Sides}
     /\ UNCHANGED <<party, exposed, pc, stop, parties, epoch, proved>>
  \/ /\ woken /\ ~stop
     /\ stop' = TRUE
     /\ UNCHANGED <<party, exposed, pc, woken, parties, epoch, net, proved>>

Release ==
  \/ /\ ~stop
     /\ stop' = TRUE
     /\ UNCHANGED <<party, exposed, pc, woken, parties, epoch, net, proved>>
  \/ /\ stop /\ ~woken
     /\ woken' = TRUE
     /\ net' = net \cup {In(s, "Wake", Nobody, NoNonce) : s \in Sides}
     /\ UNCHANGED <<party, exposed, pc, stop, parties, epoch, proved>>

----------------------------------------------------------------------------
(* The parties.                                                            *)

\* A hello, or the old bind once hellos have gone unanswered.
Prove(s) ==
  /\ s \notin world.settled
  /\ Cardinality(net) < world.flight
  /\ net' = net \cup {In(s, IF s \in legacy THEN "Bind" ELSE "Hello", at[s], NoNonce)}
  /\ UNCHANGED <<ports, parties, epoch, proved>>

\* drive_introductions: BINDS hellos and no check.
FallBack(s) ==
  /\ world.lossy
  /\ s \notin checked \cup legacy \cup world.settled
  /\ legacy' = legacy \cup {s}
  /\ UNCHANGED <<ports, at, checked, moves, epoch, net, proved>>

\* not_a_frame: a check that reaches the party is answered; its NAT may have
\* moved it by the time the answer leaves.
Answer(s, d) ==
  /\ d \in net /\ d.port = s /\ d.way = "out" /\ d.kind = "Check"
  /\ d.addr = at[s]
  /\ checked' = checked \cup {s}
  /\ proved' = [proved EXCEPT ![s] = @ \cup {at[s]}]
  /\ \E from \in IF s \in Movers /\ moves < MaxMoves THEN Addrs ELSE {at[s]} :
       /\ at' = [at EXCEPT ![s] = from]
       /\ moves' = IF from = at[s] THEN moves ELSE moves + 1
       /\ \E rest \in Without(d) :
            net' = rest \cup {In(s, IF s \in legacy THEN "Proof" ELSE "Answer", from, d.nonce)}
  /\ UNCHANGED <<ports, legacy, epoch>>

SendFrame(s) ==
  /\ s \in world.senders
  /\ Cardinality(net) < world.flight
  /\ net' = net \cup {In(s, "Frame", at[s], NoNonce)}
  /\ UNCHANGED <<ports, parties, epoch, proved>>

Move(s) ==
  /\ s \in Movers /\ moves < MaxMoves
  /\ \E a \in Addrs \ {at[s]} : at' = [at EXCEPT ![s] = a]
  /\ moves' = moves + 1
  /\ UNCHANGED <<ports, legacy, checked, epoch, net, proved>>

Tick ==
  /\ epoch < world.periods
  /\ epoch' = epoch + 1
  /\ UNCHANGED <<ports, parties, net, proved>>

\* A datagram that never arrives: lost, or for an address nobody has now, or a
\* frame that arrives.
Gone(d) ==
  /\ d \in net /\ d.kind # "Wake"
  /\ net' = net \ {d}
  /\ UNCHANGED <<ports, parties, epoch, proved>>

----------------------------------------------------------------------------
Init ==
  /\ world \in Worlds
  /\ exposed = [s \in Sides |-> FALSE]
  /\ pc = [s \in Sides |-> "recv"]
  /\ stop = FALSE /\ woken = FALSE
  /\ epoch = 0
  /\ at \in [Sides -> Addrs] /\ at[1] = CHOOSE a \in Addrs : TRUE
  /\ party = [s \in Sides |-> IF s \in world.settled THEN at[s] ELSE Nobody]
  /\ legacy = {} /\ checked = {}
  /\ net = {}
  /\ moves = 0
  /\ proved = [s \in Sides |-> {party[s]} \ {Nobody}]

Next ==
  /\ \/ Release
     \/ Tick
     \/ \E d \in net : Take(d.port, d) \/ Answer(d.port, d) \/ Gone(d)
     \/ \E s \in Sides : Forward(s) \/ Prove(s) \/ FallBack(s) \/ SendFrame(s) \/ Move(s)
  /\ UNCHANGED world

Spec == Init /\ [][Next]_vars

\* The threads run; a released allocation is dropped to the end; the parties go
\* on proving themselves, what is sent again and again gets through, and no
\* datagram is repeated for ever.
Heard(s, kind) == \E d \in net : d.kind = kind /\ d.addr = at[s] /\ Take(s, d)
Fair ==
  /\ WF_moving(stop /\ Release)
  /\ \A s \in Sides :
       /\ WF_moving(Forward(s))
       /\ WF_moving(\E d \in net : Take(s, d))
  /\ \A s \in Movers :
       /\ SF_moving(Prove(s))
       /\ SF_moving(Heard(s, "Hello") /\ Out(s, "Check", at[s], Nonce(at[s], epoch)) \in net')
       /\ SF_moving(\E d \in net : d.nonce = Nonce(at[s], epoch) /\ Answer(s, d) /\ UNCHANGED at)
       /\ SF_moving(\E d \in net : /\ d.nonce = Nonce(at[s], epoch) /\ d.addr = at[s]
                                   /\ d.kind = "Answer" /\ Take(s, d))
  /\ \A s \in Sides, a \in Addrs, kind \in {"Frame", "Hello", "Check", "Answer"} :
       WF_moving(\E d \in net : d.port = s /\ d.addr = a /\ d.kind = kind /\ Gone(d))
FairSpec == Spec /\ Fair

----------------------------------------------------------------------------
(* Properties.                                                             *)

\* What the port records of each party and where its two threads are keep their
\* ranges; only the wake datagram has no address of a party.
TypeOK ==
  /\ party \in [Sides -> Addrs \cup {Nobody}]
  /\ exposed \in [Sides -> BOOLEAN]
  /\ pc \in [Sides -> {"recv", "frame", "done"}]
  /\ stop \in BOOLEAN /\ woken \in BOOLEAN
  /\ epoch \in 0..world.periods
  /\ at \in [Sides -> Addrs]
  /\ legacy \subseteq Sides /\ checked \subseteq Sides
  /\ moves \in 0..MaxMoves
  /\ \A d \in net : d.addr \in Addrs \/ d.kind = "Wake"

\* A port records only an address its party received a check at, also when the
\* party moves between the check and its answer; so what is forwarded goes
\* only to addresses that were proved.
ProvedFirst ==
  /\ \A s \in Sides : party[s] # Nobody => party[s] \in proved[s]
  /\ \A d \in net : d.way = "out" /\ d.kind = "Frame" => d.addr \in proved[d.port]

\* A port that has seen its token in the clear keeps the first address it
\* records for good, whatever answers to earlier checks are still on the way.
ExposedIsFixed ==
  [][\A s \in Sides : exposed[s] /\ party[s] # Nobody => party'[s] = party[s]]_vars

\* A released allocation's threads return, although each waits in a read with
\* no timeout.
ThreadsReturn == stop ~> \A s \in Sides : pc[s] = "done"

\* A party that comes to rest is followed: its port ends up with its address,
\* through lost checks, late answers from where it was and periods that pass.
\* One that falls back to the old bind stays where it was first recorded.
Followed ==
  world.lossy = FALSE /\ world.settled \cap Movers = {} =>
    \A s \in Movers, a \in Addrs : <>[](at[s] = a /\ ~stop) => <>[](party[s] = a)
=============================================================================

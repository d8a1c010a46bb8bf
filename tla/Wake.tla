-------------------------------- MODULE Wake ---------------------------------
(***************************************************************************)
(* The poll loop of an Endpoint and the one instant it sleeps until:       *)
(* poll, poll_once and the drivers of crates/fectp/src/endpoint.rs, with   *)
(* every call that brings work in or takes it away.                        *)
(*                                                                         *)
(* An instant is the number of ticks still to go, 0 once it has passed, so *)
(* Tick counts every deadline down.  An Option<Instant> is a set of at     *)
(* most one instant.  What the drivers send is left out; what they         *)
(* reschedule is kept.                                                     *)
(***************************************************************************)
EXTENDS Integers, FiniteSets, FiniteSetsExt

CONSTANTS
    Peers, Connects,   \* handles of sessions, and of handshakes started here
    Probing, Relayed,  \* sessions with a Pmtu, and those through a relay port
    Every, Limit,      \* the keep-alive interval and the peer timeout
    Rtos,              \* values of the retransmission timeout
    MaxRetries, Attempts,
    Research,          \* pmtu::RESEARCH_INTERVAL
    Refresh, Floor,    \* RELAY_REFRESH and REFRESH_FLOOR
    Window,            \* frames in flight to one peer
    Frags              \* bound: fragments a message is split into

ASSUME WakeAssumption ==
    /\ Every \in Nat \ {0} /\ Limit \in Nat \ {0}
    /\ Rtos # {} /\ Rtos \subseteq 1 .. Research   \* MAX_RTO_MS is 5 s, Research 600 s
    /\ MaxRetries \in Nat \ {0} /\ Attempts \in Nat \ {0} /\ Window \in Nat \ {0}
    /\ Research \in Nat \ {0} /\ Refresh \in Nat \ {0} /\ Floor \in 0 .. Refresh
    /\ Probing \subseteq Peers /\ Relayed \subseteq Peers /\ Frags \in Nat

VARIABLES
    next_wake,     \* Endpoint::next_wake
    peers,         \* Endpoint::peers: the time-driven state of each session
    outbound,      \* Endpoint::outbound: ticks to next_attempt, and attempts
    keepalive, peer_timeout,   \* whether each is on
    polling,       \* the sleep of poll_once: its deadline, set by poll
    inside         \* whether poll_once is running

vars == <<next_wake, peers, outbound, keepalive, peer_timeout, polling, inside>>

Ticks == 0 .. Max({Every, Limit, Research, Refresh} \cup Rtos)
Instants == {{}} \cup {{t} : t \in Ticks}
Earliest(instants) == IF instants = {} THEN {} ELSE {Min(instants)}
Since(age, span) == IF age < span THEN span - age ELSE 0
Down(t) == IF t > 0 THEN t - 1 ELSE 0

\* A frame awaiting acknowledgement.  unplanned (history): no wake was planned
\* when it was registered, by drive_queues of the loop or by a send that failed.
Frame == [slot : 1 .. Window, due : Ticks, tries : 0 .. MaxRetries, unplanned : BOOLEAN]

\* What the loop reads of a PeerEntry.  quiet and unheard are the ages of
\* last_sent and last_heard; age is that of the probes on their way if
\* searching, of the end of the last search if not; refresh and hello belong
\* to the Link of a relayed session.
Entry == [spoke : BOOLEAN, quiet : 0 .. Every, unheard : 0 .. Limit,
          flight : SUBSET Frame, queued : 0 .. Frags, rto : Rtos,
          searching : BOOLEAN, age : 0 .. Research,
          refresh : 0 .. Refresh, hello : 0 .. Floor]

Filed(rto) == [spoke |-> FALSE, quiet |-> 0, unheard |-> 0, flight |-> {},
               queued |-> 0, rto |-> rto, searching |-> FALSE, age |-> Research,
               refresh |-> Refresh, hello |-> Floor]

Init ==
    /\ next_wake = {} /\ peers = [p \in {} |-> 0] /\ outbound = [c \in {} |-> 0]
    /\ keepalive = FALSE /\ peer_timeout = FALSE
    /\ polling = {} /\ inside = FALSE

-----------------------------------------------------------------------------
(* What falls due, and when.                                               *)

KeepaliveAt(e) == Since(e.quiet, Every)
TimeoutAt(e) == Since(e.unheard, Limit)
ProbeAt(e) == IF e.searching THEN Since(e.age, e.rto) ELSE Since(e.age, Research)
RetransmitAt(e) == {f.due : f \in e.flight}

\* next_keepalive, over every peer of the table.
NextKeepalive(ps, on) == IF on THEN {KeepaliveAt(ps[p]) : p \in DOMAIN ps} ELSE {}

\* next_liveness_check
NextLivenessCheck(ps, on) == IF on THEN {TimeoutAt(ps[p]) : p \in DOMAIN ps} ELSE {}

\* earliest_deadline
EarliestDeadline(ps, out, ka, to) ==
    Earliest((UNION {RetransmitAt(ps[p]) : p \in DOMAIN ps})
             \cup {out[c].next_attempt : c \in DOMAIN out}
             \cup {ProbeAt(ps[p]) : p \in {q \in DOMAIN ps \cap Probing : ps[q].spoke}}
             \cup NextKeepalive(ps, ka) \cup NextLivenessCheck(ps, to))

\* Mutant: a wake already planned is kept, however late.
WakeAtLater(wake, at) == IF wake = {} THEN {at} ELSE wake

\* wake_at only ever brings the wake forward.
WakeAt(wake, at) == Earliest(wake \cup {at})

-----------------------------------------------------------------------------
(* The drivers, each on one entry.                                         *)

\* Peer::drive_retransmits and what the endpoint does beside it.  A frame that
\* is due goes out again, or is given up on when its retries are spent.  A
\* large one has the path checked, and through a relay a resend brings the
\* next hello forward.
Retransmit(e, large) ==
    LET due == {f \in e.flight : f.due = 0}
        again == {f \in due : f.tries < MaxRetries}
    IN [e EXCEPT
         !.flight = (@ \ due) \cup 
                     {[f EXCEPT !.due = Max(Rtos), !.tries = @ + 1, !.unplanned = FALSE]
                        : f \in again},
         !.quiet = IF again = {} THEN @ ELSE 0,
         !.age = IF again # {} /\ large /\ ~e.searching THEN Research ELSE @,
         !.refresh = IF again = {} THEN @ ELSE Min({@, Since(e.hello, Floor)})]

\* Mutant: a keep-alive does not count as something sent.
KeepAliveUncounted(e) == e

\* drive_keepalives
KeepAlive(e) ==
    IF keepalive /\ e.spoke /\ KeepaliveAt(e) = 0 THEN [e EXCEPT !.quiet = 0] ELSE e

\* drive_pmtu: the probes due go out, again or for the first time, or the
\* search they belong to is over.
DrivePmtu(e, over) ==
    IF e.spoke /\ ProbeAt(e) = 0
    THEN [e EXCEPT !.age = 0, !.searching = ~over, !.quiet = IF over THEN @ ELSE 0]
    ELSE e

Free(e) == 1 .. Window \ {f.slot : f \in e.flight}

\* Frames registered in some free slots.
Register(e, slots, unplanned) ==
    [e EXCEPT !.flight = @ \cup [slot : slots, due : {e.rto}, tries : {0}, unplanned : {unplanned}],
              !.quiet = IF slots = {} THEN @ ELSE 0]

\* Peer::drive_queue fills the free part of the window with fragments.
DriveQueue(e, unplanned) ==
    LET slots == {s \in Free(e) : Cardinality({r \in Free(e) : r < s}) < e.queued}
    IN Register([e EXCEPT !.queued = @ - Cardinality(slots)], slots, unplanned)

DriveQueues(ps, unplanned) == [p \in DOMAIN ps |-> DriveQueue(ps[p], unplanned)]

\* drive_handshakes: the openings due go out again, until one has spent its
\* attempts and the time they would have taken (how long that is, is left
\* open); its failure ends the pass with the rest as they are.
DriveHandshakes(resent, failed) ==
    [c \in DOMAIN outbound \ failed |->
        IF c \in resent
        THEN [next_attempt |-> Max(Rtos),
              attempts |-> Min({outbound[c].attempts + 1, Attempts})]
        ELSE outbound[c]]

DueHandshakes == {c \in DOMAIN outbound : outbound[c].next_attempt = 0}
Spent == {c \in DueHandshakes : outbound[c].attempts = Attempts}

-----------------------------------------------------------------------------
(* The loop.                                                               *)

\* The top of poll, called with no timeout: hellos that are due go out, and
\* poll_once is entered with the next one as its deadline.
PollEnters ==
    LET greet(p) == IF p \in Relayed /\ peers[p].refresh = 0
                    THEN [peers[p] EXCEPT !.refresh = Refresh, !.hello = 0]
                    ELSE peers[p]
    IN
    /\ ~inside
    /\ inside' = TRUE
    /\ peers' = [p \in DOMAIN peers |-> greet(p)]
    /\ polling' = Earliest({peers'[p].refresh : p \in DOMAIN peers \cap Relayed})
    /\ UNCHANGED <<next_wake, outbound, keepalive, peer_timeout>>

\* poll_once comes back with an event, or because its deadline has passed.
PollLeaves ==
    /\ inside
    /\ inside' = FALSE
    /\ UNCHANGED <<next_wake, peers, outbound, keepalive, peer_timeout, polling>>

\* A pass in which something is due: every driver runs, in order, and the wake
\* is computed afresh.  Fragments are fed after that.
DrivePass ==
    /\ inside /\ next_wake = {0}
    /\ \E large, over \in BOOLEAN :
       LET lost == {p \in DOMAIN peers : peer_timeout /\ TimeoutAt(peers[p]) = 0}
           driven == [p \in DOMAIN peers \ lost |->
                        DrivePmtu(KeepAlive(Retransmit(peers[p], large)), over)]
       IN
       /\ outbound' = DriveHandshakes(DueHandshakes, {})
       /\ next_wake' = EarliestDeadline(driven, outbound', keepalive, peer_timeout)
       /\ peers' = DriveQueues(driven, TRUE)
    /\ UNCHANGED <<keepalive, peer_timeout, polling, inside>>

\* A pass that ends at a handshake given up on: what comes after it in the
\* pass waits for the next one, and so does the wake.
ConnectFailed ==
    /\ inside /\ next_wake = {0}
    /\ \E large \in BOOLEAN, c \in Spent, resent \in SUBSET DueHandshakes :
          /\ peers' = [p \in DOMAIN peers |-> Retransmit(peers[p], large)]
          /\ outbound' = DriveHandshakes(resent, {c})
    /\ inside' = FALSE
    /\ UNCHANGED <<next_wake, keepalive, peer_timeout, polling>>

\* A pass that an error of the socket ends, in drive_retransmits or in
\* drive_keepalives, with some of the peers driven.
PassFails ==
    /\ inside /\ next_wake = {0}
    /\ \E reached \in SUBSET DOMAIN peers :
          \/ /\ peers' = [p \in DOMAIN peers |->
                            IF p \in reached THEN Retransmit(peers[p], FALSE) ELSE peers[p]]
             /\ UNCHANGED outbound
          \/ /\ peers' = [p \in DOMAIN peers |->
                            LET e == Retransmit(peers[p], FALSE)
                            IN IF p \in reached THEN KeepAlive(e) ELSE e]
             /\ outbound' = DriveHandshakes(DueHandshakes, {})
    /\ inside' = FALSE
    /\ UNCHANGED <<next_wake, keepalive, peer_timeout, polling>>

\* A pass in which nothing is due, after a datagram: only the queues.
QueuePass ==
    /\ inside /\ next_wake # {0}
    /\ \E p \in DOMAIN peers : peers[p].queued > 0
    /\ peers' = DriveQueues(peers, TRUE)
    /\ UNCHANGED <<next_wake, outbound, keepalive, peer_timeout, polling, inside>>

-----------------------------------------------------------------------------
(* What arrives.                                                           *)

\* What an authenticated frame does to its peer's entry.  It may acknowledge
\* frames (and so change the timeout), draw an answer, or end a search.
Heard(e, acked, rto, answered, ended) ==
    [e EXCEPT !.spoke = TRUE, !.unheard = 0, !.rto = rto,
              !.flight = @ \ acked, !.quiet = IF answered THEN 0 ELSE @,
              !.age = IF ended THEN 0 ELSE @, !.searching = @ /\ ~ended]

\* deliver
Deliver(p) ==
    /\ inside
    /\ \E acked \in SUBSET peers[p].flight, rto \in Rtos, answered, ended \in BOOLEAN :
          /\ acked = {} => rto = peers[p].rto
          /\ ended => peers[p].searching
          /\ peers' = [peers EXCEPT ![p] = Heard(peers[p], acked, rto, answered, ended)]
    /\ next_wake' = IF ~peers[p].spoke /\ p \in Probing
                    THEN WakeAt(next_wake, 0) ELSE next_wake
    /\ UNCHANGED <<outbound, keepalive, peer_timeout, polling, inside>>

\* settle_probe moves a session: its search starts over.
Moved(p) ==
    /\ inside
    /\ peers' = [peers EXCEPT ![p].searching = FALSE, ![p].age = Research,
                              ![p].spoke = TRUE, ![p].unheard = 0, ![p].rto = Max(Rtos)]
    /\ next_wake' = WakeAt(next_wake, 0)
    /\ UNCHANGED <<outbound, keepalive, peer_timeout, polling, inside>>

\* file, which makes its own keep-alive and timeout deadlines part of the wake.
File(p, rto) ==
    /\ peers' = [q \in DOMAIN peers \cup {p} |-> IF q = p THEN Filed(rto) ELSE peers[q]]
    /\ next_wake' = EarliestDeadline(peers', outbound', keepalive, peer_timeout)

\* An opening frame is answered, or a reply to one of ours completes it; either
\* is an event, which poll_once returns with.
Accept(p) ==
    /\ inside
    /\ \/ UNCHANGED outbound
       \/ \E c \in DOMAIN outbound :
             outbound' = [d \in DOMAIN outbound \ {c} |-> outbound[d]]
    /\ File(p, Max(Rtos))
    /\ inside' = FALSE
    /\ UNCHANGED <<keepalive, peer_timeout, polling>>

-----------------------------------------------------------------------------
(* The application, between two polls.                                     *)

\* connect_and_send
Connect(c) ==
    /\ ~inside /\ c \notin DOMAIN outbound
    /\ outbound' = [d \in DOMAIN outbound \cup {c} |->
                      IF d = c THEN [next_attempt |-> Max(Rtos), attempts |-> 1]
                      ELSE outbound[d]]
    /\ next_wake' = WakeAt(next_wake, Max(Rtos))
    /\ UNCHANGED <<peers, keepalive, peer_timeout, polling, inside>>

\* send_reliable for a payload that fits one frame.
SendReliable(p) ==
    /\ ~inside /\ Free(peers[p]) # {}
    /\ peers' = [peers EXCEPT ![p] = Register(@, {Min(Free(@))}, FALSE)]
    /\ next_wake' = WakeAt(next_wake, Min(RetransmitAt(peers'[p])))
    /\ UNCHANGED <<outbound, keepalive, peer_timeout, polling, inside>>

\* The same, when sealing or the socket fails after the frame was registered.
SendFails(p) ==
    /\ ~inside /\ Free(peers[p]) # {}
    /\ peers' = [peers EXCEPT ![p] =
                   [Register(@, {Min(Free(@))}, TRUE) EXCEPT !.quiet = peers[p].quiet]]
    /\ UNCHANGED <<next_wake, outbound, keepalive, peer_timeout, polling, inside>>

\* send_reliable for a larger one: queued, started and rescanned.
SendFragmented(p) ==
    /\ ~inside /\ peers[p].queued = 0 /\ Frags > 0
    /\ peers' = DriveQueues([peers EXCEPT ![p].queued = Frags], FALSE)
    /\ next_wake' = EarliestDeadline(peers', outbound, keepalive, peer_timeout)
    /\ UNCHANGED <<outbound, keepalive, peer_timeout, polling, inside>>

\* set_keepalive
SetKeepalive ==
    /\ ~inside
    /\ keepalive' = ~keepalive
    /\ next_wake' = EarliestDeadline(peers, outbound, keepalive', peer_timeout)
    /\ UNCHANGED <<peers, outbound, peer_timeout, polling, inside>>

\* set_peer_timeout
SetPeerTimeout ==
    /\ ~inside
    /\ peer_timeout' = ~peer_timeout
    /\ next_wake' = EarliestDeadline(peers, outbound, keepalive, peer_timeout')
    /\ UNCHANGED <<peers, outbound, keepalive, polling, inside>>

\* disconnect: what the peer or the handshake had pending goes with it.
Disconnect ==
    /\ ~inside
    /\ \/ \E c \in DOMAIN outbound :
             /\ outbound' = [d \in DOMAIN outbound \ {c} |-> outbound[d]]
             /\ UNCHANGED peers
       \/ \E p \in DOMAIN peers :
             /\ peers' = [q \in DOMAIN peers \ {p} |-> peers[q]]
             /\ UNCHANGED outbound
    /\ UNCHANGED <<next_wake, keepalive, peer_timeout, polling, inside>>

\* Time passes, whether or not the application polls.
Tick ==
    /\ peers' = [p \in DOMAIN peers |-> [peers[p] EXCEPT
          !.quiet = Min({@ + 1, Every}), !.unheard = Min({@ + 1, Limit}),
          !.flight = {[f EXCEPT !.due = Down(@)] : f \in @},
          !.age = Min({@ + 1, Research}),
          !.refresh = Down(@), !.hello = Min({@ + 1, Floor})]]
    /\ outbound' = [c \in DOMAIN outbound |->
                      [outbound[c] EXCEPT !.next_attempt = Down(@)]]
    /\ next_wake' = {Down(t) : t \in next_wake}
    /\ polling' = {Down(t) : t \in polling}
    /\ UNCHANGED <<keepalive, peer_timeout, inside>>

Next ==
    \/ PollEnters \/ PollLeaves \/ DrivePass \/ ConnectFailed \/ PassFails \/ QueuePass
    \/ \E p \in DOMAIN peers : Deliver(p) \/ Moved(p)
    \/ \E p \in Peers \ DOMAIN peers : Accept(p)
    \/ \E c \in Connects : Connect(c)
    \/ \E p \in DOMAIN peers : SendReliable(p) \/ SendFails(p) \/ SendFragmented(p)
    \/ SetKeepalive \/ SetPeerTimeout \/ Disconnect \/ Tick

Spec == Init /\ [][Next]_vars

-----------------------------------------------------------------------------
\* Every deadline is an instant ahead or passed, and an optional one is at most
\* one.
TypeOK ==
    /\ next_wake \in Instants /\ polling \in Instants
    /\ DOMAIN peers \subseteq Peers /\ \A p \in DOMAIN peers : peers[p] \in Entry
    /\ DOMAIN outbound \subseteq Connects
    /\ \A c \in DOMAIN outbound :
          outbound[c] \in [next_attempt : Ticks, attempts : 1 .. Attempts]
    /\ keepalive \in BOOLEAN /\ peer_timeout \in BOOLEAN /\ inside \in BOOLEAN

\* The wake is no later than at.
Covers(at) == \E t \in next_wake : t <= at

\* The loop never sleeps past work it has: after any sequence of calls, frames
\* and passes, those cut short included, next_wake is no later than any
\* retransmission (of a frame a wake was planned for), handshake, keep-alive
\* or peer timeout, and no later than a path search needs at the longest timeout
\* the session has had (wake_at, rescan_wake and earliest_deadline).
WakeCovers ==
    /\ \A c \in DOMAIN outbound : Covers(outbound[c].next_attempt)
    /\ \A p \in DOMAIN peers :
          LET e == peers[p] IN
          /\ \A f \in e.flight : f.unplanned \/ Covers(f.due)
          /\ peer_timeout => Covers(TimeoutAt(e))
          /\ keepalive /\ e.spoke => Covers(KeepaliveAt(e))
          /\ e.spoke /\ p \in Probing =>
                Covers(IF e.searching THEN Since(e.age, Max(Rtos)) ELSE ProbeAt(e))

\* A peer no pass will find settled: one that never spoke gets no keep-alive.
Overdue(p) == keepalive /\ ~peers[p].spoke /\ KeepaliveAt(peers[p]) = 0

\* A pass settles what was due: it leaves the next wake ahead of it, unless a
\* peer that never spoke is owed a keep-alive (each driver of poll_once
\* reschedules what it drives).
PassSettles ==
    [][DrivePass => 0 \notin next_wake' \/ \E p \in DOMAIN peers : Overdue(p)]_vars

=============================================================================

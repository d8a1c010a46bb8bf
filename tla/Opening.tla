------------------------------ MODULE Opening ------------------------------
(***************************************************************************)
(* When Endpoint sends its opening frames: the schedule of a handshake it  *)
(* started, the table of what each address has measured, and giving up.    *)
(* What is in the frames is in Handshakes; that the poll loop comes round  *)
(* in time is in Wake.                                                     *)
(*                                                                         *)
(* Times are milliseconds since the first frame of the handshake they      *)
(* belong to.  The network answers a frame after the delay of its path, or *)
(* loses it; the endpoint reads and drives with a lag.  A pass drives the  *)
(* handshakes before it reads.                                             *)
(***************************************************************************)
EXTENDS Rto, FiniteSetsExt, SequencesExt

CONSTANTS
    Handles, Addrs,
    RetryMs,            \* HANDSHAKE_RETRY_MS
    MaxMeasured,        \* MAX_MEASURED_PATHS
    Settings,           \* values given to set_handshake_attempts
    Delays,             \* round trips of the paths
    Lags,               \* how late the endpoint may be, 0 included
    MaxChanges, MaxLost \* bounds: changes of a path, frames lost

OpeningAssumption ==
    /\ RetryMs \in Nat \ {0} /\ MaxMeasured \in Nat \ {0}
    /\ Settings \subseteq 0..255 /\ 0 \in Lags

VARIABLES
    delay,      \* of each path
    paths,      \* the path table, oldest first
    outbound,   \* the handshakes awaiting a reply
    limit,      \* handshake_attempts
    resends,    \* history: how many handshakes in a row were resent on a steady path
    failed,     \* history: the handshake given up on, until the next
    changes, lost

vars == <<delay, paths, outbound, limit, resends, failed, changes, lost>>
network == <<delay, changes>>

None == <<>>
Latest == Max(Lags)

-----------------------------------------------------------------------------
(* The path table.                                                         *)

Unknown(a) == [addr |-> a, rto |-> NewRto, floor |-> None]
Recorded(a) == \E i \in DOMAIN paths : paths[i].addr = a

\* What is known of an address.
Path(a) == IF Recorded(a) THEN CHOOSE p \in ToSet(paths) : p.addr = a ELSE Unknown(a)

\* path_mut and what is then written through it: the entry of this address,
\* the oldest making room for a new one.
Put(a, p) ==
    IF Recorded(a) THEN [i \in DOMAIN paths |-> IF paths[i].addr = a THEN p ELSE paths[i]]
    ELSE Append(IF Len(paths) >= MaxMeasured THEN Tail(paths) ELSE paths, p)

\* measure_path
Measure(a, rtt) == Put(a, [addr |-> a, rto |-> Sample(Path(a).rto, rtt), floor |-> None])

\* Mutant: every resend is taken for a slow path.
LearnSlow(a, sinceFirst, sinceLast) ==
    Put(a, [Path(a) EXCEPT !.floor = <<Min({2 * sinceFirst, MaxRto})>>])

\* learn_from_resent
LearnFromResent(a, sinceFirst, sinceLast) ==
    LET rto == Path(a).rto
        explained == rto # NewRto /\ sinceLast <= Current(rto)
    IN Put(a, [Path(a) EXCEPT
                 !.floor = IF explained THEN None ELSE <<Min({2 * sinceFirst, MaxRto})>>])

\* handshake_delay
HandshakeDelay(a, attempts) ==
    LET p == Path(a)
        ordinary == IF p.rto = NewRto THEN RetryMs * attempts
                    ELSE WithBackoff(p.rto, Max({attempts - 1, 0}))
    IN IF p.floor # None /\ attempts <= 1 THEN Max({ordinary, p.floor[1]}) ELSE ordinary

\* handshake_budget
HandshakeBudget(attempts) == (RetryMs * attempts * (attempts + 1)) \div 2

-----------------------------------------------------------------------------
(* Handshakes.                                                             *)

\* send_datagram at time t: the replies then under way, and the loss counted.
Sendings(a, t) ==
    {[replies |-> {t + delay[a]}, lost |-> lost]} \cup
    (IF lost < MaxLost THEN {[replies |-> {}, lost |-> lost + 1]} ELSE {})

Init ==
    /\ delay \in [Addrs -> Delays]
    /\ paths = <<>>
    /\ outbound = [h \in Handles |-> None]
    /\ limit \in {Max({n, 1}) : n \in Settings}
    /\ resends = [a \in Addrs |-> 0]
    /\ failed = None
    /\ changes = 0 /\ lost = 0

\* connect_and_send
Connect(h, a) ==
    /\ outbound[h] = None
    /\ \E s \in Sendings(a, 0) :
        /\ outbound' = [outbound EXCEPT ![h] =
              [addr |-> a, attempts |-> 1, last |-> 0, next |-> HandshakeDelay(a, 1),
               replies |-> s.replies]]
        /\ lost' = s.lost
    /\ failed' = None
    /\ UNCHANGED <<network, paths, limit, resends>>

\* drive_handshakes, for one that is due, at time t.  Nothing has been waiting
\* for longer than the lag.
IsDue(o, t) == t \in {o.next + lag : lag \in Lags} /\ \A r \in o.replies : t <= r + Latest
IsSpent(o, t) == o.attempts >= limit /\ t >= HandshakeBudget(limit)

\* The opening frame goes out again.
Resend(h, t) ==
    LET o == outbound[h]
        attempts == Min({o.attempts + 1, 255})
    IN
    /\ IsDue(o, t) /\ ~IsSpent(o, t)
    /\ \E s \in Sendings(o.addr, t) :
        /\ outbound' = [outbound EXCEPT ![h] =
              [o EXCEPT !.attempts = attempts, !.last = t,
                        !.next = t + HandshakeDelay(o.addr, attempts),
                        !.replies = @ \cup s.replies]]
        /\ lost' = s.lost
    /\ UNCHANGED <<network, paths, limit, resends, failed>>

\* Event::ConnectFailed
GiveUp(h, t) ==
    LET o == outbound[h] IN
    /\ IsDue(o, t) /\ IsSpent(o, t)
    /\ outbound' = [outbound EXCEPT ![h] = None]
    /\ failed' = [sent |-> o.attempts, spent |-> t, limit |-> limit]
    /\ UNCHANGED <<network, paths, limit, resends, lost>>

DriveHandshakes(h) ==
    /\ outbound[h] # None
    /\ \E lag \in Lags : LET t == outbound[h].next + lag IN Resend(h, t) \/ GiveUp(h, t)

\* What complete_outbound records of a reply read at time t.
Learned(o, t) ==
    IF o.attempts = 1 THEN Measure(o.addr, t)
    ELSE LearnFromResent(o.addr, t, t - o.last)

\* complete_outbound: the first reply in the socket, after the pass that drove
\* the handshake last.
CompleteOutbound(h) ==
    LET o == outbound[h] IN
    /\ o # None /\ o.replies # {}
    /\ \E t \in {Min(o.replies) + lag : lag \in Lags} \cup {o.last} :
        /\ t >= o.last /\ t >= Min(o.replies) /\ t <= o.next + Latest
        /\ paths' = Learned(o, t)
    /\ outbound' = [outbound EXCEPT ![h] = None]
    /\ resends' = [resends EXCEPT ![o.addr] = IF o.attempts = 1 THEN 0 ELSE Min({@ + 1, 2})]
    /\ UNCHANGED <<network, limit, failed, lost>>

\* disconnect of a handle still connecting
Disconnect(h) ==
    /\ outbound[h] # None
    /\ outbound' = [outbound EXCEPT ![h] = None]
    /\ UNCHANGED <<network, paths, limit, resends, failed, lost>>

\* set_handshake_attempts
SetHandshakeAttempts(n) ==
    /\ limit' = Max({n, 1})
    /\ UNCHANGED <<network, paths, outbound, resends, failed, lost>>

\* The path to an address gets faster or slower, between handshakes.
ChangePath(a, d) ==
    /\ changes < MaxChanges /\ d # delay[a]
    /\ \A h \in Handles : outbound[h] = None
    /\ delay' = [delay EXCEPT ![a] = d]
    /\ changes' = changes + 1
    /\ resends' = [resends EXCEPT ![a] = 0]
    /\ UNCHANGED <<paths, outbound, limit, failed, lost>>

Next ==
    \/ \E h \in Handles :
        \/ \E a \in Addrs : Connect(h, a)
        \/ DriveHandshakes(h) \/ CompleteOutbound(h) \/ Disconnect(h)
    \/ \E n \in Settings : SetHandshakeAttempts(n)
    \/ \E a \in Addrs, d \in Delays : ChangePath(a, d)

Spec == Init /\ [][Next]_vars

-----------------------------------------------------------------------------

\* Type correctness: among others, no address has two entries in the table.
TypeOK ==
    /\ delay \in [Addrs -> Delays]
    /\ Len(paths) <= MaxMeasured
    /\ \A i, j \in DOMAIN paths : paths[i].addr = paths[j].addr => i = j
    /\ \A p \in ToSet(paths) :
        /\ p.addr \in Addrs
        /\ p.floor # None => p.floor[1] \in 0..MaxRto
    /\ \A h \in Handles : outbound[h] # None =>
        /\ outbound[h].attempts \in 1..255
        /\ outbound[h].last < outbound[h].next
    /\ limit \in 1..255

\* A lost frame does not look like a slow path: once an address is measured, a
\* handshake that was resent only because of a loss leaves no floor behind to
\* lengthen the next one.
LossIsNotSlowness ==
    \A a \in Addrs : Path(a).rto # NewRto => Path(a).floor = None

\* D79: on a path too slow for the cold schedule, on which nothing is lost, one
\* handshake is resent and the next is measured.
SlowPathIsMeasured ==
    \A a \in Addrs : resends[a] >= 2 => Path(a).rto # NewRto
=============================================================================

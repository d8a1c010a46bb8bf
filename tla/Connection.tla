----------------------------- MODULE Connection ------------------------------
(***************************************************************************)
(* Connection of crates/fectp/src/lib.rs: one session behind two locks, so *)
(* that one thread may send while another is blocked reading.  Everything  *)
(* but the receive buffer is in Core; the blocking read holds the Reader   *)
(* lock only.  No section of code holds the Core lock while it waits for   *)
(* anything, so a section is one step here, and the steps of several       *)
(* threads interleave between sections.                                    *)
(*                                                                         *)
(* The code takes no time and the clock moves only when every thread       *)
(* waits: what is late is late because the code waits, not because of the  *)
(* scheduler.  A frame handed to the socket may never arrive, and the peer *)
(* acknowledges what it likes of what was sent.  Of the queue of messages, *)
(* the retransmission timer and the search for a frame size this module    *)
(* keeps what wakes the threads; Messages, Reliability and Pmtu have the   *)
(* rest.                                                                   *)
(***************************************************************************)
EXTENDS Integers, Sequences, FiniteSets, FiniteSetsExt

CONSTANTS
    Thread,
    None,          \* no thread, no frame
    Uses,          \* how the connection may be used: records
                   \*   does: the calls each thread makes
                   \*   faults: "send" (the socket refuses a datagram), "short"
                   \*      (a buffer given to recv is too small)
                   \*   others: what the peer sends besides data and acknowledge-
                   \*      ments: "answer" (to a path challenge), "junk"
                   \*   searches: whether it looks for a larger frame size
                   \*   timeouts, keepalives: what set_read_timeout and
                   \*      set_keepalive are given
    Rto,           \* retransmission timeout, in milliseconds
    MaxRetries,    \* RetransmitQueue::max_retries
    Window,        \* frames the congestion window admits
    MaxQueued,     \* MAX_QUEUED
    FlushTimeout,  \* the timeout passed to flush
    MaxTime,       \* bound: milliseconds
    MaxIds,        \* bound: reliable frames registered
    MaxData,       \* bound: datagrams with data the peer sends
    MaxSocket      \* bound: datagrams waiting in the socket

\* No deadline: later than every other.
Never == 99

ASSUME ConnectionAssumption ==
    /\ {Rto, MaxRetries, Window, MaxQueued, FlushTimeout, MaxTime} \subseteq Nat \ {0}
    /\ {MaxIds, MaxData, MaxSocket} \subseteq Nat
    /\ Uses \subseteq
         [does : [Thread -> SUBSET {"send", "single", "large", "recv", "flush", "set"}],
          faults : SUBSET {"send", "short"}, others : SUBSET {"answer", "junk"},
          searches : BOOLEAN, timeouts : SUBSET (1 .. MaxTime \cup {Never}),
          keepalives : SUBSET (1 .. MaxTime \cup {Never})]
    /\ MaxTime + Rto + FlushTimeout < Never

VARIABLES
    use,          \* the use being made of it, which does not change
    now,          \* Core::now_ms
    flight,       \* RetransmitQueue::slots: records [id, due, retries]
    pending,      \* Peer::pending, identifiers with a payload to resend
    queue,        \* Peer::queue: records [left, out, lost]
    abandoned,    \* Peer::abandoned
    count,        \* Peer::abandoned_count
    lastId,       \* the last identifier registered
    inbox,        \* Core::inbox
    readTimeout,  \* Core::read_timeout
    keepalive,    \* Core::keepalive
    lastSent,     \* Core::last_sent_ms
    spoke,        \* Core::spoke
    probe,        \* when Core::pmtu next has a probe due
    reader,       \* who holds the Reader lock
    socket,       \* datagrams in the socket's receive buffer
    th,           \* th[t]: where thread t is, and its local variables
    onWire,       \* history: identifiers of frames the socket accepted
    gaveUp,       \* history: identifiers given up on
    arrived,      \* history: datagrams with data the peer has sent
    told,         \* history: of those, the ones acknowledged to the peer
    returned,     \* history: of those, what recv returned, in order
    dropped       \* history: of those, taken off the socket by a call that failed

coreVars == <<flight, pending, queue, abandoned, count, lastId, lastSent, probe, onWire, gaveUp>>
settings == <<readTimeout, keepalive>>
inVars == <<inbox, spoke, socket, arrived, told, returned, dropped>>
vars == <<use, now, coreVars, settings, inVars, reader, th>>

Idle == [pc |-> "idle", call |-> "none", until |-> Never, wait |-> Never,
         got |-> None, since |-> 0, ok |-> TRUE]
Data(d) == [kind |-> "data", of |-> d]
Ack(id) == [kind |-> "ack", of |-> id]
Other(k) == [kind |-> k, of |-> 0]

Init ==
    /\ use \in Uses /\ now = 0
    /\ flight = {} /\ pending = {} /\ queue = <<>> /\ abandoned = {} /\ count = 0
    /\ lastId = 0 /\ lastSent = 0 /\ inbox = <<>> /\ spoke = FALSE
    /\ probe = IF use.searches THEN 0 ELSE Never
    /\ readTimeout \in use.timeouts /\ keepalive \in use.keepalives
    /\ reader = None /\ socket = <<>>
    /\ th = [t \in Thread |-> Idle]
    /\ onWire = {} /\ gaveUp = {} /\ arrived = 0
    /\ told = {} /\ returned = <<>> /\ dropped = {}

At(t, pc) == th[t].pc = pc
Goto(t, pc) == th' = [th EXCEPT ![t].pc = pc]
Return(t, ok) == th' = [th EXCEPT ![t] = [Idle EXCEPT !.ok = ok]]
Outcomes == {TRUE, "send" \notin use.faults}
Later(at, ms) == IF ms = Never THEN Never ELSE at + ms
Ids(frames) == {f.id : f \in frames}
InFlight == Cardinality(flight)

\* The bound on what is sent: k more frames, the queued ones counted.
Allowed(k) == lastId + 2 * Len(queue) + k <= MaxIds

-----------------------------------------------------------------------------
\* The sending calls.

\* Core::transmit: what the socket took is the last thing sent.
Transmit(ok) == lastSent' = IF ok THEN now ELSE lastSent

\* Connection::send: no retransmission, one datagram.
Send(t) ==
    /\ At(t, "idle") /\ "send" \in use.does[t]
    /\ \E ok \in Outcomes : Transmit(ok) /\ Return(t, ok)
    /\ UNCHANGED <<now, flight, pending, queue, abandoned, count, lastId, probe, onWire,
                   gaveUp, settings, inVars, reader>>

\* send_reliable, of what fits in a frame: send_one_reliable.  The identifier
\* is registered before the frame is sealed and sent, and its payload is kept
\* only after.
SendSingle(t) ==
    LET id == lastId + 1 IN
    /\ At(t, "idle") /\ "single" \in use.does[t]
    /\ InFlight < Window /\ Allowed(1)
    /\ lastId' = id
    /\ flight' = flight \cup {[id |-> id, due |-> now + Rto, retries |-> 0]}
    /\ \E ok \in Outcomes :
          /\ Return(t, ok)
          /\ Transmit(ok)
          /\ pending' = pending \cup (IF ok THEN {id} ELSE {})
          /\ onWire' = onWire \cup (IF ok THEN {id} ELSE {})
    /\ UNCHANGED <<now, queue, abandoned, count, probe, gaveUp, settings, inVars, reader>>

\* send_reliable, of a longer message: queue_message, and drive_queue in a
\* second section.
SendLarge(t) ==
    /\ At(t, "idle") /\ "large" \in use.does[t]
    /\ Len(queue) < MaxQueued /\ Allowed(2)
    /\ queue' = Append(queue, [left |-> 2, out |-> {}, lost |-> FALSE])
    /\ Goto(t, "drive")
    /\ UNCHANGED <<now, flight, pending, abandoned, count, lastId, lastSent, probe, onWire,
                   gaveUp, settings, inVars, reader>>

\* Peer::drive_queue: what was given up on loses the first message; it is fed
\* to the free part of the window; finished or lost, it leaves the queue.  If
\* the socket refuses a fragment the call stops there (ok is FALSE), with the
\* fragment registered and still to be fed.
DriveQueue(ok) ==
    IF queue = <<>>
    THEN /\ ok
         /\ abandoned' = {}
         /\ UNCHANGED <<flight, pending, queue, lastId, lastSent, onWire>>
    ELSE LET front == Head(queue)
             lost == front.lost \/ front.out \cap abandoned # {}
             room == IF InFlight < Window THEN Window - InFlight ELSE 0
             most == IF lost THEN 0 ELSE Min({front.left, room})
         IN
         \E fed \in 0 .. most :
         LET new == lastId + 1 .. lastId + fed
             registered == lastId + 1 .. lastId + fed + (IF ok THEN 0 ELSE 1)
             left == [left |-> front.left - fed, lost |-> lost,
                      out |-> IF ok THEN (front.out \cup new) \cap (pending \cup new)
                              ELSE (front.out \ abandoned) \cup new]
         IN
         /\ ok <=> fed = most
         /\ lastId' = lastId + Cardinality(registered)
         /\ flight' = flight \cup {[id |-> i, due |-> now + Rto, retries |-> 0] : i \in registered}
         /\ pending' = pending \cup new
         /\ onWire' = onWire \cup new
         /\ abandoned' = {}
         /\ lastSent' = IF fed > 0 THEN now ELSE lastSent
         /\ queue' = IF ok /\ (lost \/ (left.left = 0 /\ left.out = {}))
                     THEN Tail(queue) ELSE <<left>> \o Tail(queue)

\* The second section of send_reliable.
SendLargeDrive(t) ==
    /\ At(t, "drive")
    /\ \E ok \in Outcomes : DriveQueue(ok) /\ Return(t, ok)
    /\ UNCHANGED <<now, count, probe, gaveUp, settings, inVars, reader>>

SetReadTimeout(t) ==
    /\ At(t, "idle") /\ "set" \in use.does[t]
    /\ \E ms \in use.timeouts : readTimeout' = ms
    /\ UNCHANGED <<now, coreVars, keepalive, inVars, reader, th>>

\* set_keepalive counts from the call.  The intervals are already raised
\* to MIN_KEEPALIVE.
SetKeepalive(t) ==
    /\ At(t, "idle") /\ "set" \in use.does[t]
    /\ \E ms \in use.keepalives : keepalive' = ms
    /\ lastSent' = now
    /\ UNCHANGED <<now, flight, pending, queue, abandoned, count, lastId, probe, onWire,
                   gaveUp, readTimeout, inVars, reader, th>>
-----------------------------------------------------------------------------
\* recv and flush, up to the pump.

\* recv: what a flush put in the inbox comes first.
Recv(t) ==
    /\ At(t, "idle") /\ "recv" \in use.does[t]
    /\ IF inbox = <<>>
       THEN /\ th' = [th EXCEPT ![t] = [Idle EXCEPT !.call = "recv", !.pc = "deadline"]]
            /\ UNCHANGED inbox
       ELSE /\ th' = [th EXCEPT ![t] = [Idle EXCEPT !.call = "recv", !.pc = "hand over",
                                                   !.got = Data(Head(inbox))]]
            /\ inbox' = Tail(inbox)
    /\ UNCHANGED <<now, coreVars, settings, spoke, socket, arrived, told, returned, dropped, reader>>

\* deliver, into the buffer the caller gave: it fits, or the call fails.
Deliver(t, d) ==
    \E fits \in {TRUE, "short" \notin use.faults} :
        /\ returned' = IF fits THEN Append(returned, d) ELSE returned
        /\ dropped' = IF fits THEN dropped ELSE dropped \cup {d}
        /\ Return(t, fits)

\* recv borrows the reader's scratch space to hand over what was in the inbox.
HandOver(t) ==
    /\ At(t, "hand over") /\ reader = None
    /\ Deliver(t, th[t].got.of)
    /\ UNCHANGED <<now, coreVars, settings, inbox, spoke, socket, arrived, told, reader>>

RecvDeadline(t) ==
    /\ At(t, "deadline")
    /\ th' = [th EXCEPT ![t].pc = "pump", ![t].until = Later(now, readTimeout)]
    /\ UNCHANGED <<now, coreVars, settings, inVars, reader>>

\* flush starts by resetting abandoned_count.
Flush(t) ==
    /\ At(t, "idle") /\ "flush" \in use.does[t]
    /\ count' = 0
    /\ th' = [th EXCEPT ![t] = [Idle EXCEPT !.call = "flush", !.pc = "feed",
                    !.until = now + FlushTimeout, !.since = Cardinality(gaveUp)]]
    /\ UNCHANGED <<now, flight, pending, queue, abandoned, lastId, lastSent, probe, onWire,
                   gaveUp, settings, inVars, reader>>

\* The top of flush's loop, and the top of pump: drive_queue.
Feed(t) ==
    /\ th[t].pc \in {"feed", "pump"}
    /\ \E ok \in Outcomes :
          /\ DriveQueue(ok)
          /\ IF ok THEN Goto(t, IF At(t, "feed") THEN "test" ELSE "sleep") ELSE Return(t, FALSE)
    /\ UNCHANGED <<now, count, probe, gaveUp, settings, inVars, reader>>

NothingLeft == flight = {} /\ queue = <<>>

\* flush's loop: done, out of time, or pump.
FlushTest(t) ==
    /\ At(t, "test")
    /\ IF NothingLeft THEN Goto(t, "count")
       ELSE IF now >= th[t].until THEN Return(t, FALSE)
       ELSE Goto(t, "pump")
    /\ UNCHANGED <<now, coreVars, settings, inVars, reader>>

\* Mutant: flush forgets to look at what was given up on.
FlushCountUnread(t) ==
    /\ At(t, "count")
    /\ Return(t, TRUE)
    /\ UNCHANGED <<now, coreVars, settings, inVars, reader>>

\* flush's end: an error if anything was given up on.
FlushCount(t) ==
    /\ At(t, "count")
    /\ Return(t, count = 0)
    /\ UNCHANGED <<now, coreVars, settings, inVars, reader>>

-----------------------------------------------------------------------------
\* pump.

\* Peer::drive_retransmits: what is due is sent again, or given up on.  If the
\* socket refuses a frame, the due ones after it are not looked at; which come
\* after is left open.  left is the due frames looked at.
DriveRetransmits(ok, left) ==
    LET due == {f \in flight : f.due <= now}
        over == {f \in due : f.retries >= MaxRetries}
        again == due \ over
    IN
    /\ left \subseteq due
    /\ IF ok THEN left = due ELSE \E f \in again \ left : f.id \in pending
    /\ flight' = (flight \ due) \cup
                 {[f EXCEPT !.retries = @ + 1, !.due = now + Rto] : f \in again}
    /\ pending' = pending \ Ids(over \cap left)
    /\ abandoned' = abandoned \cup Ids(over \cap left)
    /\ count' = count + Cardinality(over \cap left)
    /\ gaveUp' = gaveUp \cup Ids(over)

\* Of the due frames looked at, those sent again.
Resent(left) == {f \in left : f.retries < MaxRetries /\ f.id \in pending}

\* Core::drive_pmtu: whether a probe is due, suspect having been called or not.
\* It leaves the search with another one due, or over.
ProbeDue(suspected) == spoke /\ use.searches /\ (suspected \/ probe <= now)

KeepaliveDue(last) == keepalive # Never /\ last + keepalive <= now

\* Mutant: the sleep is not cut short by a keep-alive.
EarliestButKeepalive(t, frames, last, p) ==
    Min({f.due : f \in frames} \cup {th[t].until, p})

\* The earliest of the retransmission deadline, the caller's, the keep-alive
\* and the next probe.
Earliest(t, frames, last, p) ==
    Min({f.due : f \in frames} \cup {th[t].until, p} \cup
        (IF keepalive = Never THEN {} ELSE {last + keepalive}))

\* drive_retransmits may have finished what a flush waits for.
EndsFlush(t) == th[t].call = "flush" /\ flight' = {} /\ queue = <<>>

\* pump, the section that works out how long to sleep.
Sleep(t) ==
    /\ At(t, "sleep")
    /\ \E ok \in Outcomes, sent \in Outcomes, left \in SUBSET flight, suspected \in BOOLEAN :
          /\ DriveRetransmits(ok, left)
          /\ suspected => Resent(left) # {} /\ use.searches
          /\ onWire' = onWire \cup Ids(Resent(left))
          /\ LET resent == IF Resent(left) # {} THEN now ELSE lastSent
                 said == IF KeepaliveDue(resent) THEN now ELSE resent
                 probed == IF ProbeDue(suspected) /\ sent THEN now ELSE said
             IN
             IF ~ok
             THEN Return(t, FALSE) /\ lastSent' = resent /\ UNCHANGED probe
             ELSE IF EndsFlush(t)
             THEN /\ Goto(t, "feed") /\ lastSent' = resent
                  /\ probe' = IF suspected THEN now ELSE probe
             ELSE IF KeepaliveDue(resent) /\ ~sent
             THEN /\ Return(t, FALSE) /\ lastSent' = resent
                  /\ probe' = IF suspected THEN now ELSE probe
             ELSE /\ lastSent' = probed
                  /\ probe' \in IF ProbeDue(suspected) THEN {now + Rto, Never}
                               ELSE IF suspected THEN {now} ELSE {probe}
                  /\ LET p == IF spoke THEN probe' ELSE Never
                         e == Earliest(t, flight', lastSent', p)
                     IN th' = [th EXCEPT ![t].pc = "lock",
                                 ![t].wait = IF e = Never THEN Never ELSE Max({e - now, 0})]
    /\ UNCHANGED <<now, queue, lastId, settings, inVars, reader>>

\* The Reader lock, and a read timeout counted from when it was had.  Zero
\* would mean forever to the socket.
Lock(t) ==
    /\ At(t, "lock") /\ reader = None
    /\ reader' = t
    /\ th' = [th EXCEPT ![t].pc = "read", ![t].wait = Later(now, Max({th[t].wait, 1}))]
    /\ UNCHANGED <<now, coreVars, settings, inVars>>

\* pump found nothing: recv looks at its deadline, flush goes round.
Again(t) ==
    IF th[t].call = "flush" THEN Goto(t, "feed")
    ELSE IF th[t].until # Never /\ now >= th[t].until THEN Return(t, FALSE)
    ELSE Goto(t, "pump")

\* transport.recv timed out: the lock is given back.
ReadTimeout(t) ==
    /\ At(t, "read") /\ socket = <<>> /\ now >= th[t].wait
    /\ reader' = None
    /\ Again(t)
    /\ UNCHANGED <<now, coreVars, settings, inVars>>

Read(t) ==
    /\ At(t, "read") /\ socket # <<>>
    /\ socket' = Tail(socket)
    /\ th' = [th EXCEPT ![t].pc = "apply", ![t].got = Head(socket)]
    /\ UNCHANGED <<now, coreVars, settings, inbox, spoke, arrived, told, returned, dropped, reader>>

\* Mutant: a flush throws data away.
KeepForRecvNot(d) == UNCHANGED inbox

\* A flush that read data keeps it for recv.
KeepForRecv(d) == inbox' = Append(inbox, d)

\* pump, the last section.  Data is acknowledged as it is ingested; if the
\* socket refuses the acknowledgement the call fails there.
ApplyData(t) ==
    LET d == th[t].got.of IN
    /\ At(t, "apply") /\ th[t].got.kind = "data"
    /\ \E ok \in Outcomes :
          IF ~ok
          THEN /\ Return(t, FALSE) /\ dropped' = dropped \cup {d}
               /\ UNCHANGED <<inbox, spoke, told, returned>>
          ELSE /\ told' = told \cup {d} /\ spoke' = TRUE
               /\ IF th[t].call = "recv"
                  THEN Deliver(t, d) /\ UNCHANGED inbox
                  ELSE KeepForRecv(d) /\ Again(t) /\ UNCHANGED <<returned, dropped>>
    /\ reader' = None
    /\ UNCHANGED <<now, coreVars, settings, socket, arrived>>

\* A second copy of data taken before: ingest acknowledges it again and has
\* nothing to deliver.
ApplyCopy(t) ==
    /\ At(t, "apply") /\ th[t].got.kind = "copy"
    /\ \E ok \in Outcomes :
          IF ok THEN Again(t) /\ told' = told \cup {th[t].got.of} /\ spoke' = TRUE
                ELSE Return(t, FALSE) /\ UNCHANGED <<told, spoke>>
    /\ reader' = None
    /\ UNCHANGED <<now, coreVars, settings, inbox, socket, arrived, returned, dropped>>

ApplyAck(t) ==
    LET id == th[t].got.of IN
    /\ At(t, "apply") /\ th[t].got.kind = "ack"
    /\ flight' = {f \in flight : f.id # id}
    /\ pending' = pending \ {id}
    /\ spoke' = TRUE
    /\ Again(t)
    /\ reader' = None
    /\ UNCHANGED <<now, queue, abandoned, count, lastId, lastSent, probe, onWire, gaveUp, settings,
                   inbox, socket, arrived, told, returned, dropped>>

\* The answer to a path challenge: of a probe, or of a keep-alive.
ApplyAnswer(t) ==
    /\ At(t, "apply") /\ th[t].got.kind = "answer"
    /\ spoke' = TRUE
    /\ probe' \in IF spoke /\ probe # Never THEN {probe, now, Never} ELSE {probe}
    /\ Again(t)
    /\ reader' = None
    /\ UNCHANGED <<now, flight, pending, queue, abandoned, count, lastId, lastSent, onWire, gaveUp,
                   settings, inbox, socket, arrived, told, returned, dropped>>

\* What does not authenticate is rejected.
ApplyRejected(t) ==
    /\ At(t, "apply") /\ th[t].got.kind = "junk"
    /\ Again(t)
    /\ reader' = None
    /\ UNCHANGED <<now, coreVars, settings, inVars>>

-----------------------------------------------------------------------------
\* The peer and the network; the clock.

Room == Len(socket) < MaxSocket

PeerSends ==
    /\ Room /\ arrived < MaxData
    /\ arrived' = arrived + 1
    /\ socket' = Append(socket, Data(arrived + 1))
    /\ UNCHANGED <<now, coreVars, settings, inbox, spoke, told, returned, dropped, reader, th>>

\* The peer resends what was not acknowledged to it and is already taken.
PeerResends ==
    /\ Room
    /\ \E d \in dropped \ told : socket' = Append(socket, [kind |-> "copy", of |-> d])
    /\ UNCHANGED <<now, coreVars, settings, inbox, spoke, arrived, told, returned, dropped, reader, th>>

PeerAcks ==
    /\ Room
    /\ \E id \in onWire \cap Ids(flight) : socket' = Append(socket, Ack(id))
    /\ UNCHANGED <<now, coreVars, settings, inbox, spoke, arrived, told, returned, dropped, reader, th>>

\* An answer can come once something was asked, a rejected datagram any time.
PeerAnswers ==
    /\ Room
    /\ \E k \in use.others :
          /\ k = "answer" => lastSent > 0
          /\ socket' = Append(socket, Other(k))
    /\ UNCHANGED <<now, coreVars, settings, inbox, spoke, arrived, told, returned, dropped, reader, th>>

\* Whether thread t waits: for the application, the lock or the socket.
Waits(t) ==
    \/ At(t, "idle")
    \/ th[t].pc \in {"lock", "hand over"} /\ reader # None
    \/ At(t, "read") /\ socket = <<>> /\ now < th[t].wait

Tick ==
    /\ now < MaxTime
    /\ \A t \in Thread : Waits(t)
    /\ now' = now + 1
    /\ UNCHANGED <<coreVars, settings, inVars, reader, th>>

Step(t) ==
    \/ Send(t) \/ SendSingle(t) \/ SendLarge(t) \/ SendLargeDrive(t)
    \/ SetReadTimeout(t) \/ SetKeepalive(t)
    \/ Recv(t) \/ HandOver(t) \/ RecvDeadline(t)
    \/ Flush(t) \/ Feed(t) \/ FlushTest(t) \/ FlushCount(t)
    \/ Sleep(t) \/ Lock(t) \/ ReadTimeout(t) \/ Read(t)
    \/ ApplyData(t) \/ ApplyCopy(t) \/ ApplyAck(t) \/ ApplyAnswer(t) \/ ApplyRejected(t)

Next ==
    /\ \/ \E t \in Thread : Step(t)
       \/ PeerSends \/ PeerResends \/ PeerAcks \/ PeerAnswers \/ Tick
    /\ UNCHANGED use

Spec == Init /\ [][Next]_vars

-----------------------------------------------------------------------------
\* The clock, the frames in flight and the queue keep their ranges, and the
\* Reader lock is with the thread that reads or applies what it read.
TypeOK ==
    /\ now \in 0 .. MaxTime
    /\ flight \subseteq [id : 1 .. lastId, due : 0 .. MaxTime + Rto, retries : 0 .. MaxRetries]
    /\ pending \subseteq Ids(flight) \cup gaveUp /\ Len(queue) <= MaxQueued
    /\ count \in Nat /\ lastSent \in 0 .. now
    /\ reader \in Thread \cup {None}
    /\ \A t \in Thread : (reader = t) <=> th[t].pc \in {"read", "apply"}

\* One thread uses the connection.
Alone == Cardinality({t \in Thread : use.does[t] # {}}) = 1

Asleep(t) == At(t, "read") /\ now < th[t].wait

\* A thread asleep on the socket does not sleep past anything: neither its
\* caller's deadline, give or take the millisecond a read cannot be shorter than,
\* nor the retransmission of a frame in flight, nor the keep-alive, nor a probe.
\* It does if another thread sends while it sleeps, or read while it waited: the
\* Reader lock is waited for without a bound.
SleepsPastNothing ==
    \A t \in Thread : Alone /\ Asleep(t) =>
        /\ now <= th[t].until + 1
        /\ \A f \in flight : now <= f.due
        /\ keepalive # Never => now <= lastSent + keepalive
        /\ spoke => now <= probe

\* Data taken off the socket is at every moment in exactly one place: returned
\* by a recv, kept in the inbox, in the hands of a thread, or dropped by a call
\* that returned an error.
InOnePlace ==
    \A d \in 1 .. arrived :
        Cardinality({i \in DOMAIN returned : returned[i] = d})
      + Cardinality({i \in DOMAIN inbox : inbox[i] = d})
      + Cardinality({i \in DOMAIN socket : socket[i] = Data(d)})
      + Cardinality({t \in Thread : th[t].got = Data(d) /\ th[t].pc \in {"apply", "hand over"}})
      + Cardinality(dropped \cap {d}) = 1

FlushReturnsOk(t) == At(t, "count") /\ th'[t].pc = "idle" /\ th'[t].ok

\* A flush that returns Ok: nothing was given up on since it was called,
\* whichever thread gave up on it.
FlushIsHonest ==
    [][\A t \in Thread : FlushReturnsOk(t) => Cardinality(gaveUp) = th[t].since]_vars
=============================================================================

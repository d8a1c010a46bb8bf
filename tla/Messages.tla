------------------------------ MODULE Messages -------------------------------
(***************************************************************************)
(* The sending half of a peer of crates/fectp/src/pipeline.rs, as an       *)
(* Endpoint drives it (crates/fectp/src/endpoint.rs): messages that fit in *)
(* one frame go straight to the retransmission queue, longer ones are cut  *)
(* into fragments, queued, and fed to it as its window allows; the         *)
(* outcome is reported to the application as Event::Sent.                  *)
(*                                                                         *)
(* The retransmission queue is the one of Reliability, reduced to what the *)
(* reports depend on: a window of unspecified size, a retry count, any set *)
(* of frames past its deadline, and an acknowledgement of any of the       *)
(* frames sent.  Identifiers do not wrap here.  owner is history: the      *)
(* fragment each identifier was registered for.                            *)
(***************************************************************************)
EXTENDS Integers, Sequences, FiniteSets

CONSTANTS
    Msg,          \* messages, numbered in the order the application sends them
    Count,        \* Count[m]: fragments m is cut into; 1 if it fits in a frame
    MaxQueued,    \* MAX_QUEUED (4)
    MaxInFlight,  \* MAX_IN_FLIGHT (32)
    MaxRetries,   \* RetransmitQueue::max_retries (5)
    SendsFail,    \* whether the socket may refuse a datagram (Error::Io)
    MaxIds        \* bound: identifiers registered in a behaviour

ASSUME MessagesAssumption ==
    /\ Msg = 1 .. Cardinality(Msg)
    /\ Count \in [Msg -> Nat \ {0}]
    /\ {MaxQueued, MaxInFlight, MaxRetries, MaxIds} \subseteq Nat \ {0}
    /\ SendsFail \in BOOLEAN

VARIABLES
    owner,      \* history: <<message, index>> of each identifier registered
    slots,      \* RetransmitQueue::slots: records [at, id, retries], at the index
    pending,    \* Peer::pending, the identifiers with a payload to resend
    queue,      \* Peer::queue, a sequence of Queued
    abandoned,  \* Peer::abandoned
    unqueued,   \* Peer::abandoned_unqueued, as the identifiers it counts
    onWire,     \* history: identifiers of frames handed to the network
    acked,      \* history: identifiers taken out of the queue by an ack
    gaveUp,     \* history: identifiers the queue gave up on
    sent,       \* history: messages the application has passed to send_reliable
    reports,    \* history: Event::Sent of each message, [delivered, lost] counts
    refused     \* history: whether the socket has refused a datagram

vars == <<owner, slots, pending, queue, abandoned, unqueued,
          onWire, acked, gaveUp, sent, reports, refused>>

Ids == 1 .. Len(owner)
Queued == [msg : Msg, next : Nat, outstanding : SUBSET (1 .. MaxIds), lost : BOOLEAN]

Least(a, b) == IF a <= b THEN a ELSE b

Init ==
    /\ owner = <<>> /\ slots = {} /\ pending = {} /\ queue = <<>>
    /\ abandoned = {} /\ unqueued = {}
    /\ onWire = {} /\ acked = {} /\ gaveUp = {} /\ sent = {}
    /\ reports = [m \in Msg |-> [delivered |-> 0, lost |-> 0]]
    /\ refused = FALSE

\* RetransmitQueue::register, k times: each identifier takes the first free slot.
Free == 1 .. MaxInFlight \ {s.at : s \in slots}
NthFree(i) == CHOOSE p \in Free : Cardinality({q \in Free : q < p}) = i - 1
Register(k) ==
    {[at |-> NthFree(i), id |-> Len(owner) + i, retries |-> 0] : i \in 1 .. k}

\* Event::Sent { delivered: false } for each of a set of identifiers.
WithLost(ids) ==
    [m \in Msg |-> [reports[m] EXCEPT
        !.lost = @ + Cardinality({i \in ids : owner[i][1] = m})]]

\* Bound: the socket refuses one datagram in a behaviour.
CanFail == SendsFail /\ ~refused

-----------------------------------------------------------------------------
\* Endpoint::send_reliable for a message that fits in one frame.  The window
\* is any size between 1 and MaxInFlight.  If the socket refuses the frame the
\* call fails, with the identifier registered and nothing pending for it.
SendSingle(m) ==
    LET id == Len(owner) + 1 IN
    /\ m = Cardinality(sent) + 1 /\ Count[m] = 1
    /\ id <= MaxIds
    /\ \E window \in 1 .. MaxInFlight : Cardinality(slots) < window
    /\ owner' = Append(owner, <<m, 0>>)
    /\ slots' = slots \cup Register(1)
    /\ \E ok \in {TRUE, ~CanFail} :
          /\ refused' = (refused \/ ~ok)
          /\ IF ok
             THEN pending' = pending \cup {id} /\ onWire' = onWire \cup {id}
             ELSE UNCHANGED <<pending, onWire>>
    /\ sent' = sent \cup {m}
    /\ UNCHANGED <<queue, abandoned, unqueued, acked, gaveUp, reports>>

\* drive_queue, first part: a fragment given up on loses the whole message.
MarkLost(job) ==
    [job EXCEPT !.lost = @ \/ job.outstanding \cap abandoned # {},
                !.outstanding = @ \ abandoned]

\* Mutant: a message is finished as soon as its last fragment is fed out.
FinishedWhenFed(job) == job.lost \/ job.next = Count[job.msg]

\* drive_queue, last part: every fragment acknowledged, or one lost.
Finished(job) ==
    job.lost \/ (job.next = Count[job.msg] /\ job.outstanding = {})

\* drive_queue on the queue q, not empty: feed the front message until the
\* window is full, or until the socket refuses a fragment.  Then the call
\* fails: that fragment is registered but not pending, and will be fed again.
DriveQueue(q) ==
    LET job == MarkLost(Head(q))
        count == Count[job.msg]
        rest == IF job.lost THEN 0 ELSE count - job.next
    IN
    \E window \in 1 .. MaxInFlight, fails \in {FALSE, CanFail} :
    LET room == IF window > Cardinality(slots) THEN window - Cardinality(slots) ELSE 0
        most == Least(rest, room)
    IN
    \E fed \in 0 .. most :
    LET new == Len(owner) + 1 .. Len(owner) + fed
        registered == fed + (IF fails THEN 1 ELSE 0)
        fedJob == [job EXCEPT !.next = @ + fed, !.outstanding = @ \cup new]
        left == [fedJob EXCEPT !.outstanding = @ \cap (pending \cup new)]
    IN
    /\ fails <=> fed < most
    /\ Len(owner) + most <= MaxIds
    /\ owner' = owner \o [i \in 1 .. registered |-> <<job.msg, job.next + i - 1>>]
    /\ slots' = slots \cup Register(registered)
    /\ pending' = pending \cup new
    /\ onWire' = onWire \cup new
    /\ abandoned' = {}
    /\ refused' = (refused \/ fails)
    /\ IF fails
       THEN queue' = <<fedJob>> \o Tail(q) /\ UNCHANGED reports
       ELSE IF ~Finished(left)
       THEN queue' = <<left>> \o Tail(q) /\ UNCHANGED reports
       ELSE /\ queue' = Tail(q)
            /\ reports' = [reports EXCEPT ![job.msg] =
                   IF left.lost THEN [@ EXCEPT !.lost = @ + 1]
                                ELSE [@ EXCEPT !.delivered = @ + 1]]
    /\ UNCHANGED <<unqueued, acked, gaveUp>>

\* Endpoint::send_reliable for a longer message: queue_message, then
\* drive_queues at once.
SendFragmented(m) ==
    /\ m = Cardinality(sent) + 1 /\ Count[m] > 1
    /\ Len(queue) < MaxQueued
    /\ sent' = sent \cup {m}
    /\ DriveQueue(Append(queue, [msg |-> m, next |-> 0, outstanding |-> {}, lost |-> FALSE]))

\* drive_queues from poll_once, gated on a queue not being empty.
PollQueue ==
    /\ queue # <<>>
    /\ DriveQueue(queue)
    /\ UNCHANGED sent

\* Whether a queued message still waits for id.
WaitedFor(id) == \E k \in DOMAIN queue : id \in queue[k].outstanding

\* RetransmitQueue::poll: whether a frame past its deadline is given up on.
OutOfRetries(s) == s.retries >= MaxRetries

\* Mutant: the identifiers given up on are not passed on.
DriveRetransmitsUnrecorded(due) ==
    LET lost == {s \in due : OutOfRetries(s)} IN
    /\ slots' = (slots \ due) \cup {[s EXCEPT !.retries = @ + 1] : s \in due \ lost}
    /\ gaveUp' = gaveUp \cup {s.id : s \in lost}
    /\ UNCHANGED <<owner, pending, queue, abandoned, unqueued, onWire, acked, sent, reports, refused>>

\* Endpoint::drive_retransmits for this peer: RetransmitQueue::poll settles
\* what becomes of every frame past its deadline, then Peer::drive_retransmits
\* works through the list in slot order.  If the socket refuses a resend the
\* call fails there and the rest of the list is not looked at again.
DriveRetransmits(due) ==
    LET lost == {s \in due : OutOfRetries(s)}
        again == due \ lost
        refusable == IF CanFail THEN {s \in again : s.id \in pending} ELSE {}
    IN
    \E end \in {MaxInFlight + 1} \cup {s.at : s \in refusable} :
    LET done == {s \in due : s.at < end}
        dropped == {s.id : s \in done \cap lost}
        alone == unqueued \cup {i \in dropped : ~WaitedFor(i)}
    IN
    /\ slots' = (slots \ due) \cup {[s EXCEPT !.retries = @ + 1] : s \in again}
    /\ gaveUp' = gaveUp \cup {s.id : s \in lost}
    /\ pending' = pending \ dropped
    /\ abandoned' = abandoned \cup dropped
    /\ onWire' = onWire \cup ({s.id : s \in done \cap again} \cap pending)
    /\ refused' = (refused \/ end <= MaxInFlight)
    /\ IF end > MaxInFlight
       THEN unqueued' = {} /\ reports' = WithLost(alone)
       ELSE unqueued' = alone /\ UNCHANGED reports
    /\ UNCHANGED <<owner, queue, acked, sent>>

\* Peer::apply_ack: an acknowledgement may cover any frames that were sent.
ApplyAck(ids) ==
    /\ slots' = {s \in slots : s.id \notin ids}
    /\ pending' = pending \ ids
    /\ acked' = acked \cup ids
    /\ UNCHANGED <<owner, queue, abandoned, unqueued, onWire, gaveUp, sent, reports, refused>>

InFlight == {s.id : s \in slots}

Next ==
    \/ \E m \in Msg : SendSingle(m)
    \/ \E m \in Msg : SendFragmented(m)
    \/ PollQueue
    \/ \E due \in SUBSET slots \ {{}} : DriveRetransmits(due)
    \/ \E ids \in SUBSET (InFlight \cap onWire) \ {{}} : ApplyAck(ids)

Spec == Init /\ [][Next]_vars

\* The application keeps calling poll: the queue is driven, and every frame
\* outstanding comes due again and again.
RetransmitOf(id) ==
    \E due \in SUBSET slots : (\E s \in due : s.id = id) /\ DriveRetransmits(due)
FairSpec ==
    Spec /\ WF_vars(PollQueue) /\ \A id \in 1 .. MaxIds : WF_vars(RetransmitOf(id))

-----------------------------------------------------------------------------
\* The queue, the slots and the reports of the sending Peer keep their ranges.
TypeOK ==
    /\ owner \in Seq(Msg \X Nat)
    /\ slots \subseteq [at : 1 .. MaxInFlight, id : Ids, retries : 0 .. MaxRetries]
    /\ queue \in Seq(Queued) /\ Len(queue) <= MaxQueued
    /\ \A S \in {pending, abandoned, unqueued, onWire, acked, gaveUp} : S \subseteq Ids
    /\ sent \subseteq Msg
    /\ reports \in [Msg -> [delivered : Nat, lost : Nat]]
    /\ refused \in BOOLEAN

\* SPEC 5.5: a sender that abandons a message reports that.  What was sent and
\* the retransmission queue gave up on is reported lost, or on its way to be:
\* in the count the endpoint drains, or a fragment its queued message still
\* waits for and will be told of.  A socket that refuses a resend ends the pass
\* before the rest of the list is reported (Peer::drive_retransmits), so this is
\* promised only while none has been refused.
NoSilentLoss ==
    refused \/ \A i \in gaveUp \cap onWire :
        \/ reports[owner[i][1]].lost > 0
        \/ i \in unqueued
        \/ \E k \in DOMAIN queue : queue[k].lost \/ queue[k].outstanding \cap abandoned # {}

\* Every message queued in fragments gets a verdict: the queue is neither
\* stuck behind a fragment nobody resends nor behind a message nobody finishes,
\* unless the socket refused a datagram.
FragmentedSettles ==
    \A m \in Msg : (m \in sent /\ Count[m] > 1) ~>
        (reports[m].delivered > 0 \/ reports[m].lost > 0 \/ refused)

=============================================================================

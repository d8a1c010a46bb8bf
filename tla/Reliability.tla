----------------------------- MODULE Reliability -----------------------------
(***************************************************************************)
(* One direction of the selective-repeat ARQ of                            *)
(* crates/fectp-core/src/reliability.rs: the sender's RetransmitQueue, the *)
(* receiver's DedupWindow, and the datagrams between them, which may be    *)
(* lost (never received), repeated (received again) and reordered.         *)
(*                                                                         *)
(* Message identifiers wrap at IdSpace (2^32 in the code).  Every          *)
(* decision below is made from wire identifiers alone.  The field n beside *)
(* an identifier, nextN and dedup.top are history: they number the         *)
(* messages without wrapping, so that the properties can say which         *)
(* message an identifier stands for.                                       *)
(*                                                                         *)
(* Time is abstracted: a poll may find any set of outstanding messages     *)
(* past its deadline.  The congestion window is abstracted to its size in  *)
(* messages: deliveries widen it by an unspecified amount, a timeout sets  *)
(* it to its floor.                                                        *)
(***************************************************************************)
EXTENDS Integers, FiniteSets

CONSTANTS
    HalfSpace,    \* half the identifier space (2^31)
    AckWindow,    \* ACK_WINDOW: identifiers an ack reports below its highest (64)
    MaxInFlight,  \* MAX_IN_FLIGHT: slots of the queue (32)
    InitialCwnd,  \* INITIAL_CWND (4)
    MinCwnd,      \* MIN_CWND (2)
    MaxRetries,   \* MAX_RETRIES: the retry limit of a new queue (5)
    MaxAttempts,  \* bound: the largest limit set_max_retries is given
    Lifetime,     \* bound: how many identifiers a datagram may outlive its own by
    MaxMessages   \* bound: messages sent in a behaviour

ASSUME ConstantsAssumption ==
    /\ HalfSpace \in Nat /\ AckWindow \in Nat /\ MaxInFlight \in Nat
    /\ InitialCwnd \in Nat /\ MinCwnd \in Nat /\ MaxRetries \in Nat
    /\ MaxAttempts \in Nat /\ Lifetime \in Nat /\ MaxMessages \in Nat
    /\ 0 < AckWindow /\ AckWindow <= Lifetime /\ Lifetime <= HalfSpace
    /\ AckWindow < HalfSpace
    /\ 0 < MinCwnd /\ MinCwnd <= MaxInFlight
    /\ 0 < InitialCwnd /\ InitialCwnd <= MaxInFlight
    /\ 0 < MaxRetries /\ MaxRetries <= MaxAttempts

IdSpace == 2 * HalfSpace
Id == 0 .. IdSpace - 1
Msg == 0 .. MaxMessages - 1

\* u32::wrapping_sub
WrappingSub(a, b) == IF b <= a THEN a - b ELSE a - b + IdSpace

\* u32::wrapping_add(1), which moves next_id on.
WrappingSucc(a) == IF a = IdSpace - 1 THEN 0 ELSE a + 1

VARIABLES
    nextId,     \* RetransmitQueue::next_id
    nextN,      \* history: the number of the next message
    slots,      \* RetransmitQueue::slots: records [n, id, retries]
    window,     \* RetransmitQueue::window(), the congestion window in messages
    maxRetries, \* RetransmitQueue::max_retries
    dedup,      \* DedupWindow: started, highest, bitmap; top is history
    frames,     \* data frames the path may still deliver: records [n, id]
    acks,       \* ack frames the path may still deliver: [highest, bitmap, top]
    status,     \* history: "unsent", "inflight", "acked", "abandoned"
    delivered   \* history: times the receiving application got each message

senderVars == <<nextId, nextN, slots, window, maxRetries, status>>
vars == <<nextId, nextN, slots, window, maxRetries,
          dedup, frames, acks, status, delivered>>

Retries == 0 .. MaxAttempts
Slot == [n : Msg, id : Id, retries : Retries]
Frame == [n : Msg, id : Id]
\* Bit i of a bitmap is represented by the distance i + 1 it stands for.
Bitmap == SUBSET (1 .. AckWindow)
Ack == [highest : Id, bitmap : Bitmap, top : Msg]
Dedup == [started : BOOLEAN, highest : Id, bitmap : Bitmap, top : Nat]
Statuses == {"unsent", "inflight", "acked", "abandoned"}

-----------------------------------------------------------------------------
(* Acknowledgements and the receiver's window.                             *)

\* Ack::covers
Covers(ack, id) ==
    \/ id = ack.highest
    \/ WrappingSub(ack.highest, id) \in ack.bitmap

\* Mutant: identifiers compared as plain integers.
IsLarger(id, than) == id > than

\* is_newer: serial-number comparison.
IsNewer(id, than) == id # than /\ WrappingSub(id, than) < HalfSpace

\* The bitmap after the window slides up by shift: the old highest becomes
\* the entry at distance shift, and what passes AckWindow falls out.
Slide(bitmap, shift) ==
    IF shift > AckWindow
    THEN {}
    ELSE {d \in 1 .. AckWindow : d = shift \/ d - shift \in bitmap}

\* Mutant: an identifier in the window is taken without looking at its bit.
IsNewOrInWindow(w, id) ==
    \/ ~w.started
    \/ IsNewer(id, w.highest)
    \/ id # w.highest /\ WrappingSub(w.highest, id) <= AckWindow

\* DedupWindow::accept, the result.
IsNew(w, id) ==
    \/ ~w.started
    \/ IsNewer(id, w.highest)
    \/ /\ id # w.highest
       /\ WrappingSub(w.highest, id) <= AckWindow
       /\ WrappingSub(w.highest, id) \notin w.bitmap

\* DedupWindow::accept, the window it leaves; n is the message id stands for.
Accept(w, id, n) ==
    IF ~w.started
    THEN [w EXCEPT !.started = TRUE, !.highest = id, !.top = n]
    ELSE IF IsNewer(id, w.highest)
    THEN [w EXCEPT !.bitmap = Slide(w.bitmap, WrappingSub(id, w.highest)),
                   !.highest = id, !.top = n]
    ELSE IF IsNew(w, id)
    THEN [w EXCEPT !.bitmap = @ \cup {WrappingSub(w.highest, id)}]
    ELSE w

\* DedupWindow::to_ack
ToAck(w) == [highest |-> w.highest, bitmap |-> w.bitmap, top |-> w.top]

-----------------------------------------------------------------------------
Init ==
    /\ nextId = 0 /\ nextN = 0
    /\ slots = {}
    /\ window = InitialCwnd
    /\ maxRetries = MaxRetries
    /\ dedup = [started |-> FALSE, highest |-> 0, bitmap |-> {}, top |-> 0]
    /\ frames = {} /\ acks = {}
    /\ status = [n \in Msg |-> "unsent"]
    /\ delivered = [n \in Msg |-> 0]

\* Mutant: the distance to the oldest outstanding identifier is not checked.
MayRegisterAnyDistance ==
    Cardinality(slots) < window /\ Cardinality(slots) < MaxInFlight

\* RetransmitQueue::register refuses unless every outstanding identifier is
\* within AckWindow of the next, and the window and the slots have room.
MayRegister ==
    /\ \A m \in slots : WrappingSub(nextId, m.id) < AckWindow
    /\ Cardinality(slots) < window
    /\ Cardinality(slots) < MaxInFlight

\* The identifiers of the last Lifetime messages are what a receiver and a
\* sender can still tell apart.  Two things are assumed of the path, each only
\* broken by about 2^31 messages passing: a datagram is not delivered later
\* than that, and the peer's highest identifier is not further behind.
InReach(n) == nextN + 1 - n <= Lifetime
PathIsAlive == dedup.started => InReach(dedup.top)

\* register, then the frame is sealed and sent.
Send ==
    /\ nextN < MaxMessages
    /\ MayRegister
    /\ PathIsAlive
    /\ slots' = slots \cup {[n |-> nextN, id |-> nextId, retries |-> 0]}
    /\ nextId' = WrappingSucc(nextId)
    /\ nextN' = nextN + 1
    /\ frames' = {f \in frames : InReach(f.n)} \cup {[n |-> nextN, id |-> nextId]}
    /\ acks' = {a \in acks : InReach(a.top)}
    /\ status' = [status EXCEPT ![nextN] = "inflight"]
    /\ UNCHANGED <<window, maxRetries, dedup, delivered>>

\* A reliable frame reaches the receiver (ingest): it is handed on if it is
\* new, and acknowledged whether it is or not.
Receive(f) ==
    /\ delivered' = IF IsNew(dedup, f.id)
                    THEN [delivered EXCEPT ![f.n] = @ + 1]
                    ELSE delivered
    /\ dedup' = Accept(dedup, f.id, f.n)
    /\ acks' = acks \cup {ToAck(dedup')}
    /\ UNCHANGED <<senderVars, frames>>

\* RetransmitQueue::on_ack: what the ack covers leaves the queue, and each
\* such message widens the window.
OnAck(ack) ==
    LET done == {m \in slots : Covers(ack, m.id)} IN
    /\ slots' = slots \ done
    /\ status' = [n \in Msg |-> IF \E m \in done : m.n = n
                                THEN "acked" ELSE status[n]]
    /\ IF done = {}
       THEN window' = window
       ELSE window' \in window .. MaxInFlight
    /\ UNCHANGED <<nextId, nextN, maxRetries, dedup, frames, acks, delivered>>

\* Mutant: a retransmission is not counted as a retry.
PollUncounted(due) ==
    LET lost == {m \in due : m.retries >= maxRetries} IN
    /\ slots' = slots \ lost
    /\ status' = [n \in Msg |-> IF \E m \in lost : m.n = n
                                THEN "abandoned" ELSE status[n]]
    /\ window' = IF due = lost THEN window ELSE MinCwnd
    /\ UNCHANGED <<nextId, nextN, maxRetries, dedup, frames, acks, delivered>>

\* RetransmitQueue::poll, driven by drive_retransmits: of the messages past
\* their deadline, those out of retries are abandoned, the rest are sent again,
\* and if any was, the window collapses.
Poll(due) ==
    LET lost == {m \in due : m.retries >= maxRetries}
        again == due \ lost
    IN
    /\ slots' = (slots \ due) \cup {[m EXCEPT !.retries = @ + 1] : m \in again}
    /\ frames' = frames \cup {[n |-> m.n, id |-> m.id] : m \in again}
    /\ status' = [n \in Msg |-> IF \E m \in lost : m.n = n
                                THEN "abandoned" ELSE status[n]]
    /\ window' = IF again = {} THEN window ELSE MinCwnd
    /\ UNCHANGED <<nextId, nextN, maxRetries, dedup, acks, delivered>>

\* RetransmitQueue::set_max_retries: zero is raised to one.
SetMaxRetries(attempts) ==
    /\ maxRetries' = IF attempts = 0 THEN 1 ELSE attempts
    /\ UNCHANGED <<nextId, nextN, slots, window, dedup, frames, acks,
                   status, delivered>>

\* RetransmitQueue::forget_path, after the session moved to a new address.
ForgetPath ==
    /\ window' = InitialCwnd
    /\ UNCHANGED <<nextId, nextN, slots, maxRetries, dedup, frames, acks,
                   status, delivered>>

PollOf(n) == \E due \in SUBSET slots : (\E m \in due : m.n = n) /\ Poll(due)

Next ==
    \/ Send
    \/ \E f \in frames : Receive(f)
    \/ \E ack \in acks : OnAck(ack)
    \/ \E due \in SUBSET slots : Poll(due)
    \/ \E attempts \in 0 .. MaxAttempts : SetMaxRetries(attempts)
    \/ ForgetPath

Spec == Init /\ [][Next]_vars

\* A caller keeps polling, and a deadline is at most MAX_RTO_MS away, so every
\* outstanding message comes due again and again.
FairSpec == Spec /\ \A n \in Msg : WF_vars(PollOf(n))

-----------------------------------------------------------------------------
\* Slots, identifiers, window and retry counts keep their ranges.
TypeOK ==
    /\ nextId \in Id
    /\ nextN \in 0 .. MaxMessages
    /\ slots \subseteq Slot
    /\ window \in 1 .. MaxInFlight
    /\ maxRetries \in 1 .. MaxAttempts
    /\ dedup \in Dedup
    /\ frames \subseteq Frame
    /\ acks \subseteq Ack
    /\ status \in [Msg -> Statuses]
    /\ delivered \in [Msg -> Nat]

\* The receiving application is handed no message twice, however often it is
\* retransmitted, repeated and reordered, and across the wrap of identifiers:
\* what DedupWindow::accept is for.
AtMostOnce == \A n \in Msg : delivered[n] <= 1

\* The sender takes a message out of its queue as acknowledged (on_ack) only if
\* the receiving application has been handed that very message, and not an
\* earlier one whose identifier or bit the acknowledgement really reports.
AckedWasDelivered == \A n \in Msg : status[n] = "acked" => delivered[n] = 1

\* A message the sender still retransmits and the application has not had is
\* taken by DedupWindow::accept whenever a copy arrives: the window has not
\* slid past it, whatever the messages after it did.
OutstandingNotRefused ==
    \A m \in slots : delivered[m.n] = 0 => IsNew(dedup, m.id)

\* A message the sender still retransmits and the application has had is
\* reported by the acknowledgement the receiver would send now: register never
\* lets an outstanding identifier fall out of the bitmap's reach, so the
\* retransmission of a delivered message always can be stopped.
OutstandingNameable ==
    \A m \in slots : delivered[m.n] > 0 =>
        dedup.started /\ Covers(ToAck(dedup), m.id)

\* ReliableDelivery over this state: what the queue still holds or has reported
\* of each message, and how often accept let it through.
Delivery == INSTANCE ReliableDelivery
            WITH Msg <- Msg, status <- status, delivered <- delivered

\* The queue (register, on_ack, poll) and the window (accept, to_ack) together
\* implement ReliableDelivery.
ImplementsDelivery == Delivery!Spec

\* Every message sent is in the end reported acknowledged or abandoned: poll
\* counts the retries of each, and gives up at the limit.
EverySendSettles ==
    \A n \in Msg : status[n] = "inflight" ~> status[n] \in {"acked", "abandoned"}
=============================================================================

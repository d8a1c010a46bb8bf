------------------------------ MODULE Transfer -------------------------------
(***************************************************************************)
(* A sending peer (Messages) and the receiving half of its counterpart:    *)
(* Peer::ingest and Reassembly of crates/fectp/src/pipeline.rs.  The path  *)
(* loses, repeats and reorders frames and acknowledgements.                *)
(*                                                                         *)
(* The DedupWindow is the one of Reliability, reduced to what is proved of *)
(* it there: an identifier is taken once.  Every frame comes from a peer   *)
(* that runs this code, so the fragments of a message agree on its count   *)
(* and its stride, and the arms of Partial::insert and Reassembly::accept  *)
(* that refuse ones that do not are never taken.                           *)
(***************************************************************************)
EXTENDS Messages, SequencesExt

CONSTANT MaxReassemblies  \* MAX_REASSEMBLIES (4)

ASSUME TransferAssumption == MaxReassemblies \in Nat \ {0}

VARIABLES
    taken,     \* DedupWindow: the identifiers accepted
    partials,  \* Reassembly::partials, a sequence of [msg, have]
    handed,    \* history: times each message was handed to the application
    evicted    \* history: messages whose partial was dropped for a newer one

receiver == <<taken, partials, handed, evicted>>
sender == vars

TransferInit ==
    /\ Init
    /\ taken = {} /\ partials = <<>>
    /\ handed = [m \in Msg |-> 0] /\ evicted = {}

-----------------------------------------------------------------------------
\* Reassembly::accept, first part: the partials with one for m among them; a
\* new one takes the place of the oldest if there are too many.
MakeRoom(m) ==
    IF \E k \in DOMAIN partials : partials[k].msg = m
    THEN partials
    ELSE Append(IF Len(partials) >= MaxReassemblies THEN Tail(partials) ELSE partials,
                [msg |-> m, have |-> {}])

\* Partial::insert: whether every fragment has come.
Complete(partial) == Cardinality(partial.have) = Count[partial.msg]

\* Reassembly::accept of the fragment <<m, index>>.
AcceptFragment(m, index) ==
    LET room == MakeRoom(m)
        slot == CHOOSE k \in DOMAIN room : room[k].msg = m
        filled == [room[slot] EXCEPT !.have = @ \cup {index}]
    IN
    /\ IF Complete(filled)
       THEN /\ partials' = RemoveAt(room, slot)
            /\ handed' = [handed EXCEPT ![m] = @ + 1]
       ELSE /\ partials' = [room EXCEPT ![slot] = filled]
            /\ UNCHANGED handed
    /\ evicted' = evicted \cup
           ({partials[k].msg : k \in DOMAIN partials} \ {room[k].msg : k \in DOMAIN room})

\* Mutant: a repeated frame is not told from a new one.
AnyIsNew(id) == TRUE

\* DedupWindow::accept
IsNew(id) == id \notin taken

\* Peer::ingest of a data frame.  A message that fits in one frame is handed up
\* as it is.  The acknowledgement the receiver writes back is the disjunct
\* ApplyAck below, on its arrival.
Ingest(id) ==
    /\ taken' = taken \cup {id}
    /\ IF ~IsNew(id)
       THEN UNCHANGED <<partials, handed, evicted>>
       ELSE IF Count[owner[id][1]] = 1
       THEN /\ handed' = [handed EXCEPT ![owner[id][1]] = @ + 1]
            /\ UNCHANGED <<partials, evicted>>
       ELSE AcceptFragment(owner[id][1], owner[id][2])
    /\ UNCHANGED sender

TransferNext ==
    \/ /\ \/ \E m \in Msg : SendSingle(m)
          \/ \E m \in Msg : SendFragmented(m)
          \/ PollQueue
          \/ \E due \in SUBSET slots \ {{}} : DriveRetransmits(due)
          \/ \E ids \in SUBSET (InFlight \cap taken) \ {{}} : ApplyAck(ids)
       /\ UNCHANGED receiver
    \/ \E id \in onWire : Ingest(id)

TransferSpec == TransferInit /\ [][TransferNext]_<<sender, receiver>>

\* The application keeps calling poll, as in Messages.
TransferFairSpec ==
    /\ TransferSpec
    /\ WF_<<sender, receiver>>(PollQueue /\ UNCHANGED receiver)
    /\ \A id \in 1 .. MaxIds :
          WF_<<sender, receiver>>(RetransmitOf(id) /\ UNCHANGED receiver)

-----------------------------------------------------------------------------
\* The receiver's window, partial messages and what it handed up keep their
\* ranges.
TransferTypeOK ==
    /\ taken \subseteq onWire
    /\ partials \in Seq([msg : Msg, have : SUBSET Nat])
    /\ Len(partials) <= MaxReassemblies
    /\ handed \in [Msg -> Nat]
    /\ evicted \subseteq Msg

\* A message is handed up at most once, although Reassembly keeps no memory of
\* what it finished and every frame may arrive again.
HandedOnce == \A m \in Msg : handed[m] <= 1

\* What Event::Sent { delivered: true } is worth (SPEC 5.6, point 5): the
\* receiving application has the message, unless its partial was dropped to make
\* room for a newer one.
DeliveredMeansHanded ==
    \A m \in Msg : reports[m].delivered > 0 => handed[m] > 0 \/ m \in evicted

=============================================================================

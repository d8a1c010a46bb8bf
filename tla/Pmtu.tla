-------------------------------- MODULE Pmtu ---------------------------------
(***************************************************************************)
(* Path MTU discovery of one session: crates/fectp/src/pmtu.rs as an       *)
(* Endpoint drives it (drive_pmtu, the PathValidated arm, settle_probe and *)
(* drive_retransmits of crates/fectp/src/endpoint.rs).                     *)
(*                                                                         *)
(* Time is abstracted to which deadlines have passed: a probe is waiting   *)
(* until its retry interval is over, and the next search is later until    *)
(* its timer is.  A token is represented by the search it was drawn for;   *)
(* with the probe's size it names one probe.  The path carries every frame *)
(* up to a size that may change at any time, and loses any.                *)
(***************************************************************************)
EXTENDS Integers

CONSTANTS
    Base,        \* BASE_DATAGRAM (1200), which every path carries
    Ladder,      \* LADDER, the sizes worth trying
    Cap,         \* the peer's receive limit or this side's ceiling
    ProbeTries,  \* PROBE_TRIES (3)
    Rounds       \* bound: searches an answer may be late by, and one more

\* A session has a Pmtu only if its cap is above the base.
ASSUME PmtuAssumption ==
    /\ Base \in Nat /\ Cap \in Nat /\ Base < Cap
    /\ Ladder \subseteq Nat
    /\ ProbeTries \in Nat \ {0}
    /\ Rounds \in Nat /\ 1 < Rounds

VARIABLES
    current,     \* Pmtu::current
    probes,      \* Pmtu::probes: records [size, token, tries, waiting]
    validating,  \* Pmtu::validating
    search,      \* Pmtu::next_search: "none", "now" or "later"
    limit,       \* PeerEntry::datagram_limit
    round,       \* history: the search the latest tokens were drawn for
    answers,     \* path responses on their way: records [size, token]
    path,        \* the largest frame the path carries
    carried      \* history: sizes the path carried since the session moved to it

pmtu == <<current, probes, validating, search, limit, round>>
vars == <<pmtu, answers, path, carried>>

Sizes == {s \in Ladder : s <= Cap} \cup {Base, Cap}
Probe == [size : Sizes, token : 0 .. Rounds - 1, tries : 1 .. ProbeTries, waiting : BOOLEAN]
Answer == [size : Sizes, token : 0 .. Rounds - 1]

Init ==
    /\ current = Base /\ limit = Base
    /\ probes = {} /\ validating = FALSE /\ search = "now" /\ round = 0
    /\ answers = {} /\ path \in Sizes /\ carried = {}

-----------------------------------------------------------------------------
\* The sizes a search tries: those above the one in use, and that one itself
\* if it has to be checked.
Candidates(checking) ==
    LET floor == IF checking THEN current - 1 ELSE current
        tried == Ladder \cup {Cap} \cup (IF checking THEN {current} ELSE {})
    IN {s \in tried : floor < s /\ s <= Cap}

\* Mutant: a search that ran out plans no other.
FinishForGood(size, checking) ==
    /\ current' = IF checking THEN Base ELSE size
    /\ validating' = FALSE
    /\ search' = "none"

\* Pmtu::finish, with size in use and checking the flag the search ends with.
Finish(size, checking) ==
    /\ current' = IF checking THEN Base ELSE size
    /\ validating' = FALSE
    /\ search' = "later"

\* Pmtu::due and the sending of what it returns, by drive_pmtu.  The path
\* answers any of the probes it carries.
Due ==
    LET starting == probes = {} /\ search = "now"
        checking == IF starting THEN current > Base ELSE validating
        drawn == IF starting THEN (round + 1) % Rounds ELSE round
        due == IF starting
               THEN [size : Candidates(checking), token : {drawn},
                     tries : {0}, waiting : {FALSE}]
               ELSE {p \in probes : ~p.waiting}
        sent == {[p EXCEPT !.tries = @ + 1, !.waiting = TRUE] :
                     p \in {q \in due : q.tries < ProbeTries}}
    IN
    /\ round' = drawn
    /\ probes' = {p \in probes : p.waiting} \cup sent
    /\ IF probes' = {} /\ (starting \/ search = "none")
       THEN Finish(current, checking)
       ELSE /\ validating' = checking
            /\ search' = IF starting THEN "none" ELSE search
            /\ UNCHANGED current
    /\ limit' = current'
    /\ \E S \in SUBSET {p.size : p \in {q \in sent : q.size <= path}} :
          /\ answers' = {a \in answers : starting => a.token # drawn}
                          \cup [size : S, token : {drawn}]
          /\ carried' = carried \cup S
    /\ UNCHANGED path

\* Mutant: an answer is matched by its size alone.
MatchesSize(p, a) == p.size = a.size

\* Whether an answer carries the token of a probe.
Matches(p, a) == p.size = a.size /\ p.token = a.token

\* Pmtu::answered, from the PathValidated arm: a size not below the one in use
\* becomes it, everything no larger is settled, and the search may be over.
Answered(a) ==
    /\ answers' = answers \ {a}
    /\ IF \E p \in probes : Matches(p, a)
       THEN LET size == IF a.size >= current THEN a.size ELSE current
                checking == IF a.size >= current THEN FALSE ELSE validating
            IN
            /\ probes' = {p \in probes : p.size > a.size}
            /\ IF probes' = {}
               THEN Finish(size, checking)
               ELSE current' = size /\ validating' = checking /\ UNCHANGED search
       ELSE UNCHANGED <<current, probes, validating, search>>
    /\ limit' = current'
    /\ UNCHANGED <<round, path, carried>>

\* Pmtu::suspect, when a frame larger than the base was sent again.
Suspect ==
    /\ search' = IF current > Base /\ probes = {} THEN "now" ELSE search
    /\ UNCHANGED <<current, probes, validating, limit, round, answers, path, carried>>

\* Pmtu::reset, when settle_probe moves the session to a new address.
Reset(newPath) ==
    /\ current' = Base /\ limit' = Base
    /\ probes' = {} /\ validating' = FALSE /\ search' = "now"
    /\ path' = newPath /\ carried' = {}
    /\ UNCHANGED <<round, answers>>

-----------------------------------------------------------------------------
(* The clock and the path.                                                 *)

\* The retry interval of a probe is over.
ProbeExpires ==
    /\ \E p \in probes :
          /\ p.waiting
          /\ probes' = (probes \ {p}) \cup {[p EXCEPT !.waiting = FALSE]}
    /\ UNCHANGED <<current, validating, search, limit, round, answers, path, carried>>

\* RESEARCH_INTERVAL or AFTER_FALLBACK is over.
SearchTimer ==
    /\ search = "later"
    /\ search' = "now"
    /\ UNCHANGED <<current, probes, validating, limit, round, answers, path, carried>>

\* The route changes under the session.
PathChanges ==
    /\ path' \in Sizes
    /\ UNCHANGED <<pmtu, answers, carried>>

AnswerLost ==
    /\ \E a \in answers : answers' = answers \ {a}
    /\ UNCHANGED <<pmtu, path, carried>>

Next ==
    \/ Due
    \/ \E a \in answers : Answered(a)
    \/ Suspect
    \/ \E newPath \in Sizes : Reset(newPath)
    \/ ProbeExpires
    \/ SearchTimer
    \/ PathChanges
    \/ AnswerLost

Spec == Init /\ [][Next]_vars

\* The endpoint is polled at its deadlines, and deadlines pass.
FairSpec == Spec /\ WF_vars(Due) /\ WF_vars(ProbeExpires) /\ WF_vars(SearchTimer)

-----------------------------------------------------------------------------
\* The search, its tries and the limit frames are sealed to keep their ranges.
TypeOK ==
    /\ current \in Sizes /\ limit \in Sizes
    /\ probes \subseteq Probe /\ validating \in BOOLEAN
    /\ search \in {"none", "now", "later"} /\ round \in 0 .. Rounds - 1
    /\ answers \subseteq Answer /\ path \in Sizes /\ carried \subseteq Sizes

\* Frames are sealed to the base, or to a size the path of this address was
\* seen to carry: no answer that belongs to the path before a move, or to an
\* earlier search, counts (Pmtu::answered, Pmtu::reset, and the updates of
\* datagram_limit beside each).
SizeProven == limit > Base => limit \in carried

\* Discovery is never dormant: either a search is running or the next one is
\* planned, and not both.
SearchPlanned == (probes = {}) <=> (search # "none")

\* A size above the one in use is tried again and again, until it is in use.
Researches ==
    \A s \in Sizes : []<>(current >= s \/ \E p \in probes : p.size = s)
=============================================================================

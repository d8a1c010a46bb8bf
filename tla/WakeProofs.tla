----------------------------- MODULE WakeProofs -----------------------------
(***************************************************************************)
(* Wake, for any number of peers and handshakes and any lengths of the     *)
(* timers: the loop never sleeps past work it has, and a pass settles what *)
(* was due.                                                                *)
(*                                                                         *)
(* WakeCovers is not inductive as it stands.  A peer that has not spoken   *)
(* is owed no keep-alive, but it may speak at any moment, and nothing is   *)
(* rescanned then: the wake has to cover its keep-alive from the start, as *)
(* next_keepalive sees to by going over every peer of the table.           *)
(***************************************************************************)
EXTENDS Wake, FiniteSetTheorems, WellFoundedInduction, TLAPS

-----------------------------------------------------------------------------
(* Smallest and largest.                                                   *)

\* Of the instants there are, one is the earliest.
LEMMA MinNat ==
    ASSUME NEW S \in SUBSET Nat, S # {}
    PROVE  Min(S) \in S /\ \A y \in S : Min(S) <= y
    <1>1. PICK x \in S : \A y \in S : ~(<<y, x>> \in OpToRel(<, Nat))
      BY NatLessThanWellFounded, WFMin, Zenon
    <1>2. \A y \in S : ~(y < x)
      BY <1>1, Zenon DEF OpToRel
    <1>3. \A y \in S : x <= y
      BY <1>2, SMT
    <1> QED  BY <1>3, Zenon DEF Min

\* The smaller of two.
LEMMA MinPair ==
    ASSUME NEW a \in Nat, NEW b \in Nat
    PROVE  Min({a, b}) = IF a <= b THEN a ELSE b
    <1>1. Min({a, b}) \in {a, b} /\ \A y \in {a, b} : Min({a, b}) <= y
      BY MinNat
    <1> QED  BY <1>1

\* A set with a bound has a largest element.
LEMMA MaxBounded ==
    ASSUME NEW S \in SUBSET Nat, S # {}, NEW b \in Nat, \A y \in S : y <= b
    PROVE  Max(S) \in S /\ \A y \in S : y <= Max(S)
    <1> DEFINE T == {b - y : y \in S}
    <1>1. T \in SUBSET Nat /\ T # {}
      <2>1. \A y \in S : y \in Nat /\ b - y \in Nat
        OBVIOUS
      <2>2. PICK y \in S : TRUE
        BY Zenon
      <2>3. b - y \in T
        OBVIOUS
      <2> QED  BY <2>1, <2>3
    <1>2. Min(T) \in T /\ \A z \in T : Min(T) <= z
      BY <1>1, MinNat, Zenon
    <1>3. PICK x \in S : Min(T) = b - x
      BY <1>2
    <1>4. \A y \in S : b - x <= b - y
      BY <1>2, <1>3
    <1>5. \A y \in S : x >= y
      BY <1>4
    <1> QED  BY <1>5, Zenon DEF Max

\* The longest timeout, and the range of an instant.
LEMMA Spans ==
    /\ Max(Rtos) \in Rtos /\ Max(Rtos) \in 1 .. Research
    /\ \A r \in Rtos : r \in Nat /\ 1 <= r /\ r <= Max(Rtos)
    /\ Ticks \in SUBSET Nat /\ 0 \in Ticks
    /\ \A t \in Ticks : 0 .. t \subseteq Ticks
    /\ Every \in Ticks /\ Limit \in Ticks /\ Research \in Ticks /\ Refresh \in Ticks
    /\ Rtos \subseteq Ticks
    <1> USE WakeAssumption
    <1>0. Rtos \in SUBSET Nat /\ Rtos # {} /\ Research \in Nat /\ \A y \in Rtos : y <= Research
      OBVIOUS
    <1>1. Max(Rtos) \in Rtos /\ \A y \in Rtos : y <= Max(Rtos)
      BY <1>0, MaxBounded
    <1> DEFINE S == {Every, Limit, Research, Refresh} \cup Rtos
               b == Every + Limit + Research + Refresh
    <1>2. S \in SUBSET Nat /\ S # {} /\ b \in Nat /\ \A y \in S : y <= b
      BY <1>0
    <1>3. Max(S) \in S /\ \A y \in S : y <= Max(S)
      BY <1>2, MaxBounded, Zenon
    <1>4. Max(S) \in Nat /\ Ticks = 0 .. Max(S)
      BY <1>2, <1>3, Zenon DEF Ticks
    <1>5. /\ Ticks \in SUBSET Nat /\ 0 \in Ticks
          /\ \A t \in Ticks : 0 .. t \subseteq Ticks
          /\ \A y \in S : y \in Ticks
      <2> HIDE DEF S
      <2>1. \A y \in S : y \in Nat /\ y <= Max(S)
        BY <1>2, <1>3
      <2>2. \A y \in S : y \in Ticks
        BY <2>1, <1>4
      <2> QED  BY <1>4, <2>2
    <1>6. \A r \in Rtos : r \in Nat /\ 1 <= r /\ r <= Max(Rtos) /\ r <= Research
      BY <1>0, <1>1
    <1> QED  BY <1>1, <1>5, <1>6, Zenon

\* A retransmission timeout is an instant ahead, and no longer than the longest.
LEMMA RtoSpan ==
    ASSUME NEW r \in Rtos
    PROVE  r \in Nat \ {0} /\ r \in Ticks /\ r <= Max(Rtos)
    <1>1. r \in Nat /\ 1 <= r /\ r <= Max(Rtos) /\ r \in Ticks
      BY Spans
    <1> QED  BY <1>1

\* What is left of a span shrinks as time passes, and grows with the span.
LEMMA SinceType ==
    ASSUME NEW age \in Nat, NEW span \in Nat
    PROVE  /\ Since(age, span) \in 0 .. span
           /\ Since(0, span) = span
           /\ \A later \in Nat : age <= later => Since(later, span) <= Since(age, span)
           /\ \A longer \in Nat : span <= longer => Since(age, span) <= Since(age, longer)
BY DEF Since

-----------------------------------------------------------------------------
(* The inductive invariant.                                                *)

CoveredBy(wake, at) == \E t \in wake : t <= at

\* When a session's search needs the loop, at the longest timeout it has had.
SearchAt(e) == IF e.searching THEN Since(e.age, Max(Rtos)) ELSE Since(e.age, Research)

\* Whatever p has pending is covered, its keep-alive whether or not it has spoken.
EntryCovered(wake, p, e, ka, to) ==
    /\ \A f \in e.flight : f.unplanned \/ CoveredBy(wake, f.due)
    /\ to => CoveredBy(wake, TimeoutAt(e))
    /\ ka => CoveredBy(wake, KeepaliveAt(e))
    /\ e.spoke /\ p \in Probing => CoveredBy(wake, SearchAt(e))

Attempt == [next_attempt : Ticks, attempts : 1 .. Attempts]

\* Tables of peers and of handshakes.
PeersOK(ps) == DOMAIN ps \subseteq Peers /\ \A p \in DOMAIN ps : ps[p] \in Entry
OutboundOK(out) == DOMAIN out \subseteq Connects /\ \A c \in DOMAIN out : out[c] \in Attempt

Covered(wake, ps, out, ka, to) ==
    /\ \A c \in DOMAIN out : CoveredBy(wake, out[c].next_attempt)
    /\ \A p \in DOMAIN ps : EntryCovered(wake, p, ps[p], ka, to)

IInv == TypeOK /\ Covered(next_wake, peers, outbound, keepalive, peer_timeout)

\* The invariant covers what the property asks for.
LEMMA Enough == IInv => WakeCovers
BY DEF IInv, Covered, EntryCovered, CoveredBy, WakeCovers, Covers, SearchAt, ProbeAt

-----------------------------------------------------------------------------
(* The deadlines.                                                          *)

\* Every deadline of an entry is an instant.
LEMMA Deadlines ==
    ASSUME NEW e \in Entry
    PROVE  /\ KeepaliveAt(e) \in Ticks /\ TimeoutAt(e) \in Ticks /\ ProbeAt(e) \in Ticks
           /\ SearchAt(e) \in Ticks /\ ProbeAt(e) <= SearchAt(e)
           /\ RetransmitAt(e) \subseteq Ticks /\ \A f \in e.flight : f.due \in RetransmitAt(e)
    <1>1. /\ e.quiet \in Nat /\ e.unheard \in Nat /\ e.age \in Nat /\ e.searching \in BOOLEAN
          /\ e.rto \in Rtos /\ e.rto \in Nat /\ e.flight \subseteq Frame
      BY WakeAssumption, Spans, Zenon DEF Entry
    <1>2. /\ Every \in Nat /\ Limit \in Nat /\ Research \in Nat /\ Max(Rtos) \in Nat
          /\ Every \in Ticks /\ Limit \in Ticks /\ Research \in Ticks /\ Max(Rtos) \in Ticks
          /\ e.rto \in Ticks /\ e.rto <= Max(Rtos)
      BY <1>1, WakeAssumption, Spans
    <1>3. \A age \in Nat : \A span \in Ticks : Since(age, span) \in Ticks
      <2> SUFFICES ASSUME NEW age \in Nat, NEW span \in Ticks
                   PROVE  Since(age, span) \in Ticks
        OBVIOUS
      <2>1. span \in Nat /\ 0 .. span \subseteq Ticks
        BY Spans
      <2> QED  BY <2>1, SinceType
    <1>4. KeepaliveAt(e) \in Ticks /\ TimeoutAt(e) \in Ticks
      BY <1>1, <1>2, <1>3 DEF KeepaliveAt, TimeoutAt
    <1>5. ProbeAt(e) \in Ticks /\ SearchAt(e) \in Ticks
      BY <1>1, <1>2, <1>3 DEF ProbeAt, SearchAt
    <1>6. Since(e.age, e.rto) <= Since(e.age, Max(Rtos))
      BY <1>1, <1>2, SinceType
    <1>7. ProbeAt(e) <= SearchAt(e)
      <2>1. ProbeAt(e) \in Nat
        BY <1>5, Spans, Zenon
      <2> QED  BY <2>1, <1>1, <1>6 DEF ProbeAt, SearchAt
    <1>8. RetransmitAt(e) \subseteq Ticks
      BY <1>1 DEF RetransmitAt, Frame
    <1> QED  BY <1>4, <1>5, <1>7, <1>8 DEF RetransmitAt

\* The earliest of some instants covers them all, and is one of them.
LEMMA EarliestStep ==
    ASSUME NEW S \in SUBSET Ticks
    PROVE  /\ Earliest(S) \in Instants
           /\ \A x \in S : CoveredBy(Earliest(S), x)
           /\ \A t \in Earliest(S) : t \in S
    <1>1. CASE S = {}
      BY <1>1 DEF Earliest, Instants
    <1>2. CASE S # {}
      <2>1. S \in SUBSET Nat
        BY Spans
      <2>2. Min(S) \in S /\ \A y \in S : Min(S) <= y
        BY <1>2, <2>1, MinNat
      <2>3. Earliest(S) = {Min(S)}
        BY <1>2 DEF Earliest
      <2> QED  BY <2>2, <2>3 DEF CoveredBy, Instants
    <1> QED  BY <1>1, <1>2

\* An instant at which something is due.
IsDeadline(t, ps, out, ka, to) ==
    \/ \E p \in DOMAIN ps : t \in RetransmitAt(ps[p])
    \/ \E c \in DOMAIN out : t = out[c].next_attempt
    \/ \E p \in DOMAIN ps : ps[p].spoke /\ t = ProbeAt(ps[p])
    \/ ka /\ \E p \in DOMAIN ps : t = KeepaliveAt(ps[p])
    \/ to /\ \E p \in DOMAIN ps : t = TimeoutAt(ps[p])

\* earliest_deadline covers everything, and is a deadline there is.
LEMMA Scan ==
    ASSUME NEW ps, NEW out, PeersOK(ps), OutboundOK(out),
           NEW ka \in BOOLEAN, NEW to \in BOOLEAN
    PROVE  LET wake == EarliestDeadline(ps, out, ka, to) IN
           /\ wake \in Instants
           /\ \A c \in DOMAIN out : CoveredBy(wake, out[c].next_attempt)
           /\ \A p \in DOMAIN ps :
                 /\ EntryCovered(wake, p, ps[p], ka, to)
                 /\ \A f \in ps[p].flight : CoveredBy(wake, f.due)
           /\ \A t \in wake : IsDeadline(t, ps, out, ka, to)
    <1> DEFINE A == UNION {RetransmitAt(ps[p]) : p \in DOMAIN ps}
               B == {out[c].next_attempt : c \in DOMAIN out}
               C == {ProbeAt(ps[p]) : p \in {q \in DOMAIN ps \cap Probing : ps[q].spoke}}
               K == NextKeepalive(ps, ka)
               L == NextLivenessCheck(ps, to)
               S == A \cup B \cup C \cup K \cup L
               wake == EarliestDeadline(ps, out, ka, to)
    <1>1. \A p \in DOMAIN ps : ps[p] \in Entry
      BY DEF PeersOK
    <1>2. A \subseteq Ticks /\ B \subseteq Ticks /\ C \subseteq Ticks
      BY <1>1, Deadlines DEF OutboundOK, Attempt
    <1>3. K \subseteq Ticks /\ L \subseteq Ticks
      BY <1>1, Deadlines DEF NextKeepalive, NextLivenessCheck
    <1>4. S \subseteq Ticks /\ S \in SUBSET Nat
      BY <1>2, <1>3, Spans, Zenon
    <1>5. wake = Earliest(S)
      BY DEF EarliestDeadline
    <1>6. \A x \in S : CoveredBy(wake, x)
      <2> HIDE DEF S
      <2> QED  BY <1>4, <1>5, EarliestStep
    <1>7. wake \in Instants /\ \A t \in wake : t \in S
      <2> HIDE DEF S
      <2> QED  BY <1>4, <1>5, EarliestStep
    <1>8. \A c \in DOMAIN out : CoveredBy(wake, out[c].next_attempt)
      BY <1>6
    <1>9. ASSUME NEW p \in DOMAIN ps
          PROVE  /\ EntryCovered(wake, p, ps[p], ka, to)
                 /\ \A f \in ps[p].flight : CoveredBy(wake, f.due)
      <2>1. \A f \in ps[p].flight : CoveredBy(wake, f.due)
        BY <1>1, <1>6, Deadlines
      <2>2. to => CoveredBy(wake, TimeoutAt(ps[p]))
        BY <1>6, Zenon DEF NextLivenessCheck
      <2>3. ka => CoveredBy(wake, KeepaliveAt(ps[p]))
        BY <1>6, Zenon DEF NextKeepalive
      <2>4. ASSUME ps[p].spoke, p \in Probing PROVE CoveredBy(wake, SearchAt(ps[p]))
        <3>1. CoveredBy(wake, ProbeAt(ps[p]))
          BY <1>6, <2>4
        <3>2. /\ ProbeAt(ps[p]) \in Nat /\ SearchAt(ps[p]) \in Nat
              /\ ProbeAt(ps[p]) <= SearchAt(ps[p]) /\ wake \subseteq Nat
          BY <1>1, <1>4, <1>7, Deadlines, Spans, Zenon
        <3> QED  BY <3>1, <3>2 DEF CoveredBy
      <2> QED  BY <2>1, <2>2, <2>3, <2>4 DEF EntryCovered
    <1>10. ASSUME NEW t \in wake
           PROVE  IsDeadline(t, ps, out, ka, to)
      <2>1. t \in S
        BY <1>7
      <2>2. CASE t \in A \cup B \cup C
        BY <2>2 DEF IsDeadline
      <2>3. CASE t \in K
        BY <2>3 DEF NextKeepalive, IsDeadline
      <2>4. CASE t \in L
        BY <2>4 DEF NextLivenessCheck, IsDeadline
      <2> QED  BY <2>1, <2>2, <2>3, <2>4
    <1> HIDE DEF wake
    <1> QED  BY <1>7, <1>8, <1>9, <1>10 DEF wake

\* A wake that is due covers everything.
LEMMA ZeroCovers ==
    ASSUME NEW p, NEW e \in Entry, NEW wake, 0 \in wake, NEW ka, NEW to
    PROVE  EntryCovered(wake, p, e, ka, to)
    <1>1. \A t \in Ticks : CoveredBy(wake, t)
      BY Spans DEF CoveredBy
    <1>2. \A f \in e.flight : f.due \in Ticks
      BY DEF Entry, Frame
    <1> QED  BY <1>1, <1>2, Deadlines DEF EntryCovered

\* What is later than something covered is covered.
LEMMA LaterCovered ==
    ASSUME NEW wake \in SUBSET Nat, NEW at \in Nat, NEW later \in Nat, at <= later,
           CoveredBy(wake, at)
    PROVE  CoveredBy(wake, later)
BY DEF CoveredBy

\* An optional instant is a set of numbers.
LEMMA InstantsNat ==
    ASSUME NEW wake \in Instants
    PROVE  wake \in SUBSET Nat
BY Spans DEF Instants

-----------------------------------------------------------------------------
(* The drivers.                                                            *)

\* drive_retransmits: a frame that was due is no more.
LEMMA RetransmitStep ==
    ASSUME NEW e \in Entry, NEW large \in BOOLEAN
    PROVE  LET r == Retransmit(e, large) IN
           /\ r \in Entry
           /\ r.spoke = e.spoke /\ r.unheard = e.unheard /\ r.rto = e.rto
           /\ r.quiet = e.quiet \/ r.quiet = 0
           /\ \A f \in r.flight : f.due # 0
    <1> DEFINE due == {f \in e.flight : f.due = 0}
               again == {f \in due : f.tries < MaxRetries}
               resent == {[f EXCEPT !.due = Max(Rtos), !.tries = @ + 1, !.unplanned = FALSE]
                            : f \in again}
               flight == (e.flight \ due) \cup resent
               quiet == IF again = {} THEN e.quiet ELSE 0
               age == IF again # {} /\ large /\ ~e.searching THEN Research ELSE e.age
               refresh == IF again = {} THEN e.refresh
                          ELSE Min({e.refresh, Since(e.hello, Floor)})
               r == Retransmit(e, large)
    <1>0. e.flight \subseteq Frame /\ e.quiet \in 0 .. Every /\ e.age \in 0 .. Research
          /\ e.refresh \in 0 .. Refresh /\ e.hello \in 0 .. Floor
      BY DEF Entry
    <1>1. r = [e EXCEPT !.flight = flight, !.quiet = quiet, !.age = age, !.refresh = refresh]
      BY DEF Retransmit
    <1>2. \A f \in resent : f \in Frame /\ f.due # 0
      <2> SUFFICES ASSUME NEW f \in again
                   PROVE  LET g == [f EXCEPT !.due = Max(Rtos), !.tries = @ + 1,
                                             !.unplanned = FALSE]
                          IN g \in Frame /\ g.due # 0
        BY Zenon
      <2>1. f \in Frame /\ f.tries \in 0 .. MaxRetries /\ f.tries < MaxRetries
        BY <1>0 DEF Frame
      <2>2. f.tries + 1 \in 0 .. MaxRetries
        BY <2>1, WakeAssumption
      <2>3. Max(Rtos) \in Ticks /\ Max(Rtos) # 0
        <3>1. Max(Rtos) \in 1 .. Research /\ Max(Rtos) \in Rtos /\ Rtos \subseteq Ticks
          BY Spans, Zenon
        <3> QED  BY <3>1, WakeAssumption
      <2> QED  BY <2>1, <2>2, <2>3, Zenon DEF Frame
    <1>3. flight \in SUBSET Frame /\ \A f \in flight : f.due # 0
      BY <1>0, <1>2, Zenon
    <1>4. quiet \in 0 .. Every /\ age \in 0 .. Research
      BY <1>0, WakeAssumption
    <1>5. refresh \in 0 .. Refresh
      <2>0. Floor \in Nat /\ e.hello \in Nat
        BY <1>0, WakeAssumption
      <2>1. Since(e.hello, Floor) \in 0 .. Floor
        BY <2>0, SinceType
      <2>2. Min({e.refresh, Since(e.hello, Floor)}) \in {e.refresh, Since(e.hello, Floor)}
        BY <1>0, <2>1, MinPair, WakeAssumption
      <2> QED  BY <1>0, <2>1, <2>2, WakeAssumption
    <1> HIDE DEF due, again, resent, flight, quiet, age, refresh, r
    <1>6. r \in Entry
      BY <1>1, <1>3, <1>4, <1>5, Zenon DEF Entry
    <1>7. /\ r.spoke = e.spoke /\ r.unheard = e.unheard /\ r.rto = e.rto
          /\ r.quiet = quiet /\ r.flight = flight
      BY <1>1 DEF Entry
    <1>8. quiet = e.quiet \/ quiet = 0
      BY DEF quiet
    <1> QED  BY <1>3, <1>6, <1>7, <1>8 DEF r

\* drive_keepalives: what has spoken is owed none.
LEMMA KeepAliveStep ==
    ASSUME NEW e \in Entry
    PROVE  LET r == KeepAlive(e) IN
           /\ r \in Entry
           /\ r.spoke = e.spoke /\ r.unheard = e.unheard /\ r.rto = e.rto
           /\ r.flight = e.flight /\ r.searching = e.searching /\ r.age = e.age
           /\ r.quiet = e.quiet \/ r.quiet = 0
           /\ keepalive /\ e.spoke => KeepaliveAt(r) # 0
    <1>0. e.quiet \in Nat /\ Every \in Nat \ {0} /\ Since(0, Every) = Every
      BY WakeAssumption, SinceType DEF Entry
    <1>1. CASE keepalive /\ e.spoke /\ KeepaliveAt(e) = 0
      <2>1. KeepAlive(e) = [e EXCEPT !.quiet = 0]
        BY <1>1 DEF KeepAlive
      <2> QED  BY <1>0, <2>1 DEF Entry, KeepaliveAt
    <1>2. CASE ~(keepalive /\ e.spoke /\ KeepaliveAt(e) = 0)
      <2>1. KeepAlive(e) = e
        BY <1>2 DEF KeepAlive
      <2> QED  BY <1>2, <2>1
    <1> QED  BY <1>1, <1>2

\* drive_pmtu: what has spoken has no probe due.
LEMMA DrivePmtuStep ==
    ASSUME NEW e \in Entry, NEW over \in BOOLEAN
    PROVE  LET r == DrivePmtu(e, over) IN
           /\ r \in Entry
           /\ r.spoke = e.spoke /\ r.unheard = e.unheard /\ r.flight = e.flight
           /\ r.quiet = e.quiet \/ r.quiet = 0
           /\ e.spoke => ProbeAt(r) # 0
    <1>0. /\ e.quiet \in Nat /\ e.rto \in Rtos /\ e.rto \in Nat \ {0}
          /\ Research \in Nat \ {0} /\ e.searching \in BOOLEAN
      <2>1. e.quiet \in 0 .. Every /\ e.rto \in Rtos /\ e.searching \in BOOLEAN
        BY DEF Entry
      <2>2. e.rto \in Nat \ {0}
        BY <2>1, RtoSpan
      <2> QED  BY <2>1, <2>2, WakeAssumption
    <1>1. CASE e.spoke /\ ProbeAt(e) = 0
      <2> DEFINE quiet == IF over THEN e.quiet ELSE 0
                 r == DrivePmtu(e, over)
      <2>1. r = [e EXCEPT !.age = 0, !.searching = ~over, !.quiet = quiet]
        BY <1>1 DEF DrivePmtu
      <2>2. quiet \in 0 .. Every /\ 0 \in 0 .. Research /\ (~over) \in BOOLEAN
            /\ (quiet = e.quiet \/ quiet = 0)
        BY WakeAssumption DEF Entry
      <2> HIDE DEF quiet, r
      <2>3. r \in Entry
        BY <2>1, <2>2, Zenon DEF Entry
      <2>4. /\ r.spoke = e.spoke /\ r.unheard = e.unheard /\ r.flight = e.flight
            /\ r.quiet = quiet /\ r.age = 0 /\ r.rto = e.rto
        BY <2>1 DEF Entry
      <2>5. ProbeAt(r) # 0
        BY <1>0, <2>4, SinceType DEF ProbeAt
      <2> QED  BY <2>2, <2>3, <2>4, <2>5 DEF r
    <1>2. CASE ~(e.spoke /\ ProbeAt(e) = 0)
      <2>1. DrivePmtu(e, over) = e
        BY <1>2 DEF DrivePmtu
      <2> QED  BY <1>2, <2>1
    <1> QED  BY <1>1, <1>2

\* An entry r that differs from e by frames sent.
Sent(r, e, unplanned) ==
    /\ r.spoke = e.spoke /\ r.unheard = e.unheard
    /\ r.searching = e.searching /\ r.age = e.age
    /\ r.quiet = e.quiet \/ r.quiet = 0
    /\ \A f \in r.flight : f \in e.flight \/ f.unplanned = unplanned

\* An entry r with nothing due that e had not, but what the wake covers.
Eased(wake, r, e) ==
    /\ r.spoke = e.spoke /\ r.searching = e.searching /\ r.age = e.age
    /\ r.unheard = e.unheard \/ r.unheard = 0
    /\ r.quiet = e.quiet \/ r.quiet = 0
    /\ \A f \in r.flight : f \in e.flight \/ f.unplanned \/ CoveredBy(wake, f.due)

\* A wake that covers all that another does.
NoLater(sooner, wake) == \A x \in Ticks : CoveredBy(wake, x) => CoveredBy(sooner, x)

\* Frames registered in free slots.
LEMMA RegisterStep ==
    ASSUME NEW e \in Entry, NEW slots \in SUBSET (1 .. Window), NEW unplanned \in BOOLEAN
    PROVE  /\ Register(e, slots, unplanned) \in Entry
           /\ Sent(Register(e, slots, unplanned), e, unplanned)
    <1> DEFINE new == [slot : slots, due : {e.rto}, tries : {0}, unplanned : {unplanned}]
               quiet == IF slots = {} THEN e.quiet ELSE 0
               r == Register(e, slots, unplanned)
    <1>1. r = [e EXCEPT !.flight = e.flight \cup new, !.quiet = quiet]
      BY DEF Register
    <1>2. quiet \in 0 .. Every /\ (quiet = e.quiet \/ quiet = 0)
      BY WakeAssumption DEF Entry
    <1>3. e.rto \in Ticks /\ 0 \in 0 .. MaxRetries
      <2>1. e.rto \in Rtos
        BY DEF Entry
      <2>2. e.rto \in Ticks
        BY <2>1, RtoSpan
      <2> QED  BY <2>2, WakeAssumption
    <1>4. new \subseteq Frame /\ \A f \in new : f.unplanned = unplanned
      BY <1>3, Zenon DEF Frame
    <1>5. e.flight \subseteq Frame
      BY DEF Entry
    <1>6. e.flight \cup new \in SUBSET Frame
      BY <1>4, <1>5
    <1> HIDE DEF new, quiet, r
    <1>7. r \in Entry
      BY <1>1, <1>2, <1>6, Zenon DEF Entry
    <1>8. /\ r.spoke = e.spoke /\ r.unheard = e.unheard
          /\ r.searching = e.searching /\ r.age = e.age /\ r.queued = e.queued
          /\ r.quiet = quiet /\ r.flight = e.flight \cup new
      BY <1>1 DEF Entry
    <1> QED  BY <1>2, <1>4, <1>7, <1>8 DEF r, Sent

\* drive_queue never takes more fragments than there are.
LEMMA DriveQueueStep ==
    ASSUME NEW e \in Entry, NEW unplanned \in BOOLEAN
    PROVE  /\ DriveQueue(e, unplanned) \in Entry
           /\ Sent(DriveQueue(e, unplanned), e, unplanned)
    <1> DEFINE F == Free(e)
               slots == {s \in F : Cardinality({r \in F : r < s}) < e.queued}
    <1>0. e.queued \in 0 .. Frags /\ Window \in Nat /\ Frags \in Nat
      BY WakeAssumption DEF Entry
    <1>1. F \in SUBSET (1 .. Window) /\ slots \in SUBSET F /\ slots \in SUBSET (1 .. Window)
      BY DEF Free
    <1>2. IsFiniteSet(1 .. Window)
      BY <1>0, FS_Interval
    <1>3. \A T \in SUBSET (1 .. Window) : IsFiniteSet(T) /\ Cardinality(T) \in Nat
      BY <1>2, FS_Subset, FS_CardinalityType, Zenon
    <1>4. Cardinality(slots) <= e.queued
      <2>1. CASE slots = {}
        <3>1. Cardinality(slots) = 0
          BY <2>1, FS_EmptySet, Zenon
        <3> QED  BY <1>0, <3>1
      <2>2. CASE slots # {}
        <3> DEFINE s == Max(slots)
                   below == {r \in F : r < s}
        <3>1. slots \in SUBSET Nat /\ \A y \in slots : y <= Window
          BY <1>0, <1>1
        <3>2. s \in slots /\ \A y \in slots : y <= s
          <4> HIDE DEF slots
          <4> QED  BY <1>0, <2>2, <3>1, MaxBounded
        <3>3. Cardinality(below) < e.queued
          BY <3>2
        <3>4. below \in SUBSET (1 .. Window)
          BY <1>1
        <3>5. slots \subseteq below \cup {s}
          <4>1. \A y \in slots : y \in F /\ (y < s \/ y = s)
            <5> HIDE DEF slots, s
            <5> QED  BY <1>1, <3>1, <3>2
          <4> QED  BY <4>1
        <3>6. IsFiniteSet(below) /\ Cardinality(below) \in Nat /\ s \notin below
          BY <1>3, <3>1, <3>2, <3>4
        <3> HIDE DEF slots, s, below
        <3>7. /\ IsFiniteSet(below \cup {s})
              /\ Cardinality(below \cup {s}) = Cardinality(below) + 1
          BY <3>6, FS_AddElement
        <3>8. Cardinality(slots) <= Cardinality(below \cup {s})
          BY <3>5, <3>7, FS_Subset
        <3>9. Cardinality(slots) \in Nat
          BY <1>1, <1>3
        <3> QED  BY <1>0, <3>3, <3>6, <3>7, <3>8, <3>9
      <2> QED  BY <2>1, <2>2
    <1>5. e.queued - Cardinality(slots) \in 0 .. Frags
      <2>1. Cardinality(slots) \in Nat
        BY <1>1, <1>3, Zenon
      <2> HIDE DEF slots
      <2> QED  BY <1>0, <1>4, <2>1
    <1> DEFINE left == e.queued - Cardinality(slots)
               d == [e EXCEPT !.queued = left]
    <1>6. DriveQueue(e, unplanned) = Register(d, slots, unplanned)
      BY DEF DriveQueue
    <1> HIDE DEF slots, F
    <1>7. left \in 0 .. Frags
      BY <1>5
    <1> HIDE DEF left
    <1>8. /\ d \in Entry
          /\ d.spoke = e.spoke /\ d.unheard = e.unheard /\ d.searching = e.searching
          /\ d.age = e.age /\ d.quiet = e.quiet /\ d.flight = e.flight
      BY <1>7 DEF Entry
    <1> HIDE DEF d
    <1>9. /\ Register(d, slots, unplanned) \in Entry
          /\ Sent(Register(d, slots, unplanned), d, unplanned)
      BY <1>1, <1>8, RegisterStep, Zenon
    <1> QED  BY <1>6, <1>8, <1>9 DEF Sent

\* The same entry, with less due: what it has pending stays covered.
LEMMA CoveredStill ==
    ASSUME NEW p, NEW e \in Entry, NEW r \in Entry, NEW wake \in Instants,
           NEW ka \in BOOLEAN, NEW to \in BOOLEAN,
           EntryCovered(wake, p, e, ka, to),
           Eased(wake, r, e)
    PROVE  EntryCovered(wake, p, r, ka, to)
    <1>1. wake \in SUBSET Nat
      BY InstantsNat
    <1>2. \A f \in r.flight : f.unplanned \/ CoveredBy(wake, f.due)
      BY DEF EntryCovered, Eased
    <1>3. SearchAt(r) = SearchAt(e)
      BY DEF SearchAt, Eased
    <1>4. KeepaliveAt(e) <= KeepaliveAt(r) /\ TimeoutAt(e) <= TimeoutAt(r)
      <2>1. /\ e.quiet \in Nat /\ e.unheard \in Nat /\ Every \in Nat /\ Limit \in Nat
        BY WakeAssumption DEF Entry
      <2> QED  BY <2>1 DEF KeepaliveAt, TimeoutAt, Since, Eased
    <1>5. /\ KeepaliveAt(e) \in Nat /\ KeepaliveAt(r) \in Nat
          /\ TimeoutAt(e) \in Nat /\ TimeoutAt(r) \in Nat
      BY Deadlines, Spans, Zenon
    <1>6. ka => CoveredBy(wake, KeepaliveAt(r))
      BY <1>1, <1>4, <1>5, LaterCovered DEF EntryCovered
    <1>7. to => CoveredBy(wake, TimeoutAt(r))
      BY <1>1, <1>4, <1>5, LaterCovered DEF EntryCovered
    <1>8. r.spoke = e.spoke /\ r.searching = e.searching
      BY DEF Eased
    <1> QED  BY <1>2, <1>3, <1>6, <1>7, <1>8 DEF EntryCovered

\* What a wake covers, an earlier one does.
LEMMA CoveredForward ==
    ASSUME NEW p, NEW e \in Entry, NEW wake, NEW sooner, NEW ka \in BOOLEAN, NEW to \in BOOLEAN,
           NoLater(sooner, wake), EntryCovered(wake, p, e, ka, to)
    PROVE  EntryCovered(sooner, p, e, ka, to)
    <1>1. \A f \in e.flight : f.due \in Ticks
      BY DEF Entry, Frame
    <1>2. KeepaliveAt(e) \in Ticks /\ TimeoutAt(e) \in Ticks /\ SearchAt(e) \in Ticks
      BY Deadlines
    <1> QED  BY <1>1, <1>2 DEF EntryCovered, NoLater

\* wake_at brings the wake forward, and nothing is lost by it.
LEMMA WakeAtStep ==
    ASSUME NEW wake \in Instants, NEW at \in Ticks
    PROVE  LET sooner == WakeAt(wake, at) IN
           /\ sooner \in Instants
           /\ CoveredBy(sooner, at)
           /\ at = 0 => 0 \in sooner
           /\ NoLater(sooner, wake)
    <1> DEFINE S == wake \cup {at}
               sooner == WakeAt(wake, at)
    <1>1. S \in SUBSET Ticks /\ at \in S
      BY DEF Instants
    <1>2. sooner = Earliest(S)
      BY DEF WakeAt
    <1>3. /\ sooner \in Instants /\ CoveredBy(sooner, at)
          /\ \A y \in S : CoveredBy(sooner, y)
      <2> HIDE DEF S
      <2> QED  BY <1>1, <1>2, EarliestStep
    <1>4. sooner \in SUBSET Nat /\ wake \in SUBSET Nat
      BY <1>3, InstantsNat
    <1>5. at = 0 => 0 \in sooner
      BY <1>3, <1>4 DEF CoveredBy
    <1>6. ASSUME NEW x \in Ticks, CoveredBy(wake, x)
          PROVE  CoveredBy(sooner, x)
      <2>1. PICK t \in wake : t <= x
        BY <1>6 DEF CoveredBy
      <2>2. PICK u \in sooner : u <= t
        BY <1>3 DEF CoveredBy
      <2>3. u \in Nat /\ t \in Nat /\ x \in Nat
        BY <1>4, Spans
      <2>4. u <= x
        BY <2>1, <2>2, <2>3
      <2> QED  BY <2>4 DEF CoveredBy
    <1> HIDE DEF sooner
    <1> QED  BY <1>3, <1>5, <1>6 DEF sooner, NoLater

\* drive_queue, for every peer.
LEMMA DriveQueuesStep ==
    ASSUME NEW ps, PeersOK(ps), NEW unplanned \in BOOLEAN
    PROVE  LET r == DriveQueues(ps, unplanned) IN
           /\ PeersOK(r) /\ DOMAIN r = DOMAIN ps
           /\ \A p \in DOMAIN ps : r[p] = DriveQueue(ps[p], unplanned)
    <1>1. \A p \in DOMAIN ps : DriveQueue(ps[p], unplanned) \in Entry
      BY DriveQueueStep DEF PeersOK
    <1> QED  BY <1>1 DEF PeersOK, DriveQueues

\* drive_handshakes gives what it resends a new attempt, and leaves the others theirs.
LEMMA DriveHandshakesStep ==
    ASSUME OutboundOK(outbound), NEW resent, NEW failed
    PROVE  LET r == DriveHandshakes(resent, failed) IN
           /\ OutboundOK(r) /\ DOMAIN r = DOMAIN outbound \ failed
           /\ \A c \in DOMAIN r :
                 r[c].next_attempt = IF c \in resent THEN Max(Rtos) ELSE outbound[c].next_attempt
    <1>1. \A c \in DOMAIN outbound : outbound[c] \in Attempt
      BY DEF OutboundOK
    <1>2. Max(Rtos) \in Ticks
      BY Spans
    <1>3. \A c \in DOMAIN outbound : Min({outbound[c].attempts + 1, Attempts}) \in 1 .. Attempts
      <2> SUFFICES ASSUME NEW c \in DOMAIN outbound
                   PROVE  Min({outbound[c].attempts + 1, Attempts}) \in 1 .. Attempts
        OBVIOUS
      <2>1. outbound[c].attempts \in 1 .. Attempts /\ Attempts \in Nat \ {0}
        BY <1>1, WakeAssumption DEF Attempt
      <2>2. outbound[c].attempts + 1 \in Nat /\ Attempts \in Nat
        BY <2>1
      <2> QED  BY <2>1, <2>2, MinPair
    <1>4. \A c \in DOMAIN outbound :
             [next_attempt |-> Max(Rtos),
              attempts |-> Min({outbound[c].attempts + 1, Attempts})] \in Attempt
      BY <1>2, <1>3 DEF Attempt
    <1> QED  BY <1>1, <1>4 DEF OutboundOK, DriveHandshakes

-----------------------------------------------------------------------------
(* The steps.                                                              *)

\* What the invariant says of each variable.
LEMMA Typed ==
    ASSUME IInv
    PROVE  /\ next_wake \in Instants /\ polling \in Instants
           /\ PeersOK(peers) /\ OutboundOK(outbound)
           /\ \A p \in DOMAIN peers : peers[p] \in Entry
           /\ \A c \in DOMAIN outbound : outbound[c] \in Attempt
           /\ keepalive \in BOOLEAN /\ peer_timeout \in BOOLEAN /\ inside \in BOOLEAN
           /\ Covered(next_wake, peers, outbound, keepalive, peer_timeout)
BY DEF IInv, TypeOK, PeersOK, OutboundOK, Attempt

\* The same, of the next state.
LEMMA Kept ==
    ASSUME next_wake' \in Instants, polling' \in Instants,
           PeersOK(peers'), OutboundOK(outbound'),
           keepalive' \in BOOLEAN, peer_timeout' \in BOOLEAN, inside' \in BOOLEAN,
           Covered(next_wake', peers', outbound', keepalive', peer_timeout')
    PROVE  IInv'
BY DEF IInv, TypeOK, PeersOK, OutboundOK, Attempt

\* The top of poll, and its return.
LEMMA PollSteps ==
    ASSUME IInv, PollEnters \/ PollLeaves
    PROVE  IInv'
    <1>1. CASE PollLeaves
      BY <1>1, Zenon DEF PollLeaves, IInv, TypeOK
    <1>2. CASE PollEnters
      <2> DEFINE greet(p) == IF p \in Relayed /\ peers[p].refresh = 0
                             THEN [peers[p] EXCEPT !.refresh = Refresh, !.hello = 0]
                             ELSE peers[p]
      <2>1. /\ peers' = [p \in DOMAIN peers |-> greet(p)] /\ inside' = TRUE
            /\ polling' = Earliest({peers'[p].refresh : p \in DOMAIN peers \cap Relayed})
            /\ UNCHANGED <<next_wake, outbound, keepalive, peer_timeout>>
        BY <1>2, Zenon DEF PollEnters
      <2>2. ASSUME NEW p \in DOMAIN peers
            PROVE  /\ greet(p) \in Entry
                   /\ EntryCovered(next_wake, p, greet(p), keepalive, peer_timeout)
        <3>1. peers[p] \in Entry
          BY Typed
        <3>2. Refresh \in 0 .. Refresh /\ 0 \in 0 .. Floor
          BY WakeAssumption
        <3>3. /\ greet(p) \in Entry
              /\ greet(p).spoke = peers[p].spoke /\ greet(p).searching = peers[p].searching
              /\ greet(p).age = peers[p].age /\ greet(p).unheard = peers[p].unheard
              /\ greet(p).quiet = peers[p].quiet /\ greet(p).flight = peers[p].flight
          BY <3>1, <3>2, Zenon DEF Entry
        <3>4. EntryCovered(next_wake, p, peers[p], keepalive, peer_timeout)
          BY Typed DEF Covered
        <3> HIDE DEF greet
        <3>5. Eased(next_wake, greet(p), peers[p])
          BY <3>3 DEF Eased
        <3> QED  BY <3>1, <3>3, <3>4, <3>5, Typed, CoveredStill
      <2> HIDE DEF greet
      <2>3. DOMAIN peers' = DOMAIN peers /\ \A p \in DOMAIN peers : peers'[p] = greet(p)
        BY <2>1
      <2>4. PeersOK(peers')
        BY <2>2, <2>3, Typed DEF PeersOK
      <2>5. Covered(next_wake', peers', outbound', keepalive', peer_timeout')
        BY <2>1, <2>2, <2>3, Typed DEF Covered
      <2>6. polling' \in Instants
        <3> DEFINE S == {peers'[p].refresh : p \in DOMAIN peers \cap Relayed}
        <3>1. 0 .. Refresh \subseteq Ticks
          BY Spans
        <3>2. \A p \in DOMAIN peers : peers'[p].refresh \in 0 .. Refresh
          BY <2>2, <2>3 DEF Entry
        <3>3. S \in SUBSET Ticks
          BY <3>1, <3>2
        <3> HIDE DEF S
        <3>4. Earliest(S) \in Instants
          BY <3>3, EarliestStep
        <3> QED  BY <2>1, <3>4 DEF S
      <2> QED  BY <2>1, <2>4, <2>5, <2>6, Typed, Kept
    <1> QED  BY <1>1, <1>2

\* What every driver leaves of an entry.
LEMMA DrivenStep ==
    ASSUME NEW e \in Entry, NEW large \in BOOLEAN, NEW over \in BOOLEAN
    PROVE  LET r == DrivePmtu(KeepAlive(Retransmit(e, large)), over) IN
           /\ r \in Entry /\ r.spoke = e.spoke /\ r.unheard = e.unheard
           /\ r.quiet = e.quiet \/ r.quiet = 0
           /\ \A f \in r.flight : f.due # 0
           /\ e.spoke => ProbeAt(r) # 0
           /\ keepalive /\ e.spoke => KeepaliveAt(r) # 0
    <1> DEFINE a == Retransmit(e, large)
               b == KeepAlive(a)
               r == DrivePmtu(b, over)
    <1>1. /\ a \in Entry /\ a.spoke = e.spoke /\ a.unheard = e.unheard
          /\ a.quiet = e.quiet \/ a.quiet = 0
          /\ \A f \in a.flight : f.due # 0
      BY RetransmitStep
    <1> HIDE DEF a
    <1>2. /\ b \in Entry /\ b.spoke = a.spoke /\ b.unheard = a.unheard
          /\ b.flight = a.flight /\ (b.quiet = a.quiet \/ b.quiet = 0)
          /\ keepalive /\ a.spoke => KeepaliveAt(b) # 0
      BY <1>1, KeepAliveStep
    <1> HIDE DEF b
    <1>3. /\ r \in Entry /\ r.spoke = b.spoke /\ r.unheard = b.unheard
          /\ r.flight = b.flight /\ (r.quiet = b.quiet \/ r.quiet = 0)
          /\ b.spoke => ProbeAt(r) # 0
      BY <1>2, DrivePmtuStep
    <1>4. keepalive /\ e.spoke => KeepaliveAt(r) # 0
      <2>1. r.quiet = 0 => KeepaliveAt(r) = Every
        BY WakeAssumption DEF KeepaliveAt, Since
      <2>2. r.quiet = b.quiet => KeepaliveAt(r) = KeepaliveAt(b)
        BY DEF KeepaliveAt
      <2> QED  BY <1>1, <1>2, <1>3, <2>1, <2>2, WakeAssumption
    <1> HIDE DEF r
    <1> QED  BY <1>1, <1>2, <1>3, <1>4 DEF r, b, a

\* What is known of a pass once its drivers have run.
Driven(large, over) ==
    [p \in DOMAIN peers \ {q \in DOMAIN peers : peer_timeout /\ TimeoutAt(peers[q]) = 0} |->
        DrivePmtu(KeepAlive(Retransmit(peers[p], large)), over)]

\* A pass keeps the peers it does not time out, each driven.
LEMMA DrivenOK ==
    ASSUME IInv, NEW large \in BOOLEAN, NEW over \in BOOLEAN
    PROVE  /\ PeersOK(Driven(large, over)) /\ DOMAIN Driven(large, over) \subseteq DOMAIN peers
           /\ \A p \in DOMAIN Driven(large, over) :
                 /\ ~(peer_timeout /\ TimeoutAt(peers[p]) = 0)
                 /\ Driven(large, over)[p] = DrivePmtu(KeepAlive(Retransmit(peers[p], large)), over)
    <1>1. \A p \in DOMAIN peers :
             DrivePmtu(KeepAlive(Retransmit(peers[p], large)), over) \in Entry
      BY Typed, DrivenStep
    <1> QED  BY <1>1, Typed DEF Driven, PeersOK

\* What a whole pass does (poll_once).
LEMMA DrivePassFacts ==
    ASSUME DrivePass
    PROVE  \E large \in BOOLEAN, over \in BOOLEAN :
              /\ outbound' = DriveHandshakes(DueHandshakes, {})
              /\ next_wake' = EarliestDeadline(Driven(large, over), outbound', keepalive, peer_timeout)
              /\ peers' = DriveQueues(Driven(large, over), TRUE)
              /\ UNCHANGED <<keepalive, peer_timeout, polling, inside>>
BY Zenon DEF DrivePass, Driven

\* A whole pass rescans, and queues frames after that.
LEMMA DrivePassStep ==
    ASSUME IInv, DrivePass
    PROVE  IInv'
    <1>1. PICK large \in BOOLEAN, over \in BOOLEAN :
             /\ outbound' = DriveHandshakes(DueHandshakes, {})
             /\ next_wake' = EarliestDeadline(Driven(large, over), outbound', keepalive, peer_timeout)
             /\ peers' = DriveQueues(Driven(large, over), TRUE)
             /\ UNCHANGED <<keepalive, peer_timeout, polling, inside>>
      BY DrivePassFacts, Zenon
    <1> DEFINE driven == Driven(large, over)
    <1>2. OutboundOK(outbound')
      BY <1>1, Typed, DriveHandshakesStep, Zenon
    <1>3. PeersOK(driven)
      BY DrivenOK
    <1> HIDE DEF driven
    <1>4. /\ next_wake' = EarliestDeadline(driven, outbound', keepalive, peer_timeout)
          /\ peers' = DriveQueues(driven, TRUE)
      BY <1>1 DEF driven
    <1>5. /\ next_wake' \in Instants
          /\ \A c \in DOMAIN outbound' : CoveredBy(next_wake', outbound'[c].next_attempt)
          /\ \A p \in DOMAIN driven : EntryCovered(next_wake', p, driven[p], keepalive, peer_timeout)
      BY <1>2, <1>3, <1>4, Typed, Scan
    <1>6. /\ PeersOK(peers') /\ DOMAIN peers' = DOMAIN driven
          /\ \A p \in DOMAIN driven : peers'[p] = DriveQueue(driven[p], TRUE)
      BY <1>3, <1>4, DriveQueuesStep, Zenon
    <1>7. ASSUME NEW p \in DOMAIN driven
          PROVE  EntryCovered(next_wake', p, peers'[p], keepalive, peer_timeout)
      <2> DEFINE e == driven[p]
                 r == peers'[p]
      <2>1. e \in Entry /\ r \in Entry
        BY <1>3, <1>6 DEF PeersOK
      <2>2. Sent(r, e, TRUE)
        BY <1>6, <2>1, DriveQueueStep, Zenon
      <2>3. EntryCovered(next_wake', p, e, keepalive, peer_timeout)
        BY <1>5
      <2> HIDE DEF e, r
      <2>4. Eased(next_wake', r, e)
        BY <2>2 DEF Sent, Eased
      <2>5. EntryCovered(next_wake', p, r, keepalive, peer_timeout)
        BY <1>5, <2>1, <2>3, <2>4, Typed, CoveredStill
      <2> QED  BY <2>5 DEF r
    <1>8. Covered(next_wake', peers', outbound', keepalive', peer_timeout')
      BY <1>1, <1>5, <1>6, <1>7, Zenon DEF Covered
    <1> QED  BY <1>1, <1>2, <1>5, <1>6, <1>8, Typed, Kept

\* A pass cut short leaves the wake due, which covers everything.
LEMMA CutShort ==
    ASSUME IInv, 0 \in next_wake', next_wake' \in Instants,
           PeersOK(peers'), OutboundOK(outbound'), inside' \in BOOLEAN,
           UNCHANGED <<keepalive, peer_timeout, polling>>
    PROVE  IInv'
    <1>1. \A c \in DOMAIN outbound' : CoveredBy(next_wake', outbound'[c].next_attempt)
      <2>1. \A t \in Ticks : CoveredBy(next_wake', t)
        BY Spans DEF CoveredBy
      <2> QED  BY <2>1 DEF OutboundOK, Attempt
    <1>2. \A p \in DOMAIN peers' : EntryCovered(next_wake', p, peers'[p], keepalive', peer_timeout')
      BY ZeroCovers DEF PeersOK
    <1>3. Covered(next_wake', peers', outbound', keepalive', peer_timeout')
      BY <1>1, <1>2 DEF Covered
    <1> QED  BY <1>3, Typed, Kept

\* A pass cut short leaves the wake due, so that the next one comes at once.
LEMMA FailedPassSteps ==
    ASSUME IInv, ConnectFailed \/ PassFails
    PROVE  IInv'
    <1>1. \A p \in DOMAIN peers : \A large \in BOOLEAN :
             /\ peers[p] \in Entry
             /\ Retransmit(peers[p], large) \in Entry
             /\ KeepAlive(Retransmit(peers[p], large)) \in Entry
      BY Typed, RetransmitStep, KeepAliveStep
    <1>2. DOMAIN peers \subseteq Peers
      BY Typed DEF PeersOK
    <1>3. CASE ConnectFailed
      <2>1. PICK large \in BOOLEAN, c \in Spent, resent \in SUBSET DueHandshakes :
               /\ peers' = [p \in DOMAIN peers |-> Retransmit(peers[p], large)]
               /\ outbound' = DriveHandshakes(resent, {c})
        BY <1>3 DEF ConnectFailed
      <2>2. PeersOK(peers')
        BY <1>1, <1>2, <2>1 DEF PeersOK
      <2>3. OutboundOK(outbound')
        BY <2>1, Typed, DriveHandshakesStep, Zenon
      <2>4. /\ next_wake' = next_wake /\ next_wake = {0} /\ inside' \in BOOLEAN
            /\ UNCHANGED <<keepalive, peer_timeout, polling>>
        BY <1>3, Zenon DEF ConnectFailed
      <2> QED  BY <2>2, <2>3, <2>4, Typed, CutShort
    <1>4. CASE PassFails
      <2>1. PICK reached \in SUBSET DOMAIN peers :
             \/ /\ peers' = [p \in DOMAIN peers |->
                               IF p \in reached THEN Retransmit(peers[p], FALSE) ELSE peers[p]]
                /\ UNCHANGED outbound
             \/ /\ peers' = [p \in DOMAIN peers |->
                               LET e == Retransmit(peers[p], FALSE)
                               IN IF p \in reached THEN KeepAlive(e) ELSE e]
                /\ outbound' = DriveHandshakes(DueHandshakes, {})
        BY <1>4, Zenon DEF PassFails
      <2>2. DOMAIN peers' = DOMAIN peers /\ \A p \in DOMAIN peers : peers'[p] \in Entry
        BY <1>1, <2>1, Zenon
      <2>3. PeersOK(peers')
        BY <1>2, <2>2 DEF PeersOK
      <2>4. OutboundOK(outbound')
        <3>1. OutboundOK(DriveHandshakes(DueHandshakes, {})) /\ OutboundOK(outbound)
          BY Typed, DriveHandshakesStep, Zenon
        <3>2. outbound' = outbound \/ outbound' = DriveHandshakes(DueHandshakes, {})
          BY <2>1, Zenon
        <3> QED  BY <3>1, <3>2
      <2>5. /\ next_wake' = next_wake /\ next_wake = {0} /\ inside' \in BOOLEAN
            /\ UNCHANGED <<keepalive, peer_timeout, polling>>
        BY <1>4, Zenon DEF PassFails
      <2> QED  BY <2>3, <2>4, <2>5, Typed, CutShort
    <1> QED  BY <1>3, <1>4

\* One entry changes, the wake comes forward or stays.
LEMMA OneEntry ==
    ASSUME IInv, NEW p \in DOMAIN peers, peers' = [peers EXCEPT ![p] = peers'[p]],
           peers'[p] \in Entry, next_wake' \in Instants,
           NoLater(next_wake', next_wake),
           EntryCovered(next_wake', p, peers'[p], keepalive, peer_timeout),
           UNCHANGED <<outbound, keepalive, peer_timeout, polling, inside>>
    PROVE  IInv'
    <1>1. DOMAIN peers' = DOMAIN peers /\ \A q \in DOMAIN peers \ {p} : peers'[q] = peers[q]
      OBVIOUS
    <1>2. PeersOK(peers')
      BY <1>1, Typed DEF PeersOK
    <1>3. \A q \in DOMAIN peers : EntryCovered(next_wake', q, peers'[q], keepalive, peer_timeout)
      <2> SUFFICES ASSUME NEW q \in DOMAIN peers, q # p
                   PROVE  EntryCovered(next_wake', q, peers[q], keepalive, peer_timeout)
        BY <1>1
      <2>1. peers[q] \in Entry /\ EntryCovered(next_wake, q, peers[q], keepalive, peer_timeout)
        BY Typed DEF Covered
      <2> QED  BY <2>1, Typed, CoveredForward
    <1>4. \A c \in DOMAIN outbound : CoveredBy(next_wake', outbound[c].next_attempt)
      BY Typed DEF Covered, Attempt, NoLater
    <1>5. Covered(next_wake', peers', outbound', keepalive', peer_timeout')
      BY <1>1, <1>3, <1>4 DEF Covered
    <1> QED  BY <1>2, <1>5, Typed, Kept

\* A pass in which nothing is due drives the queues alone.
LEMMA QueuePassStep ==
    ASSUME IInv, QueuePass
    PROVE  IInv'
    <1>1. /\ peers' = DriveQueues(peers, TRUE)
          /\ UNCHANGED <<next_wake, outbound, keepalive, peer_timeout, polling, inside>>
      BY DEF QueuePass
    <1>2. /\ PeersOK(peers') /\ DOMAIN peers' = DOMAIN peers
          /\ \A p \in DOMAIN peers : peers'[p] = DriveQueue(peers[p], TRUE)
      BY <1>1, Typed, DriveQueuesStep, Zenon
    <1>3. ASSUME NEW p \in DOMAIN peers
          PROVE  EntryCovered(next_wake, p, peers'[p], keepalive, peer_timeout)
      <2> DEFINE e == peers[p]
                 r == peers'[p]
      <2>1. e \in Entry /\ r \in Entry
        BY <1>2, Typed DEF PeersOK
      <2>2. Sent(r, e, TRUE)
        BY <1>2, <2>1, DriveQueueStep, Zenon
      <2>3. EntryCovered(next_wake, p, e, keepalive, peer_timeout)
        BY Typed DEF Covered
      <2> HIDE DEF e, r
      <2>4. Eased(next_wake, r, e)
        BY <2>2 DEF Sent, Eased
      <2>5. EntryCovered(next_wake, p, r, keepalive, peer_timeout)
        BY <2>1, <2>3, <2>4, Typed, CoveredStill
      <2> QED  BY <2>5 DEF r
    <1>4. Covered(next_wake', peers', outbound', keepalive', peer_timeout')
      BY <1>1, <1>2, <1>3, Typed, Zenon DEF Covered
    <1> QED  BY <1>1, <1>2, <1>4, Typed, Kept

\* deliver.  The peer may have a keep-alive coming from now on, and a search.
LEMMA DeliverStep ==
    ASSUME IInv, NEW p \in DOMAIN peers, Deliver(p)
    PROVE  IInv'
    <1> DEFINE e == peers[p]
               r == peers'[p]
    <1>0. e \in Entry /\ EntryCovered(next_wake, p, e, keepalive, peer_timeout)
          /\ next_wake \in Instants /\ keepalive \in BOOLEAN /\ peer_timeout \in BOOLEAN
      BY Typed DEF Covered
    <1>1. PICK acked \in SUBSET e.flight, rto \in Rtos, answered, ended \in BOOLEAN :
             /\ ended => e.searching
             /\ peers' = [peers EXCEPT ![p] = Heard(e, acked, rto, answered, ended)]
      BY Zenon DEF Deliver
    <1>2. /\ next_wake' = IF ~e.spoke /\ p \in Probing THEN WakeAt(next_wake, 0) ELSE next_wake
          /\ UNCHANGED <<outbound, keepalive, peer_timeout, polling, inside>>
      BY DEF Deliver
    <1> DEFINE quiet == IF answered THEN 0 ELSE e.quiet
               age == IF ended THEN 0 ELSE e.age
               searching == e.searching /\ ~ended
               flight == e.flight \ acked
    <1>3. /\ quiet \in 0 .. Every /\ age \in 0 .. Research /\ searching \in BOOLEAN
          /\ flight \in SUBSET Frame /\ 0 \in 0 .. Limit
          /\ (quiet = e.quiet \/ quiet = 0)
      BY <1>0, WakeAssumption DEF Entry
    <1>4. r = Heard(e, acked, rto, answered, ended) /\ peers' = [peers EXCEPT ![p] = r]
      BY <1>1
    <1>5. /\ r \in Entry /\ r.spoke = TRUE /\ r.unheard = 0 /\ r.flight = flight
          /\ r.quiet = quiet /\ r.age = age /\ r.searching = searching
      <2>1. /\ r.spoke = TRUE /\ r.unheard = 0 /\ r.flight = flight
            /\ r.quiet = quiet /\ r.age = age /\ r.searching = searching
        BY <1>0, <1>4 DEF Entry, Heard
      <2>2. r = [e EXCEPT !.spoke = TRUE, !.unheard = 0, !.rto = rto, !.flight = flight,
                        !.quiet = quiet, !.age = age, !.searching = searching]
        BY <1>4 DEF Heard
      <2> HIDE DEF quiet, age, searching, flight, r
      <2> QED  BY <1>0, <1>3, <2>1, <2>2, Zenon DEF Entry
    <1>6. 0 \in Ticks
      BY Spans
    <1>7. /\ next_wake' \in Instants
          /\ NoLater(next_wake', next_wake)
      <2>1. NoLater(next_wake, next_wake)
        BY Zenon DEF NoLater
      <2>2. WakeAt(next_wake, 0) \in Instants /\ NoLater(WakeAt(next_wake, 0), next_wake)
        BY <1>0, <1>6, WakeAtStep, Zenon
      <2> QED  BY <1>0, <1>2, <2>1, <2>2, Zenon
    <1>8. EntryCovered(next_wake', p, r, keepalive, peer_timeout)
      <2>1. CASE ~e.spoke /\ p \in Probing
        <3>1. 0 \in next_wake'
          BY <1>0, <1>2, <1>6, <2>1, WakeAtStep
        <3> HIDE DEF r
        <3> QED  BY <1>5, <3>1, ZeroCovers
      <2>2. CASE ~(~e.spoke /\ p \in Probing)
        <3>0. next_wake' = next_wake /\ next_wake \in SUBSET Nat
          BY <1>0, <1>2, <2>2, InstantsNat
        <3>1. \A f \in r.flight : f.unplanned \/ CoveredBy(next_wake, f.due)
          BY <1>0, <1>5 DEF EntryCovered
        <3>2. /\ KeepaliveAt(e) <= KeepaliveAt(r) /\ TimeoutAt(e) <= TimeoutAt(r)
          <4>1. /\ e.quiet \in Nat /\ e.unheard \in Nat /\ Every \in Nat /\ Limit \in Nat
            BY <1>0, WakeAssumption DEF Entry
          <4> HIDE DEF r
          <4> QED  BY <1>3, <1>5, <4>1 DEF KeepaliveAt, TimeoutAt, Since
        <3>3. /\ KeepaliveAt(e) \in Nat /\ KeepaliveAt(r) \in Nat
              /\ TimeoutAt(e) \in Nat /\ TimeoutAt(r) \in Nat
              /\ SearchAt(e) \in Nat /\ SearchAt(r) \in Nat
          <4> HIDE DEF r
          <4> QED  BY <1>0, <1>5, Deadlines, Spans, Zenon
        <3>4. keepalive => CoveredBy(next_wake, KeepaliveAt(r))
          <4> HIDE DEF r
          <4> QED  BY <1>0, <3>0, <3>2, <3>3, LaterCovered DEF EntryCovered
        <3>5. peer_timeout => CoveredBy(next_wake, TimeoutAt(r))
          <4> HIDE DEF r
          <4> QED  BY <1>0, <3>0, <3>2, <3>3, LaterCovered DEF EntryCovered
        <3>6. ASSUME p \in Probing PROVE CoveredBy(next_wake, SearchAt(r))
          <4>1. CoveredBy(next_wake, SearchAt(e))
            BY <1>0, <2>2, <3>6 DEF EntryCovered
          <4>2. SearchAt(e) <= SearchAt(r)
            <5>1. CASE ended
              <6>1. SearchAt(e) = Since(e.age, Max(Rtos)) /\ SearchAt(r) = Since(0, Research)
                BY <1>1, <1>5, <5>1, Zenon DEF SearchAt
              <6>2. /\ e.age \in Nat /\ Max(Rtos) \in Nat /\ Research \in Nat
                    /\ Max(Rtos) <= Research
                BY <1>0, Spans, WakeAssumption DEF Entry
              <6> QED  BY <6>1, <6>2 DEF Since
            <5>2. CASE ~ended
              <6>1. r.age = e.age /\ r.searching = e.searching
                BY <1>0, <1>5, <5>2 DEF Entry
              <6>2. SearchAt(r) = SearchAt(e)
                BY <6>1 DEF SearchAt
              <6> QED  BY <3>3, <6>2
            <5> QED  BY <5>1, <5>2
          <4> HIDE DEF r
          <4> QED  BY <3>0, <3>3, <4>1, <4>2, LaterCovered
        <3> QED  BY <3>0, <3>1, <3>4, <3>5, <3>6 DEF EntryCovered
      <2> QED  BY <2>1, <2>2
    <1> QED  BY <1>2, <1>4, <1>5, <1>7, <1>8, OneEntry

\* settle_probe
LEMMA MovedStep ==
    ASSUME IInv, NEW p \in DOMAIN peers, Moved(p)
    PROVE  IInv'
    <1> DEFINE r == [peers[p] EXCEPT !.searching = FALSE, !.age = Research,
                                     !.spoke = TRUE, !.unheard = 0, !.rto = Max(Rtos)]
    <1>0. peers[p] \in Entry /\ next_wake \in Instants /\ 0 \in Ticks /\ Max(Rtos) \in Rtos
      BY Typed, Spans
    <1>a. Research \in 0 .. Research /\ 0 \in 0 .. Limit
      BY WakeAssumption
    <1>1. r \in Entry
      BY <1>0, <1>a, Zenon DEF Entry
    <1>2. /\ peers' = [peers EXCEPT ![p] = r] /\ next_wake' = WakeAt(next_wake, 0)
          /\ UNCHANGED <<outbound, keepalive, peer_timeout, polling, inside>>
      BY Zenon DEF Moved
    <1> HIDE DEF r
    <1>3. peers'[p] = r /\ peers' = [peers EXCEPT ![p] = peers'[p]]
      BY <1>2
    <1>4. /\ next_wake' \in Instants /\ 0 \in next_wake'
          /\ NoLater(next_wake', next_wake)
      BY <1>0, <1>2, WakeAtStep
    <1>5. EntryCovered(next_wake', p, r, keepalive, peer_timeout)
      BY <1>1, <1>4, ZeroCovers
    <1> QED  BY <1>1, <1>2, <1>3, <1>4, <1>5, OneEntry, Zenon

\* What rescans covers whatever there is.
LEMMA Rescanned ==
    ASSUME IInv, PeersOK(peers'), OutboundOK(outbound'),
           keepalive' \in BOOLEAN, peer_timeout' \in BOOLEAN, inside' \in BOOLEAN,
           next_wake' = EarliestDeadline(peers', outbound', keepalive', peer_timeout'),
           UNCHANGED polling
    PROVE  IInv'
    <1>1. /\ next_wake' \in Instants
          /\ \A c \in DOMAIN outbound' : CoveredBy(next_wake', outbound'[c].next_attempt)
          /\ \A p \in DOMAIN peers' :
                EntryCovered(next_wake', p, peers'[p], keepalive', peer_timeout')
      BY Scan
    <1>2. Covered(next_wake', peers', outbound', keepalive', peer_timeout')
      BY <1>1 DEF Covered
    <1> QED  BY <1>1, <1>2, Typed, Kept

\* A handshake accepted: a peer that never spoke, and a rescan.
LEMMA AcceptStep ==
    ASSUME IInv, NEW p \in Peers, Accept(p)
    PROVE  IInv'
    <1>1. Filed(Max(Rtos)) \in Entry
      <2>1. /\ 0 \in 0 .. Every /\ 0 \in 0 .. Limit /\ 0 \in 0 .. Frags
            /\ Research \in 0 .. Research /\ Refresh \in 0 .. Refresh /\ Floor \in 0 .. Floor
        BY WakeAssumption
      <2>2. Max(Rtos) \in Rtos
        BY Spans
      <2> QED  BY <2>1, <2>2 DEF Filed, Entry
    <1>2. /\ peers' = [q \in DOMAIN peers \cup {p} |->
                         IF q = p THEN Filed(Max(Rtos)) ELSE peers[q]]
          /\ next_wake' = EarliestDeadline(peers', outbound', keepalive, peer_timeout)
          /\ inside' = FALSE /\ UNCHANGED <<keepalive, peer_timeout, polling>>
      BY DEF Accept, File
    <1>3. PeersOK(peers')
      BY <1>1, <1>2, Typed DEF PeersOK
    <1>4. OutboundOK(outbound')
      BY Typed, Zenon DEF Accept, OutboundOK
    <1> QED  BY <1>2, <1>3, <1>4, Typed, Rescanned, Zenon

\* connect brings the wake forward to its first repetition.
LEMMA ConnectStep ==
    ASSUME IInv, NEW c \in Connects, Connect(c)
    PROVE  IInv'
    <1> DEFINE new == [next_attempt |-> Max(Rtos), attempts |-> 1]
    <1>0. Max(Rtos) \in Ticks /\ 1 \in 1 .. Attempts
      BY Spans, WakeAssumption
    <1>1. new \in Attempt /\ new.next_attempt = Max(Rtos)
      BY <1>0 DEF Attempt
    <1>2. /\ outbound' = [d \in DOMAIN outbound \cup {c} |-> IF d = c THEN new ELSE outbound[d]]
          /\ next_wake' = WakeAt(next_wake, Max(Rtos))
          /\ UNCHANGED <<peers, keepalive, peer_timeout, polling, inside>>
      BY DEF Connect
    <1> HIDE DEF new
    <1>3. OutboundOK(outbound')
      BY <1>1, <1>2, Typed DEF OutboundOK
    <1>4. /\ next_wake' \in Instants /\ CoveredBy(next_wake', Max(Rtos))
          /\ NoLater(next_wake', next_wake)
      BY <1>0, <1>2, Typed, WakeAtStep
    <1>5. \A d \in DOMAIN outbound : CoveredBy(next_wake', outbound[d].next_attempt)
      BY <1>4, Typed DEF Covered, Attempt, NoLater
    <1>6. \A d \in DOMAIN outbound' : CoveredBy(next_wake', outbound'[d].next_attempt)
      BY <1>1, <1>2, <1>4, <1>5
    <1>7. \A p \in DOMAIN peers : EntryCovered(next_wake', p, peers[p], keepalive, peer_timeout)
      BY <1>4, Typed, CoveredForward DEF Covered
    <1>8. Covered(next_wake', peers', outbound', keepalive', peer_timeout')
      BY <1>2, <1>6, <1>7 DEF Covered
    <1> QED  BY <1>2, <1>3, <1>4, <1>8, Typed, Kept

\* send_reliable, of a payload that fits one frame.
LEMMA SendStep ==
    ASSUME IInv, NEW p \in DOMAIN peers, SendReliable(p)
    PROVE  IInv'
    <1> DEFINE e == peers[p]
               slots == {Min(Free(e))}
               r == Register(e, slots, FALSE)
               at == Min(RetransmitAt(r))
    <1>0. e \in Entry /\ EntryCovered(next_wake, p, e, keepalive, peer_timeout)
          /\ next_wake \in Instants
      BY Typed DEF Covered
    <1>1. /\ Free(e) # {} /\ peers' = [peers EXCEPT ![p] = r]
          /\ next_wake' = WakeAt(next_wake, Min(RetransmitAt(peers'[p])))
          /\ UNCHANGED <<outbound, keepalive, peer_timeout, polling, inside>>
      BY DEF SendReliable
    <1>2. Free(e) \in SUBSET (1 .. Window) /\ Free(e) \in SUBSET Nat
      BY WakeAssumption DEF Free
    <1>3. slots \in SUBSET (1 .. Window)
      BY <1>1, <1>2, MinNat
    <1>4. r \in Entry /\ Sent(r, e, FALSE)
      BY <1>0, <1>3, RegisterStep, Zenon
    <1>5. RetransmitAt(r) # {}
      <2>1. [slot |-> Min(Free(e)), due |-> e.rto, tries |-> 0, unplanned |-> FALSE]
               \in [slot : slots, due : {e.rto}, tries : {0}, unplanned : {FALSE}]
        OBVIOUS
      <2>2. r.flight = e.flight \cup [slot : slots, due : {e.rto}, tries : {0}, unplanned : {FALSE}]
        BY <1>0 DEF Register, Entry
      <2> QED  BY <2>1, <2>2, Zenon DEF RetransmitAt
    <1> HIDE DEF r, slots
    <1>6. peers'[p] = r /\ peers' = [peers EXCEPT ![p] = peers'[p]]
          /\ next_wake' = WakeAt(next_wake, at)
      BY <1>1
    <1>7. RetransmitAt(r) \in SUBSET Ticks /\ RetransmitAt(r) \in SUBSET Nat
      BY <1>4, Deadlines, Spans, Zenon
    <1>8. at \in RetransmitAt(r) /\ \A y \in RetransmitAt(r) : at <= y
      BY <1>5, <1>7, MinNat
    <1>9. /\ next_wake' \in Instants /\ CoveredBy(next_wake', at)
          /\ NoLater(next_wake', next_wake)
      <2>1. at \in Ticks
        BY <1>7, <1>8
      <2> HIDE DEF at
      <2> QED  BY <1>0, <1>6, <2>1, WakeAtStep
    <1>10. \A f \in r.flight : CoveredBy(next_wake', f.due)
      <2> SUFFICES ASSUME NEW f \in r.flight PROVE CoveredBy(next_wake', f.due)
        OBVIOUS
      <2>1. f.due \in RetransmitAt(r)
        BY <1>4, Deadlines
      <2>2. next_wake' \in SUBSET Nat /\ at \in Nat /\ f.due \in Nat /\ at <= f.due
        BY <1>7, <1>8, <1>9, <2>1, InstantsNat
      <2> HIDE DEF at
      <2> QED  BY <1>9, <2>2, LaterCovered
    <1>11. EntryCovered(next_wake', p, e, keepalive, peer_timeout)
      BY <1>0, <1>9, Typed, CoveredForward, Zenon
    <1>12. Eased(next_wake', r, e)
      BY <1>4, <1>10 DEF Sent, Eased
    <1>13. EntryCovered(next_wake', p, r, keepalive, peer_timeout)
      BY <1>0, <1>4, <1>9, <1>11, <1>12, Typed, CoveredStill, Zenon
    <1> QED  BY <1>1, <1>4, <1>6, <1>9, <1>13, OneEntry, Zenon

\* The same when it fails: the frame is there, and no wake is planned for it.
LEMMA SendFailsStep ==
    ASSUME IInv, NEW p \in DOMAIN peers, SendFails(p)
    PROVE  IInv'
    <1> DEFINE e == peers[p]
               slots == {Min(Free(e))}
               g == Register(e, slots, TRUE)
               r == [g EXCEPT !.quiet = e.quiet]
    <1>0. e \in Entry /\ EntryCovered(next_wake, p, e, keepalive, peer_timeout)
          /\ next_wake \in Instants
      BY Typed DEF Covered
    <1>1. /\ Free(e) # {} /\ peers' = [peers EXCEPT ![p] = r]
          /\ UNCHANGED <<next_wake, outbound, keepalive, peer_timeout, polling, inside>>
      BY DEF SendFails
    <1>2. Free(e) \in SUBSET (1 .. Window) /\ Free(e) \in SUBSET Nat
      BY WakeAssumption DEF Free
    <1>3. slots \in SUBSET (1 .. Window)
      BY <1>1, <1>2, MinNat
    <1>4. g \in Entry /\ Sent(g, e, TRUE)
      BY <1>0, <1>3, RegisterStep, Zenon
    <1> HIDE DEF g, slots
    <1>5. /\ r \in Entry /\ r.spoke = e.spoke /\ r.unheard = e.unheard
          /\ r.searching = e.searching /\ r.age = e.age /\ r.quiet = e.quiet
          /\ r.flight = g.flight
      BY <1>0, <1>4 DEF Entry, Sent
    <1> HIDE DEF r
    <1>6. Eased(next_wake, r, e)
      BY <1>4, <1>5 DEF Sent, Eased
    <1>7. EntryCovered(next_wake, p, r, keepalive, peer_timeout)
      BY <1>0, <1>5, <1>6, Typed, CoveredStill, Zenon
    <1>8. peers'[p] = r /\ peers' = [peers EXCEPT ![p] = peers'[p]]
      BY <1>1
    <1>9. NoLater(next_wake, next_wake)
      BY Zenon DEF NoLater
    <1> QED  BY <1>0, <1>1, <1>5, <1>7, <1>8, <1>9, OneEntry, Zenon

\* send_reliable, of a payload of several frames, rescans.
LEMMA SendFragmentedStep ==
    ASSUME IInv, NEW p \in DOMAIN peers, SendFragmented(p)
    PROVE  IInv'
    <1> DEFINE ps == [peers EXCEPT ![p].queued = Frags]
    <1>1. PeersOK(ps)
      BY Typed, WakeAssumption DEF PeersOK, Entry
    <1>2. /\ peers' = DriveQueues(ps, FALSE)
          /\ next_wake' = EarliestDeadline(peers', outbound, keepalive, peer_timeout)
          /\ UNCHANGED <<outbound, keepalive, peer_timeout, polling, inside>>
      BY DEF SendFragmented
    <1> HIDE DEF ps
    <1>3. PeersOK(peers')
      BY <1>1, <1>2, DriveQueuesStep, Zenon
    <1> QED  BY <1>2, <1>3, Typed, Rescanned

\* A setting rescans.
LEMMA SettingSteps ==
    ASSUME IInv, SetKeepalive \/ SetPeerTimeout
    PROVE  IInv'
    <1>1. CASE SetKeepalive
      BY <1>1, Typed, Rescanned DEF SetKeepalive
    <1>2. CASE SetPeerTimeout
      BY <1>2, Typed, Rescanned DEF SetPeerTimeout
    <1> QED  BY <1>1, <1>2

\* disconnect leaves the wake, which is early at worst.
LEMMA DisconnectStep ==
    ASSUME IInv, Disconnect
    PROVE  IInv'
    <1>1. UNCHANGED <<next_wake, keepalive, peer_timeout, polling, inside>>
      BY DEF Disconnect
    <1>2. /\ DOMAIN outbound' \subseteq DOMAIN outbound
          /\ \A c \in DOMAIN outbound' : outbound'[c] = outbound[c]
          /\ DOMAIN peers' \subseteq DOMAIN peers
          /\ \A p \in DOMAIN peers' : peers'[p] = peers[p]
      BY Zenon DEF Disconnect
    <1>3. PeersOK(peers') /\ OutboundOK(outbound')
      BY <1>2, Typed DEF PeersOK, OutboundOK
    <1>4. Covered(next_wake', peers', outbound', keepalive', peer_timeout')
      BY <1>1, <1>2, Typed DEF Covered
    <1> QED  BY <1>1, <1>3, <1>4, Typed, Kept

\* A tick brings a deadline and the wake that covers it nearer together.
LEMMA CoveredDown ==
    ASSUME NEW wake \in Instants, NEW at \in Nat, CoveredBy(wake, at)
    PROVE  CoveredBy({Down(t) : t \in wake}, Down(at))
    <1>1. PICK t \in wake : t <= at
      BY DEF CoveredBy
    <1>2. t \in Nat
      BY InstantsNat
    <1>3. Down(t) <= Down(at)
      BY <1>1, <1>2 DEF Down
    <1> QED  BY <1>3 DEF CoveredBy

\* An instant a tick later is an instant.
LEMMA DownInstants ==
    /\ \A t \in Ticks : Down(t) \in Ticks
    /\ \A wake \in Instants : {Down(t) : t \in wake} \in Instants
    <1>1. ASSUME NEW t \in Ticks PROVE Down(t) \in Ticks
      <2>1. t \in Nat /\ 0 .. t \subseteq Ticks
        BY Spans
      <2>2. Down(t) \in 0 .. t
        BY <2>1 DEF Down
      <2> QED  BY <2>1, <2>2
    <1>2. ASSUME NEW wake \in Instants PROVE {Down(t) : t \in wake} \in Instants
      BY <1>1 DEF Instants
    <1> QED  BY <1>1, <1>2

\* A deadline that is an age away comes nearer by one with it.
LEMMA Older ==
    ASSUME NEW span \in Nat, NEW limit \in Nat, span <= limit, NEW age \in 0 .. limit
    PROVE  /\ Min({age + 1, limit}) \in 0 .. limit
           /\ Since(Min({age + 1, limit}), span) = Down(Since(age, span))
    <1>1. Min({age + 1, limit}) = IF age + 1 <= limit THEN age + 1 ELSE limit
      BY MinPair
    <1> QED  BY <1>1 DEF Since, Down

\* An entry a tick later.
Ticked(e) ==
    [e EXCEPT
       !.quiet = Min({@ + 1, Every}), !.unheard = Min({@ + 1, Limit}),
       !.flight = {[f EXCEPT !.due = Down(@)] : f \in @},
       !.age = Min({@ + 1, Research}),
       !.refresh = Down(@), !.hello = Min({@ + 1, Floor})]

\* An entry ages by a tick, and so does the wake that covers it.
LEMMA TickedEntry ==
    ASSUME NEW p, NEW e \in Entry, NEW wake \in Instants, NEW ka \in BOOLEAN, NEW to \in BOOLEAN,
           EntryCovered(wake, p, e, ka, to)
    PROVE  /\ Ticked(e) \in Entry
           /\ EntryCovered({Down(t) : t \in wake}, p, Ticked(e), ka, to)
    <1> DEFINE quiet == Min({e.quiet + 1, Every})
               unheard == Min({e.unheard + 1, Limit})
               flight == {[f EXCEPT !.due = Down(@)] : f \in e.flight}
               age == Min({e.age + 1, Research})
               refresh == Down(e.refresh)
               hello == Min({e.hello + 1, Floor})
               r == Ticked(e)
               soon == {Down(t) : t \in wake}
    <1>0. /\ e.quiet \in 0 .. Every /\ e.unheard \in 0 .. Limit /\ e.age \in 0 .. Research
          /\ e.refresh \in 0 .. Refresh /\ e.hello \in 0 .. Floor /\ e.flight \subseteq Frame
          /\ e.searching \in BOOLEAN
      BY DEF Entry
    <1>1. /\ Every \in Nat /\ Limit \in Nat /\ Research \in Nat /\ Floor \in Nat /\ Refresh \in Nat
          /\ Max(Rtos) \in Nat /\ Max(Rtos) <= Research
      BY WakeAssumption, Spans
    <1>2. /\ quiet \in 0 .. Every /\ Since(quiet, Every) = Down(Since(e.quiet, Every))
      BY <1>0, <1>1, Older
    <1>3. /\ unheard \in 0 .. Limit /\ Since(unheard, Limit) = Down(Since(e.unheard, Limit))
      BY <1>0, <1>1, Older
    <1>4. /\ age \in 0 .. Research /\ Since(age, Research) = Down(Since(e.age, Research))
          /\ Since(age, Max(Rtos)) = Down(Since(e.age, Max(Rtos)))
      BY <1>0, <1>1, Older
    <1>5. hello \in 0 .. Floor
      BY <1>0, <1>1, Older
    <1>6. refresh \in 0 .. Refresh
      BY <1>0, <1>1 DEF Down
    <1>7. \A f \in e.flight : [f EXCEPT !.due = Down(@)] \in Frame
      BY <1>0, DownInstants DEF Frame
    <1>8. flight \in SUBSET Frame
      BY <1>7
    <1>9. r = [e EXCEPT !.quiet = quiet, !.unheard = unheard, !.flight = flight,
                        !.age = age, !.refresh = refresh, !.hello = hello]
      BY DEF Ticked
    <1> HIDE DEF quiet, unheard, age, refresh, hello, r
    <1>10. /\ r.quiet = quiet /\ r.unheard = unheard /\ r.flight = flight /\ r.age = age
           /\ r.searching = e.searching /\ r.spoke = e.spoke
      BY <1>9 DEF Entry
    <1>11. r \in Entry
      <2> HIDE DEF flight
      <2> QED  BY <1>2, <1>3, <1>4, <1>5, <1>6, <1>8, <1>9, Zenon DEF Entry
    <1>12. /\ KeepaliveAt(r) = Down(KeepaliveAt(e)) /\ TimeoutAt(r) = Down(TimeoutAt(e))
           /\ SearchAt(r) = Down(SearchAt(e))
      BY <1>0, <1>2, <1>3, <1>4, <1>10 DEF KeepaliveAt, TimeoutAt, SearchAt
    <1>13. KeepaliveAt(e) \in Nat /\ TimeoutAt(e) \in Nat /\ SearchAt(e) \in Nat
      BY Deadlines, Spans, Zenon
    <1>14. \A f \in r.flight : f.unplanned \/ CoveredBy(soon, f.due)
      <2> SUFFICES ASSUME NEW f \in e.flight
                   PROVE  LET g == [f EXCEPT !.due = Down(@)]
                          IN g.unplanned \/ CoveredBy(soon, g.due)
        BY <1>10, Zenon
      <2>1. f \in Frame /\ f.due \in Nat
        BY <1>0, Spans, Zenon DEF Frame
      <2>2. /\ [f EXCEPT !.due = Down(@)].unplanned = f.unplanned
            /\ [f EXCEPT !.due = Down(@)].due = Down(f.due)
        BY <2>1 DEF Frame
      <2>3. f.unplanned \/ CoveredBy(wake, f.due)
        BY DEF EntryCovered
      <2> QED  BY <2>1, <2>2, <2>3, CoveredDown
    <1>15. /\ to => CoveredBy(soon, TimeoutAt(r))
           /\ ka => CoveredBy(soon, KeepaliveAt(r))
           /\ e.spoke /\ p \in Probing => CoveredBy(soon, SearchAt(r))
      BY <1>12, <1>13, CoveredDown DEF EntryCovered
    <1>16. EntryCovered(soon, p, r, ka, to)
      BY <1>10, <1>14, <1>15, Zenon DEF EntryCovered
    <1> QED  BY <1>11, <1>16 DEF r

\* Time passes for everything alike.
LEMMA TickStep ==
    ASSUME IInv, Tick
    PROVE  IInv'
    <1>1. /\ peers' = [p \in DOMAIN peers |-> Ticked(peers[p])]
          /\ outbound' = [c \in DOMAIN outbound |->
                            [outbound[c] EXCEPT !.next_attempt = Down(@)]]
          /\ next_wake' = {Down(t) : t \in next_wake} /\ polling' = {Down(t) : t \in polling}
          /\ UNCHANGED <<keepalive, peer_timeout, inside>>
      BY Zenon DEF Tick, Ticked
    <1>2. next_wake' \in Instants /\ polling' \in Instants
      BY <1>1, Typed, DownInstants
    <1>3. \A p \in DOMAIN peers :
             /\ peers'[p] \in Entry
             /\ EntryCovered(next_wake', p, peers'[p], keepalive, peer_timeout)
      BY <1>1, Typed, TickedEntry DEF Covered
    <1>4. PeersOK(peers')
      BY <1>1, <1>3, Typed, Zenon DEF PeersOK
    <1>5. \A c \in DOMAIN outbound :
             /\ outbound'[c] \in Attempt
             /\ CoveredBy(next_wake', outbound'[c].next_attempt)
      <2> SUFFICES ASSUME NEW c \in DOMAIN outbound
                   PROVE  /\ outbound'[c] \in Attempt
                          /\ CoveredBy(next_wake', outbound'[c].next_attempt)
        OBVIOUS
      <2>1. outbound[c] \in Attempt /\ outbound'[c] = [outbound[c] EXCEPT !.next_attempt = Down(@)]
        BY <1>1, Typed
      <2>2. outbound[c].next_attempt \in Ticks /\ outbound[c].next_attempt \in Nat
        BY <2>1, Spans DEF Attempt
      <2>3. outbound'[c].next_attempt = Down(outbound[c].next_attempt)
        BY <2>1 DEF Attempt
      <2>4. Down(outbound[c].next_attempt) \in Ticks
        BY <2>2, DownInstants
      <2>5. outbound'[c] \in Attempt
        BY <2>1, <2>4 DEF Attempt
      <2>6. CoveredBy(next_wake, outbound[c].next_attempt)
        BY Typed DEF Covered
      <2> QED  BY <1>1, <2>2, <2>3, <2>5, <2>6, Typed, CoveredDown
    <1>6. OutboundOK(outbound')
      BY <1>1, <1>5, Typed, Zenon DEF OutboundOK
    <1>7. Covered(next_wake', peers', outbound', keepalive', peer_timeout')
      BY <1>1, <1>3, <1>5, Zenon DEF Covered
    <1> QED  BY <1>1, <1>2, <1>4, <1>6, <1>7, Typed, Kept

\* The invariant holds throughout.
LEMMA IInvHolds == Spec => []IInv
    <1>1. Init => IInv
      <2> SUFFICES ASSUME Init PROVE IInv
        OBVIOUS
      <2>1. DOMAIN peers = {} /\ DOMAIN outbound = {}
        BY DEF Init
      <2> QED  BY <2>1, Zenon DEF Init, IInv, TypeOK, Covered, Instants
    <1>2. IInv /\ [Next]_vars => IInv'
      <2> SUFFICES ASSUME IInv, [Next]_vars PROVE IInv'
        OBVIOUS
      <2>1. CASE UNCHANGED vars
        BY <2>1 DEF vars, IInv, TypeOK
      <2>2. CASE PollEnters \/ PollLeaves
        BY <2>2, PollSteps
      <2>3. CASE DrivePass
        BY <2>3, DrivePassStep
      <2>4. CASE ConnectFailed \/ PassFails
        BY <2>4, FailedPassSteps
      <2>5. CASE QueuePass
        BY <2>5, QueuePassStep
      <2>6. CASE \E p \in DOMAIN peers : Deliver(p) \/ Moved(p)
        BY <2>6, DeliverStep, MovedStep
      <2>7. CASE \E p \in Peers \ DOMAIN peers : Accept(p)
        BY <2>7, AcceptStep
      <2>8. CASE \E c \in Connects : Connect(c)
        BY <2>8, ConnectStep
      <2>9. CASE \E p \in DOMAIN peers : SendReliable(p) \/ SendFails(p) \/ SendFragmented(p)
        BY <2>9, SendStep, SendFailsStep, SendFragmentedStep
      <2>10. CASE SetKeepalive \/ SetPeerTimeout
        BY <2>10, SettingSteps
      <2>11. CASE Disconnect
        BY <2>11, DisconnectStep
      <2>12. CASE Tick
        BY <2>12, TickStep
      <2> QED
        BY <2>1, <2>2, <2>3, <2>4, <2>5, <2>6, <2>7, <2>8, <2>9, <2>10, <2>11, <2>12 DEF Next
    <1> QED  BY <1>1, <1>2, PTL DEF Spec

-----------------------------------------------------------------------------
(* What follows from it.                                                   *)

\* Every deadline is an instant ahead or passed and an optional one at most one,
\* and no window or queue takes more than there is room for (drive_queue).
THEOREM TypeCorrect == Spec => []TypeOK
    <1>1. IInv => TypeOK
      BY DEF IInv
    <1> QED  BY <1>1, IInvHolds, PTL

\* The loop never sleeps past work it has: whatever is called, arrives or fails,
\* and whatever passes are cut short, next_wake is no later than anything pending
\* (wake_at, rescan_wake, earliest_deadline).
THEOREM NeverOversleeps == Spec => []WakeCovers
    <1> QED  BY Enough, IInvHolds, PTL

\* A pass leaves nothing due behind it, so that the loop does not spin, but for a
\* keep-alive owed to a peer that never spoke (poll_once and its drivers).
THEOREM PassesSettle == Spec => PassSettles
    <1>1. ASSUME IInv, DrivePass
          PROVE  0 \notin next_wake' \/ \E p \in DOMAIN peers : Overdue(p)
      <2> SUFFICES ASSUME 0 \in next_wake' PROVE \E p \in DOMAIN peers : Overdue(p)
        OBVIOUS
      <2>1. PICK large \in BOOLEAN, over \in BOOLEAN :
               /\ outbound' = DriveHandshakes(DueHandshakes, {})
               /\ next_wake' = EarliestDeadline(Driven(large, over), outbound', keepalive, peer_timeout)
        BY <1>1, DrivePassFacts, Zenon
      <2> DEFINE driven == Driven(large, over)
      <2>2. /\ PeersOK(driven) /\ DOMAIN driven \subseteq DOMAIN peers
            /\ \A p \in DOMAIN driven :
                  /\ ~(peer_timeout /\ TimeoutAt(peers[p]) = 0)
                  /\ driven[p] = DrivePmtu(KeepAlive(Retransmit(peers[p], large)), over)
        BY <1>1, DrivenOK
      <2> HIDE DEF driven
      <2>3. /\ OutboundOK(outbound') /\ DOMAIN outbound' = DOMAIN outbound
            /\ \A c \in DOMAIN outbound' : outbound'[c].next_attempt # 0
        <3>1. Max(Rtos) # 0
          BY Spans
        <3>2. /\ OutboundOK(outbound') /\ DOMAIN outbound' = DOMAIN outbound \ {}
              /\ \A c \in DOMAIN outbound' :
                    outbound'[c].next_attempt = IF c \in DueHandshakes THEN Max(Rtos)
                                                ELSE outbound[c].next_attempt
          <4>1. OutboundOK(outbound)
            BY <1>1, Typed
          <4>2. outbound' = DriveHandshakes(DueHandshakes, {})
            BY <2>1
          <4> DEFINE r == DriveHandshakes(DueHandshakes, {})
          <4>3. /\ OutboundOK(r) /\ DOMAIN r = DOMAIN outbound \ {}
                /\ \A c \in DOMAIN r :
                      r[c].next_attempt = IF c \in DueHandshakes THEN Max(Rtos)
                                          ELSE outbound[c].next_attempt
            <5>1. OutboundOK(r)
              BY <4>1, DriveHandshakesStep, Zenon
            <5>2. DOMAIN r = DOMAIN outbound \ {}
              BY DEF DriveHandshakes
            <5>3. ASSUME NEW c \in DOMAIN r
                  PROVE  r[c].next_attempt = IF c \in DueHandshakes THEN Max(Rtos)
                                             ELSE outbound[c].next_attempt
              BY <5>2, <5>3 DEF DriveHandshakes
            <5> QED  BY <5>1, <5>2, <5>3
          <4> HIDE DEF r
          <4>4. outbound' = r
            BY <4>2 DEF r
          <4> QED  BY <4>3, <4>4
        <3> QED  BY <3>1, <3>2 DEF DueHandshakes
      <2>4. \/ \E p \in DOMAIN driven : 0 \in RetransmitAt(driven[p])
            \/ \E c \in DOMAIN outbound' : 0 = outbound'[c].next_attempt
            \/ \E p \in DOMAIN driven : driven[p].spoke /\ 0 = ProbeAt(driven[p])
            \/ keepalive /\ \E p \in DOMAIN driven : 0 = KeepaliveAt(driven[p])
            \/ peer_timeout /\ \E p \in DOMAIN driven : 0 = TimeoutAt(driven[p])
        <3>1. next_wake' = EarliestDeadline(driven, outbound', keepalive, peer_timeout)
          BY <2>1 DEF driven
        <3>2. keepalive \in BOOLEAN /\ peer_timeout \in BOOLEAN
          BY <1>1, Typed
        <3>3. \A t \in next_wake' : IsDeadline(t, driven, outbound', keepalive, peer_timeout)
          BY <2>2, <2>3, <3>1, <3>2, Scan, Zenon
        <3>4. IsDeadline(0, driven, outbound', keepalive, peer_timeout)
          BY <2>1, <2>2, <3>3
        <3> QED  BY <3>4 DEF IsDeadline
      <2>5. ASSUME NEW p \in DOMAIN driven
            PROVE  LET e == peers[p]
                       r == driven[p]
                   IN /\ r.spoke = e.spoke /\ r.unheard = e.unheard
                      /\ r.quiet = e.quiet \/ r.quiet = 0
                      /\ \A f \in r.flight : f.due # 0
                      /\ e.spoke => ProbeAt(r) # 0
                      /\ keepalive /\ e.spoke => KeepaliveAt(r) # 0
        <3>1. /\ peers[p] \in Entry
              /\ driven[p] = DrivePmtu(KeepAlive(Retransmit(peers[p], large)), over)
          BY <1>1, <2>2, <2>5, Typed
        <3> QED  BY <3>1, DrivenStep
      <2>6. ~\E p \in DOMAIN driven : 0 \in RetransmitAt(driven[p])
        BY <2>5 DEF RetransmitAt
      <2>7. ~\E p \in DOMAIN driven : driven[p].spoke /\ 0 = ProbeAt(driven[p])
        BY <2>5
      <2>8. ~(peer_timeout /\ \E p \in DOMAIN driven : 0 = TimeoutAt(driven[p]))
        BY <2>2, <2>5 DEF TimeoutAt
      <2>9. PICK p \in DOMAIN driven : keepalive /\ KeepaliveAt(driven[p]) = 0
        BY <2>3, <2>4, <2>6, <2>7, <2>8
      <2>10. driven[p].quiet # 0
        BY <2>9, WakeAssumption DEF KeepaliveAt, Since
      <2>11. KeepaliveAt(peers[p]) = 0 /\ ~peers[p].spoke
        BY <2>5, <2>9, <2>10 DEF KeepaliveAt
      <2> QED  BY <2>2, <2>9, <2>11 DEF Overdue
    <1>2. IInv /\ [Next]_vars =>
             [DrivePass => 0 \notin next_wake' \/ \E p \in DOMAIN peers : Overdue(p)]_vars
      BY <1>1
    <1> QED  BY <1>2, IInvHolds, PTL DEF Spec, PassSettles
=============================================================================

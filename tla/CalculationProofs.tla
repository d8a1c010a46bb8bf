------------------------- MODULE CalculationProofs -------------------------
(***************************************************************************)
(* What is computed from measurements and kept in integers of a width, for *)
(* every width, size and path: the size of frames a path is trusted with,  *)
(* the timeout estimated from round trips, and the differences samples are *)
(* coded by.                                                               *)
(***************************************************************************)
EXTENDS Pmtu, Estimator, Varint, TLAPS

-----------------------------------------------------------------------------
(* Path MTU discovery: whatever the sizes, the number of tries and the     *)
(* path.                                                                   *)

\* Every probe of the search under way carries the tokens drawn for it, so an
\* answer that matches one was given by the path the session is on.
AnswersInv ==
    probes # {} =>
        /\ \A p \in probes : p.token = round
        /\ \A a \in answers : a.token = round => a.size \in carried

IInv ==
    /\ TypeOK
    /\ limit = current
    /\ current > Base => current \in carried
    /\ AnswersInv
    /\ SearchPlanned

\* A session starts at the base with a search due.
LEMMA InitIInv == Init => IInv
  <1> SUFFICES ASSUME Init PROVE IInv
    OBVIOUS
  <1>1. Base \in Sizes /\ 0 \in 0 .. Rounds - 1
    BY PmtuAssumption DEF Sizes
  <1>2. TypeOK
    BY <1>1 DEF Init, TypeOK
  <1>3. ~(current > Base)
    BY PmtuAssumption DEF Init
  <1> QED BY <1>2, <1>3 DEF Init, IInv, AnswersInv, SearchPlanned

\* Whatever is tried is a size between the base and the cap.
LEMMA CandidatesAreSizes ==
  ASSUME TypeOK, NEW checking \in BOOLEAN, checking => current > Base
  PROVE  Candidates(checking) \subseteq Sizes
  BY PmtuAssumption DEF TypeOK, Candidates, Sizes

\* There is always something to try: the cap itself, or the size in use when
\* that is the cap and has to be checked.
LEMMA SomethingToTry ==
  ASSUME TypeOK
  PROVE  Candidates(current > Base) # {}
  <1>1. Cap \in Candidates(current > Base)
    BY PmtuAssumption DEF TypeOK, Candidates, Sizes
  <1> QED BY <1>1

\* Starting a search, sending probes again, giving some up and ending the search
\* preserve the invariant.
LEMMA DueIInv == IInv /\ Due => IInv'
  <1> SUFFICES ASSUME IInv, Due PROVE IInv'
    OBVIOUS
  <1> DEFINE
        starting == probes = {} /\ search = "now"
        checking == IF starting THEN current > Base ELSE validating
        drawn == IF starting THEN (round + 1) % Rounds ELSE round
        due == IF starting
               THEN [size : Candidates(checking), token : {drawn},
                     tries : {0}, waiting : {FALSE}]
               ELSE {p \in probes : ~p.waiting}
        sent == {[p EXCEPT !.tries = @ + 1, !.waiting = TRUE] :
                     p \in {q \in due : q.tries < ProbeTries}}
  <1>1. /\ TypeOK /\ limit = current /\ AnswersInv /\ SearchPlanned
        /\ current > Base => current \in carried
    BY DEF IInv
  <1>2. /\ round' = drawn
        /\ probes' = {p \in probes : p.waiting} \cup sent
        /\ IF probes' = {} /\ (starting \/ search = "none")
           THEN Finish(current, checking)
           ELSE /\ validating' = checking
                /\ search' = IF starting THEN "none" ELSE search
                /\ UNCHANGED current
        /\ limit' = current' /\ UNCHANGED path
    BY Zenon DEF Due
  <1>3. drawn \in 0 .. Rounds - 1
    <2>1. (round + 1) % Rounds \in 0 .. Rounds - 1
      BY <1>1, PmtuAssumption DEF TypeOK
    <2> QED BY <1>1, <2>1 DEF TypeOK
  <1>4. checking \in BOOLEAN
    <2>1. (current > Base) \in BOOLEAN
      BY <1>1, PmtuAssumption DEF TypeOK, Sizes
    <2> QED BY <1>1, <2>1, Zenon DEF TypeOK
  <1>5. ASSUME NEW q \in due
        PROVE  /\ q.size \in Sizes /\ q.token = drawn /\ q.tries \in 0 .. ProbeTries
               /\ q = [size |-> q.size, token |-> drawn, tries |-> q.tries,
                       waiting |-> FALSE]
    <2>1. CASE starting
      <3>1. Candidates(checking) \subseteq Sizes
        BY <1>1, <1>4, <2>1, CandidatesAreSizes
      <3>2. q \in [size : Candidates(checking), token : {drawn},
                   tries : {0}, waiting : {FALSE}]
        BY <2>1
      <3> HIDE DEF due, checking, drawn, starting
      <3>3. /\ q.size \in Candidates(checking) /\ q.token = drawn
            /\ q.tries = 0 /\ q.waiting = FALSE
        BY <3>2
      <3>4. q = [size |-> q.size, token |-> q.token, tries |-> q.tries,
                 waiting |-> q.waiting]
        BY <3>2
      <3> QED BY <3>1, <3>3, <3>4, PmtuAssumption
    <2>2. CASE ~starting
      <3>1. q \in probes /\ ~q.waiting /\ drawn = round
        BY <2>2
      <3>2. q \in Probe /\ q.token = round
        BY <1>1, <3>1 DEF TypeOK, AnswersInv
      <3> HIDE DEF due, drawn, starting
      <3> QED BY <3>1, <3>2, PmtuAssumption DEF Probe
    <2> QED BY <2>1, <2>2
  <1> HIDE DEF due
  <1>6. ASSUME NEW p \in sent
        PROVE  p \in Probe /\ p.token = drawn
    <2>1. PICK q \in due : /\ q.tries < ProbeTries
                           /\ p = [q EXCEPT !.tries = @ + 1, !.waiting = TRUE]
      OBVIOUS
    <2>2. p = [size |-> q.size, token |-> drawn, tries |-> q.tries + 1, waiting |-> TRUE]
      BY <1>5, <2>1
    <2> HIDE DEF sent, drawn
    <2>3. q.tries + 1 \in 1 .. ProbeTries
      BY <1>5, <2>1, PmtuAssumption
    <2> QED BY <1>3, <1>5, <2>2, <2>3 DEF Probe
  <1>7. starting => sent # {}
    <2> SUFFICES ASSUME starting PROVE sent # {}
      OBVIOUS
    <2>1. PICK s \in Candidates(checking) : TRUE
      BY <1>1, SomethingToTry
    <2> DEFINE q == [size |-> s, token |-> drawn, tries |-> 0, waiting |-> FALSE]
    <2>2. q \in due
      BY <2>1 DEF due
    <2>3. q.tries < ProbeTries
      BY PmtuAssumption
    <2> HIDE DEF q
    <2> QED BY <2>2, <2>3
  <1> HIDE DEF sent, drawn
  <1>8. PICK S \in SUBSET {p.size : p \in {q \in sent : q.size <= path}} :
          /\ answers' = {a \in answers : starting => a.token # drawn}
                          \cup [size : S, token : {drawn}]
          /\ carried' = carried \cup S
    BY Zenon DEF Due, sent, due, drawn
  <1>9. S \subseteq Sizes
    <2> SUFFICES ASSUME NEW s \in S PROVE s \in Sizes
      OBVIOUS
    <2>1. PICK p \in sent : s = p.size
      BY <1>8
    <2> QED BY <1>6, <2>1 DEF Probe
  <1>10. current' \in Sizes /\ (current' > Base => current' \in carried')
    <2>1. Base \in Sizes /\ ~(Base > Base)
      BY PmtuAssumption DEF Sizes
    <2>2. current' \in {current, Base}
      BY <1>2 DEF Finish
    <2> QED BY <1>1, <1>8, <2>1, <2>2 DEF TypeOK
  <1>11. validating' \in BOOLEAN /\ search' \in {"none", "now", "later"}
    BY <1>1, <1>2, <1>4 DEF TypeOK, Finish
  <1>12. probes' \subseteq Probe
    BY <1>1, <1>2, <1>6 DEF TypeOK
  <1>13. answers' \subseteq Answer
    <2>1. [size : S, token : {drawn}] \subseteq Answer
      BY <1>3, <1>9 DEF Answer
    <2> QED BY <1>1, <1>8, <2>1 DEF TypeOK
  <1>14. TypeOK'
    BY <1>1, <1>8, <1>2, <1>3, <1>9, <1>10, <1>11, <1>12, <1>13 DEF TypeOK
  <1>15. AnswersInv'
    <2> SUFFICES ASSUME probes' # {}
                 PROVE  /\ \A p \in probes' : p.token = drawn
                        /\ \A a \in answers' : a.token = drawn => a.size \in carried'
      BY <1>2 DEF AnswersInv
    <2>1. ASSUME NEW p \in probes' PROVE p.token = drawn
      <3>1. CASE p \in sent
        BY <1>6, <3>1
      <3>2. CASE p \in probes
        BY <1>1, <3>2 DEF AnswersInv, drawn
      <3> QED BY <1>2, <3>1, <3>2
    <2>2. ASSUME NEW a \in answers', a.token = drawn PROVE a.size \in carried'
      <3>1. CASE a \in [size : S, token : {drawn}]
        BY <1>8, <3>1
      <3>2. CASE a \in answers /\ (starting => a.token # drawn)
        <4>1. ~starting
          BY <2>2, <3>2
        <4>2. CASE probes = {}
          <5>1. sent = {}
            BY <4>1, <4>2 DEF sent, due
          <5> QED BY <1>2, <4>2, <5>1
        <4>3. CASE probes # {}
          <5>1. a.token = round
            BY <2>2, <4>1 DEF drawn
          <5> QED BY <1>1, <1>8, <3>2, <4>3, <5>1 DEF AnswersInv
        <4> QED BY <4>2, <4>3
      <3> QED BY <1>8, <3>1, <3>2
    <2> QED BY <2>1, <2>2
  <1>16. SearchPlanned'
    <2>1. CASE starting
      BY <1>2, <1>7, <2>1 DEF SearchPlanned
    <2>2. CASE ~starting /\ probes = {}
      <3>1. sent = {}
        BY <2>2 DEF sent, due
      <3> QED BY <1>1, <1>2, <2>2, <3>1 DEF SearchPlanned
    <2>3. CASE probes # {}
      <3>1. search = "none" /\ ~starting
        BY <1>1, <2>3 DEF SearchPlanned
      <3> HIDE DEF starting
      <3>2. CASE probes' = {}
        BY <1>2, <3>1, <3>2 DEF SearchPlanned, Finish
      <3>3. CASE probes' # {}
        BY <1>2, <3>1, <3>3 DEF SearchPlanned
      <3> QED BY <3>2, <3>3
    <2> QED BY <2>1, <2>2, <2>3
  <1> QED BY <1>2, <1>10, <1>14, <1>15, <1>16 DEF IInv

\* An answer, to a probe of this search or of any other, preserves the
\* invariant.
LEMMA AnsweredIInv == ASSUME IInv, NEW a \in answers, Answered(a) PROVE IInv'
  <1>1. /\ TypeOK /\ limit = current /\ AnswersInv /\ SearchPlanned
        /\ current > Base => current \in carried
    BY DEF IInv
  <1>2. /\ answers' = answers \ {a} /\ limit' = current'
        /\ UNCHANGED <<round, path, carried>>
    BY DEF Answered
  <1>3. a \in Answer /\ current \in Sizes
    BY <1>1 DEF TypeOK
  <1>4. CASE ~\E p \in probes : Matches(p, a)
    <2>1. UNCHANGED <<current, probes, validating, search>>
      BY <1>4 DEF Answered
    <2> QED BY <1>1, <1>2, <2>1 DEF IInv, TypeOK, AnswersInv, SearchPlanned
  <1>5. CASE \E p \in probes : Matches(p, a)
    <2> DEFINE size == IF a.size >= current THEN a.size ELSE current
               checking == IF a.size >= current THEN FALSE ELSE validating
    <2>1. /\ probes' = {p \in probes : p.size > a.size}
          /\ IF probes' = {}
             THEN Finish(size, checking)
             ELSE current' = size /\ validating' = checking /\ UNCHANGED search
      BY <1>5, Zenon DEF Answered
    <2>2. probes # {} /\ a.size \in carried
      BY <1>1, <1>5 DEF Matches, AnswersInv
    <2>3. a.size \in Sizes
      BY <1>3 DEF Answer
    <2>4. size \in Sizes /\ (size > Base => size \in carried) /\ checking \in BOOLEAN
      BY <1>1, <2>2, <2>3 DEF TypeOK
    <2> HIDE DEF size, checking
    <2>5. current' \in Sizes /\ (current' > Base => current' \in carried)
      <3>1. Base \in Sizes /\ ~(Base > Base)
        BY PmtuAssumption DEF Sizes
      <3>2. current' \in {size, Base}
        BY <2>1 DEF Finish
      <3> QED BY <2>4, <3>1, <3>2
    <2>6. validating' \in BOOLEAN /\ search' \in {"none", "now", "later"}
      BY <1>1, <2>1, <2>4 DEF TypeOK, Finish
    <2>7. TypeOK'
      BY <1>1, <1>2, <2>1, <2>5, <2>6 DEF TypeOK
    <2>8. AnswersInv'
      BY <1>1, <1>2, <2>1, <2>2 DEF AnswersInv
    <2>9. SearchPlanned'
      <3>1. search = "none"
        BY <1>1, <2>2 DEF SearchPlanned
      <3>2. CASE probes' = {}
        BY <2>1, <3>2 DEF SearchPlanned, Finish
      <3>3. CASE probes' # {}
        BY <2>1, <3>1, <3>3 DEF SearchPlanned
      <3> QED BY <3>2, <3>3
    <2> QED BY <1>2, <2>5, <2>7, <2>8, <2>9 DEF IInv
  <1> QED BY <1>4, <1>5

\* A probe's interval running out preserves the invariant.
LEMMA ProbeExpiresIInv == IInv /\ ProbeExpires => IInv'
  <1> SUFFICES ASSUME IInv, ProbeExpires PROVE IInv'
    OBVIOUS
  <1>1. /\ TypeOK /\ AnswersInv /\ SearchPlanned
        /\ UNCHANGED <<current, validating, search, limit, round, answers, path, carried>>
    BY DEF IInv, ProbeExpires
  <1>2. PICK p \in probes :
          probes' = (probes \ {p}) \cup {[p EXCEPT !.waiting = FALSE]}
    BY DEF ProbeExpires
  <1> DEFINE q == [p EXCEPT !.waiting = FALSE]
  <1>3. q \in Probe /\ q.token = p.token
    BY <1>1 DEF TypeOK, Probe
  <1> HIDE DEF q
  <1>4. probes' = (probes \ {p}) \cup {q}
    BY <1>2 DEF q
  <1>5. TypeOK'
    BY <1>1, <1>3, <1>4 DEF TypeOK
  <1>6. AnswersInv' /\ SearchPlanned'
    BY <1>1, <1>3, <1>4 DEF AnswersInv, SearchPlanned
  <1> QED BY <1>1, <1>5, <1>6 DEF IInv

\* Every step preserves the invariant.
LEMMA NextIInv == IInv /\ [Next]_vars => IInv'
  <1> SUFFICES ASSUME IInv, [Next]_vars PROVE IInv'
    OBVIOUS
  <1> USE DEF IInv
  <1>1. CASE Due
    BY <1>1, DueIInv
  <1>2. CASE \E a \in answers : Answered(a)
    BY <1>2, AnsweredIInv
  <1>3. CASE Suspect
    BY <1>3 DEF Suspect, TypeOK, AnswersInv, SearchPlanned
  <1>4. CASE \E newPath \in Sizes : Reset(newPath)
    <2>1. Base \in Sizes /\ ~(Base > Base)
      BY PmtuAssumption DEF Sizes
    <2>2. PICK newPath \in Sizes : Reset(newPath)
      BY <1>4
    <2>3. TypeOK'
      BY <2>1, <2>2 DEF Reset, TypeOK
    <2> QED BY <2>1, <2>2, <2>3 DEF Reset, AnswersInv, SearchPlanned
  <1>5. CASE ProbeExpires
    BY <1>5, ProbeExpiresIInv
  <1>6. CASE SearchTimer
    BY <1>6 DEF SearchTimer, TypeOK, AnswersInv, SearchPlanned
  <1>7. CASE PathChanges
    BY <1>7 DEF PathChanges, pmtu, TypeOK, AnswersInv, SearchPlanned
  <1>8. CASE AnswerLost
    BY <1>8 DEF AnswerLost, pmtu, TypeOK, AnswersInv, SearchPlanned
  <1>9. CASE UNCHANGED vars
    BY <1>9 DEF vars, pmtu, TypeOK, AnswersInv, SearchPlanned
  <1> QED BY <1>1, <1>2, <1>3, <1>4, <1>5, <1>6, <1>7, <1>8, <1>9 DEF Next

-----------------------------------------------------------------------------
\* The invariant holds in every reachable state of the session and its path.
THEOREM Invariance == Spec => []IInv
  BY InitIInv, NextIInv, PTL DEF Spec

\* No frame is sealed above the base to a size the path of the session's address
\* was not seen to carry.
THEOREM OnlyProvenSizes == Spec => []SizeProven
  <1>1. IInv => SizeProven
    BY DEF IInv, SizeProven
  <1> QED BY <1>1, Invariance, PTL

\* A search is always running or planned.
THEOREM NeverDormant == Spec => []SearchPlanned
  <1>1. IInv => SearchPlanned
    BY DEF IInv
  <1> QED BY <1>1, Invariance, PTL

-----------------------------------------------------------------------------
(* The timeout: what one sample does to the estimate, for every width of   *)
(* the integers, every floor and ceiling and every round trip.             *)

\* Division by eight, as sample does it for the smoothed round trip.
LEMMA DivEight ==
    ASSUME NEW n \in Nat
    PROVE  /\ n \div 8 \in Nat
           /\ 8 * (n \div 8) <= n
           /\ n < 8 * (n \div 8) + 8
    BY SMT

\* Division by four, as sample does it for the variation.
LEMMA DivFour ==
    ASSUME NEW n \in Nat
    PROVE  /\ n \div 4 \in Nat
           /\ 4 * (n \div 4) <= n
           /\ n < 4 * (n \div 4) + 4
    BY SMT

\* Division by two, as the first sample does it.
LEMMA DivTwo ==
    ASSUME NEW n \in Nat
    PROVE  /\ n \div 2 \in Nat
           /\ 2 * (n \div 2) <= n
           /\ n < 2 * (n \div 2) + 2
    BY SMT

\* Narrowing a value that fits leaves it alone.
LEMMA NarrowFits ==
    ASSUME NEW n \in Nat, n <= Widest
    PROVE  n % (Widest + 1) = n
    BY RtoAssumption, SMT

\* An estimate with a measurement in it, of u32 fields.
Measured == [smoothed : 0..Widest, variation : 0..Widest]

\* No measurement is told apart from the absence of one.
LEMMA MeasuredIsKnown ==
    \A m \in Measured : m # NewRto
  <1> SUFFICES ASSUME NEW m \in Measured, m = NewRto PROVE FALSE
    OBVIOUS
  <1>1. DOMAIN m = {"smoothed", "variation"}
    BY DEF Measured
  <1>2. DOMAIN NewRto = {}
    BY DEF NewRto
  <1> QED BY <1>1, <1>2

\* The two averages of sample before they are narrowed.
LEMMA Averages ==
    ASSUME NEW s \in 0..Widest, NEW v \in 0..Widest, NEW r \in 0..Widest
    PROVE  LET smoothed == (7 * s + r) \div 8
               variation == (3 * v + AbsDiff(s, r)) \div 4
           IN /\ smoothed \in 0..Widest /\ variation \in 0..Widest
              /\ Between(smoothed, s, r)
              /\ variation <= v \/ variation <= AbsDiff(s, r)
              /\ smoothed + 4 * variation + 3 >= r
  <1> DEFINE d == AbsDiff(s, r)
             smoothed == (7 * s + r) \div 8
             variation == (3 * v + d) \div 4
  <1>1. Widest \in Nat
    BY RtoAssumption
  <1>2. d \in Nat /\ d <= Widest /\ r <= s + d
    BY <1>1 DEF AbsDiff
  <1>3. /\ smoothed \in Nat
        /\ 8 * smoothed <= 7 * s + r
        /\ 7 * s + r < 8 * smoothed + 8
    BY <1>1, DivEight
  <1>4. /\ variation \in Nat
        /\ 4 * variation <= 3 * v + d
        /\ 3 * v + d < 4 * variation + 4
    <2>1. 3 * v + d \in Nat
      BY <1>1, <1>2
    <2> QED BY <2>1, DivFour
  <1> HIDE DEF d, smoothed, variation
  <1>5. smoothed \in 0..Widest /\ Between(smoothed, s, r)
    BY <1>1, <1>3 DEF Between
  <1>6. variation \in 0..Widest /\ (variation <= v \/ variation <= d)
    BY <1>1, <1>2, <1>4
  <1>7. smoothed + 4 * variation + 3 >= r
    <2>1. CASE r <= s
      BY <2>1, <1>1, <1>3, <1>4
    <2>2. CASE s < r
      <3>1. smoothed >= s
        BY <2>2, <1>1, <1>3
      <3>2. 4 * variation + 3 >= d
        BY <1>1, <1>2, <1>4
      <3> QED BY <3>1, <3>2, <1>1, <1>2, <1>3, <1>4
    <2> QED BY <2>1, <2>2, <1>1
  <1> QED BY <1>5, <1>6, <1>7 DEF d, smoothed, variation

\* What sample makes of an estimate: the averages, which the narrowing to 32
\* bits leaves alone.
LEMMA SampleMeasured ==
    ASSUME NEW e \in Measured, NEW r \in 0..Widest
    PROVE  /\ Sample(e, r) \in Measured
           /\ Sample(e, r).smoothed = (7 * e.smoothed + r) \div 8
           /\ Sample(e, r).variation = (3 * e.variation + AbsDiff(e.smoothed, r)) \div 4
  <1>1. e.smoothed \in 0..Widest /\ e.variation \in 0..Widest
    BY DEF Measured
  <1> DEFINE a == (7 * e.smoothed + r) \div 8
             b == (3 * e.variation + AbsDiff(e.smoothed, r)) \div 4
  <1>2. a \in 0..Widest /\ b \in 0..Widest
    BY <1>1, Averages
  <1>3. a % (Widest + 1) = a /\ b % (Widest + 1) = b
    <2> HIDE DEF a, b
    <2> QED BY <1>2, NarrowFits, RtoAssumption
  <1>4. Sample(e, r) = Known(a % (Widest + 1), b % (Widest + 1))
    BY MeasuredIsKnown DEF Sample
  <1> HIDE DEF a, b
  <1>5. Sample(e, r) = [smoothed |-> a, variation |-> b]
    BY <1>3, <1>4 DEF Known
  <1>6. Sample(e, r) \in Measured
    BY <1>2, <1>5 DEF Measured
  <1>7. Sample(e, r).smoothed = a /\ Sample(e, r).variation = b
    BY <1>5
  <1> QED BY <1>6, <1>7 DEF a, b

\* So each field lies between the two values it averages.
LEMMA SampleLiesBetween ==
    ASSUME NEW e \in Measured, NEW r \in 0..Widest
    PROVE  /\ Between(Sample(e, r).smoothed, e.smoothed, r)
           /\ \/ Sample(e, r).variation <= e.variation
              \/ Sample(e, r).variation <= AbsDiff(e.smoothed, r)
  <1>1. PICK s \in 0..Widest, v \in 0..Widest : s = e.smoothed /\ v = e.variation
    BY DEF Measured
  <1>2. /\ Sample(e, r).smoothed = (7 * s + r) \div 8
        /\ Sample(e, r).variation = (3 * v + AbsDiff(s, r)) \div 4
    BY <1>1, SampleMeasured
  <1>3. /\ Between((7 * s + r) \div 8, s, r)
        /\ \/ (3 * v + AbsDiff(s, r)) \div 4 <= v
           \/ (3 * v + AbsDiff(s, r)) \div 4 <= AbsDiff(s, r)
    BY Averages
  <1> QED BY <1>1, <1>2, <1>3, Zenon

\* The first sample is the estimate, with half of it as the variation.
LEMMA SampleFirst ==
    ASSUME NEW r \in 0..Widest
    PROVE  /\ Sample(NewRto, r) \in Measured
           /\ Sample(NewRto, r).smoothed = r
  <1>1. Sample(NewRto, r) = [smoothed |-> r, variation |-> r \div 2]
    BY DEF Sample, Known
  <1>2. r \div 2 \in 0..Widest
    BY DivTwo, RtoAssumption
  <1> QED BY <1>1, <1>2 DEF Measured

\* The timeout of an estimate is its sum, unless the ceiling or the width of
\* the integers cuts it off.
LEMMA CurrentCovers ==
    ASSUME NEW e \in Measured, NEW r \in Nat, e.smoothed + 4 * e.variation + 3 >= r
    PROVE  Current(e) + 3 >= r \/ Current(e) = MaxRto
  <1>1. e.smoothed \in Nat /\ e.variation \in Nat
    BY RtoAssumption DEF Measured
  <1>2. PICK s \in Nat, v \in Nat : s = e.smoothed /\ v = e.variation
    BY <1>1
  <1>3. Current(e) = Clamped(Saturated(s + Saturated(4 * v)))
    BY <1>2, MeasuredIsKnown DEF Current
  <1>4. s + 4 * v + 3 >= r
    BY <1>2
  <1>5. \/ Saturated(s + Saturated(4 * v)) = s + 4 * v
        \/ Saturated(s + Saturated(4 * v)) = Widest
    BY RtoAssumption DEF Saturated
  <1>6. CASE Saturated(s + Saturated(4 * v)) = s + 4 * v
    BY <1>3, <1>4, <1>6, RtoAssumption DEF Clamped
  <1>7. CASE Saturated(s + Saturated(4 * v)) = Widest
    BY <1>3, <1>7, RtoAssumption DEF Clamped
  <1> QED BY <1>5, <1>6, <1>7

-----------------------------------------------------------------------------

\* The inductive invariant: an estimate of u32 fields, and what the latest
\* sample left of it.
Estimate ==
    /\ \/ rto = NewRto /\ last = <<>>
       \/ rto \in Measured /\ last \in {<<r>> : r \in RoundTrips}
    /\ EstimateCovers

\* A timer without samples (Rto::new) satisfies the invariant.
LEMMA EstimateInitially == EstimatorInit => Estimate
    BY DEF EstimatorInit, Estimate, EstimateCovers

\* Rto::sample preserves it, whatever the round trip.
LEMMA EstimateKept == Estimate /\ [EstimatorNext]_estimate => Estimate'
  <1> SUFFICES ASSUME Estimate, [EstimatorNext]_estimate PROVE Estimate'
    OBVIOUS
  <1>1. ASSUME NEW rtt \in RoundTrips, TakeSample(rtt) PROVE Estimate'
    <2>1. rtt \in 0..Widest /\ rtt \in Nat
      BY RoundTripsAssumption, RtoAssumption
    <2>2. rto' = Sample(rto, rtt) /\ last' = <<rtt>>
      BY <1>1 DEF TakeSample
    <2>3. rto' \in Measured /\ rto'.smoothed + 4 * rto'.variation + 3 >= rtt
      <3>1. CASE rto = NewRto
        <4>1. rto' \in Measured /\ rto'.smoothed = rtt
          BY <2>1, <2>2, <3>1, SampleFirst
        <4>2. rto'.variation \in Nat
          BY <4>1, RtoAssumption DEF Measured
        <4> QED BY <2>1, <4>1, <4>2
      <3>2. CASE rto \in Measured
        <4>1. rto.smoothed \in 0..Widest /\ rto.variation \in 0..Widest
          BY <3>2 DEF Measured
        <4>2. /\ rto' \in Measured
              /\ rto'.smoothed = (7 * rto.smoothed + rtt) \div 8
              /\ rto'.variation = (3 * rto.variation + AbsDiff(rto.smoothed, rtt)) \div 4
          BY <2>1, <2>2, <3>2, SampleMeasured
        <4>3. (7 * rto.smoothed + rtt) \div 8
                + 4 * ((3 * rto.variation + AbsDiff(rto.smoothed, rtt)) \div 4) + 3 >= rtt
          BY <2>1, <4>1, Averages
        <4> QED BY <4>2, <4>3
      <3> QED BY <3>1, <3>2 DEF Estimate
    <2>4. Current(rto') + 3 >= rtt \/ Current(rto') = MaxRto
      BY <2>1, <2>3, CurrentCovers
    <2>5. last'[1] = rtt
      BY <2>2
    <2> QED BY <2>2, <2>3, <2>4, <2>5 DEF Estimate, EstimateCovers
  <1>2. ASSUME UNCHANGED estimate PROVE Estimate'
    BY <1>2 DEF Estimate, EstimateCovers, estimate
  <1> QED BY <1>1, <1>2 DEF EstimatorNext

\* Right after a sample the timeout of Rto::current is at least that round
\* trip, but for three milliseconds, or it is the ceiling: for every history
\* of samples, every width and every floor and ceiling.
THEOREM TimeoutCoversTheSample == EstimatorSpec => []EstimateCovers
  <1>1. EstimatorInit => Estimate
    BY EstimateInitially
  <1>2. Estimate /\ [EstimatorNext]_estimate => Estimate'
    BY EstimateKept
  <1>3. Estimate => EstimateCovers
    BY DEF Estimate
  <1> QED BY <1>1, <1>2, <1>3, PTL DEF EstimatorSpec

\* Rto::sample narrows its 64-bit averages to 32 bits and loses nothing: each
\* result lies between the values it averages.
THEOREM SamplesAreNotTruncated == EstimatorSpec => NarrowingLosesNothing
  <1>1. Estimate /\ [EstimatorNext]_estimate => [\E rtt \in RoundTrips : last' = <<rtt>> /\ Averaged(rtt)]_estimate
    <2> SUFFICES ASSUME Estimate, NEW rtt \in RoundTrips, TakeSample(rtt)
                 PROVE  last' = <<rtt>> /\ Averaged(rtt)
      BY DEF EstimatorNext
    <2>1. rtt \in 0..Widest
      BY RoundTripsAssumption
    <2>2. rto' = Sample(rto, rtt) /\ last' = <<rtt>>
      BY DEF TakeSample
    <2>3. CASE rto = NewRto
      BY <2>2, <2>3 DEF Averaged
    <2>4. CASE rto \in Measured
      <3>1. rto.smoothed \in 0..Widest /\ rto.variation \in 0..Widest
        BY <2>4 DEF Measured
      <3>2. /\ Between(Sample(rto, rtt).smoothed, rto.smoothed, rtt)
            /\ \/ Sample(rto, rtt).variation <= rto.variation
               \/ Sample(rto, rtt).variation <= AbsDiff(rto.smoothed, rtt)
        BY <2>1, <2>4, <3>1, SampleLiesBetween
      <3> QED BY <2>2, <3>2 DEF Averaged
    <2> QED BY <2>3, <2>4 DEF Estimate
  <1> QED BY <1>1, EstimateInitially, EstimateKept, PTL DEF EstimatorSpec, NarrowingLosesNothing

-----------------------------------------------------------------------------
(* Varints: what numeric.rs relies on, for every width of word.  A         *)
(* difference taken with wrapping arithmetic, through zigzag and back,     *)
(* gives the sample it was taken from.                                     *)

\* The two halves of a word make a word.
LEMMA HalfWord ==
    \E h \in Nat \ {0} : Word = 2 * h /\ Word \div 2 = h
  <1>1. PICK h \in Int : h = Word \div 2
    BY VarintAssumption
  <1>2. Word = 2 * h
    BY <1>1, VarintAssumption
  <1>3. h \in Nat \ {0}
    BY <1>1, <1>2, VarintAssumption
  <1> QED BY <1>1, <1>2, <1>3

\* A residue, and what is one modulus away from it.
LEMMA ModShift ==
    ASSUME NEW m \in Nat \ {0}, NEW x \in 0 .. m - 1
    PROVE  /\ x % m = x
           /\ (x + m) % m = x
           /\ (x - m) % m = x
  <1>1. x % m = x
    BY Z3
  <1>2. (x + m) % m = x
    BY Z3
  <1>3. (x - m) % m = x
    BY Z3
  <1> QED BY <1>1, <1>2, <1>3

\* wrapping_sub and wrapping_add give words.
THEOREM WrapIsWord ==
    ASSUME NEW x \in Int
    PROVE  Wrap(x) \in SignedWord
  <1>1. PICK h \in Nat \ {0} : Word = 2 * h /\ Word \div 2 = h
    BY HalfWord
  <1>2. ((x + h) % (2 * h)) \in 0 .. 2 * h - 1
    BY Z3
  <1> QED BY <1>1, <1>2 DEF Wrap, SignedWord

\* zigzag maps the words one to one to the unsigned words: what the encoder
\* writes is a word, and unzigzag undoes it.
THEOREM ZigzagUndone ==
    ASSUME NEW v \in SignedWord
    PROVE  Zigzag(v) \in Unsigned /\ Unzigzag(Zigzag(v)) = v
  <1>1. PICK h \in Nat \ {0} : Word = 2 * h /\ Word \div 2 = h
    BY HalfWord
  <1>2. v \in -h .. h - 1
    BY <1>1 DEF SignedWord
  <1>3. CASE v >= 0
    <2>1. Zigzag(v) = 2 * v
      BY <1>3 DEF Zigzag
    <2>2. (2 * v) % 2 = 0 /\ (2 * v) \div 2 = v
      BY <1>2
    <2> QED BY <1>1, <1>2, <1>3, <2>1, <2>2 DEF Unzigzag, Unsigned
  <1>4. CASE v < 0
    <2>1. Zigzag(v) = -2 * v - 1
      BY <1>2, <1>4 DEF Zigzag
    <2>2. (-2 * v - 1) % 2 = 1 /\ (-2 * v - 1 + 1) \div 2 = -v
      BY <1>2
    <2> QED BY <1>1, <1>2, <1>4, <2>1, <2>2 DEF Unzigzag, Unsigned
  <1> QED BY <1>2, <1>3, <1>4

\* A sample comes back from its delta, however far apart the samples are.
THEOREM DeltaUndone ==
    ASSUME NEW v \in SignedWord, NEW previous \in SignedWord
    PROVE  LET delta == Wrap(v - previous)
           IN  /\ Zigzag(delta) \in Unsigned
               /\ Wrap(previous + Unzigzag(Zigzag(delta))) = v
  <1> DEFINE delta == Wrap(v - previous)
  <1>1. PICK h \in Nat \ {0} : Word = 2 * h /\ Word \div 2 = h
    BY HalfWord
  <1>2. v \in -h .. h - 1 /\ previous \in -h .. h - 1
    BY <1>1 DEF SignedWord
  <1>3. delta \in SignedWord
    BY <1>2, WrapIsWord
  <1>4. Zigzag(delta) \in Unsigned /\ Unzigzag(Zigzag(delta)) = delta
    BY <1>3, ZigzagUndone
  <1> DEFINE m == 2 * h
  <1>m. m \in Nat \ {0}
    OBVIOUS
  <1>5. Wrap(previous + delta) = v
    <2>1. delta = ((v - previous + h) % m) - h
      BY <1>1, <1>2 DEF Wrap
    <2>2. \/ delta = v - previous
          \/ delta = v - previous + 2 * h
          \/ delta = v - previous - 2 * h
      <3>1. CASE v - previous + h < 0
        <4> DEFINE r == v - previous + h + 2 * h
        <4>1. r \in 0 .. m - 1
          BY <1>2, <3>1
        <4>2. v - previous + h = r - m
          BY <1>2
        <4> HIDE DEF r, m
        <4>3. ((r - m) % m) = r
          BY <1>m, <4>1, ModShift
        <4>4. delta = r - h
          BY <2>1, <4>2, <4>3
        <4> QED BY <1>2, <4>4 DEF r
      <3>2. CASE v - previous + h \in 0 .. 2 * h - 1
        <4> DEFINE r == v - previous + h
        <4>1. r \in 0 .. m - 1
          BY <1>2, <3>2
        <4> HIDE DEF r, m
        <4>2. (r % m) = r
          BY <1>m, <4>1, ModShift
        <4>3. delta = r - h
          BY <2>1, <4>2 DEF r
        <4> QED BY <1>2, <4>3 DEF r
      <3>3. CASE v - previous + h >= 2 * h
        <4> DEFINE r == v - previous + h - 2 * h
        <4>1. r \in 0 .. m - 1
          BY <1>2, <3>3
        <4>2. v - previous + h = r + m
          BY <1>2
        <4> HIDE DEF r, m
        <4>3. ((r + m) % m) = r
          BY <1>m, <4>1, ModShift
        <4>4. delta = r - h
          BY <2>1, <4>2, <4>3
        <4> QED BY <1>2, <4>4 DEF r
      <3> QED BY <1>2, <3>1, <3>2, <3>3
    <2>3. ((previous + delta + h) % m) = v + h
      <3> DEFINE r == v + h
      <3>1. r \in 0 .. m - 1
        BY <1>2
      <3>2. \/ previous + delta + h = r
            \/ previous + delta + h = r + m
            \/ previous + delta + h = r - m
        BY <1>2, <2>2
      <3> HIDE DEF r, m
      <3>3. r % m = r /\ (r + m) % m = r /\ (r - m) % m = r
        BY <1>m, <3>1, ModShift
      <3>4. ((previous + delta + h) % m) = r
        BY <3>2, <3>3
      <3> QED BY <3>4 DEF r
    <2> QED BY <1>1, <1>2, <2>3 DEF Wrap
  <1> QED BY <1>4, <1>5
=============================================================================

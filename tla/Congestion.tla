----------------------------- MODULE Congestion -----------------------------
(***************************************************************************)
(* The congestion window of RetransmitQueue, in the fixed point the code   *)
(* keeps it in.  Reliability uses the window in messages and lets it widen *)
(* by any amount; this is what it does.                                    *)
(*                                                                         *)
(* The code has no notion of a round trip.  The history variable round     *)
(* counts one as the acknowledgements of as many messages as the window    *)
(* held when it began.                                                     *)
(***************************************************************************)
EXTENDS Integers, Sequences

CONSTANTS MaxInFlight, InitialCwnd, MinCwnd, Scale     \* the code's; Scale is CWND_SCALE

\* What the constants must satisfy.
CongestionAssumption ==
    /\ MaxInFlight \in Nat /\ InitialCwnd \in Nat /\ MinCwnd \in Nat /\ Scale \in Nat
    /\ 0 < MinCwnd /\ MinCwnd <= InitialCwnd /\ InitialCwnd <= MaxInFlight
    /\ MaxInFlight < Scale

VARIABLES
    cwnd, ssthresh,
    round       \* history: the window it began with, what has been acked in it,
                \* and the windows the rounds before it began with, if all of
                \* them were above the threshold
vars == <<cwnd, ssthresh, round>>

Least(a, b) == IF a < b THEN a ELSE b
Most(a, b) == IF a > b THEN a ELSE b

\* window()
Window == Most(1, Least(cwnd \div Scale, MaxInFlight))

Round(w) == [start |-> w, acked |-> 0, before |-> <<>>]

\* RetransmitQueue::new, and forget_path
Init ==
    /\ cwnd = InitialCwnd * Scale
    /\ ssthresh = MaxInFlight * Scale
    /\ round = Round(InitialCwnd)

\* Mutant: growth above the threshold is not scaled down by the window.
WidenedFast(w) == IF w < ssthresh THEN w + Scale ELSE w + (Scale \div 2)

\* on_delivery, as the window it leaves
Widened(w) ==
    Least(MaxInFlight * Scale,
          IF w < ssthresh THEN w + Scale ELSE w + Most((Scale * Scale) \div Most(w, 1), 1))

\* One message acknowledged, in on_ack.
OnDelivery ==
    LET ended == round.acked + 1 = round.start
        steady == cwnd >= ssthresh
    IN
    /\ cwnd' = Widened(cwnd)
    /\ round' = IF ~ended THEN [round EXCEPT !.acked = @ + 1]
                ELSE [start |-> Window', acked |-> 0,
                      before |-> IF ~steady THEN <<>>
                                 ELSE IF Len(round.before) = 2
                                      THEN <<round.before[2], round.start>>
                                      ELSE Append(round.before, round.start)]
    /\ UNCHANGED ssthresh

\* on_loss, from poll
OnLoss ==
    /\ ssthresh' = Most(cwnd \div 2, MinCwnd * Scale)
    /\ cwnd' = MinCwnd * Scale
    /\ round' = Round(Window')

\* forget_path
ForgetPath ==
    /\ cwnd' = InitialCwnd * Scale
    /\ ssthresh' = MaxInFlight * Scale
    /\ round' = Round(Window')

Next == OnDelivery \/ OnLoss \/ ForgetPath

Spec == Init /\ [][Next]_vars

-----------------------------------------------------------------------------

\* Type correctness: the window stays within MIN_CWND and MAX_IN_FLIGHT.
TypeOK ==
    /\ cwnd \in MinCwnd * Scale .. MaxInFlight * Scale
    /\ ssthresh \in MinCwnd * Scale .. MaxInFlight * Scale

\* The window "grows by one message per round trip" above the threshold and
\* "doubles per round trip" below it (D24): never faster, wherever in a round
\* the threshold is crossed.
NeverFaster ==
    /\ round.before # <<>> => Window <= round.start + 1
    /\ Window <= 2 * round.start

\* ... and hardly slower: the fixed point may lose a little of the message, so
\* that a round can end without it, but not two rounds running.
KeepsGrowing ==
    Len(round.before) = 2 => round.start > round.before[1] \/ round.start = MaxInFlight
=============================================================================

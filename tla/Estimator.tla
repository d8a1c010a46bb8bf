----------------------------- MODULE Estimator -----------------------------
(***************************************************************************)
(* One Rto fed with round trips, as RetransmitQueue::on_ack and            *)
(* Endpoint::measure_path feed theirs: any u32, since both clamp a clock   *)
(* difference to u32::MAX rather than discard it.                          *)
(***************************************************************************)
EXTENDS Rto

CONSTANT RoundTrips     \* the samples offered

ASSUME RoundTripsAssumption == RoundTrips \subseteq 0..Widest

VARIABLES
    rto,
    last        \* the latest sample; history

estimate == <<rto, last>>

EstimatorInit == rto = NewRto /\ last = <<>>

TakeSample(rtt) == rto' = Sample(rto, rtt) /\ last' = <<rtt>>

EstimatorNext == \E rtt \in RoundTrips : TakeSample(rtt)

EstimatorSpec == EstimatorInit /\ [][EstimatorNext]_estimate

-----------------------------------------------------------------------------

\* Type correctness.
EstimatorTypeOK ==
    /\ rto = NewRto \/ rto \in [smoothed : Nat, variation : Nat]
    /\ last = <<>> \/ last \in {<<r>> : r \in RoundTrips}

\* Each average sample takes lies between the two values it averages.
Between(x, a, b) == (a <= x /\ x <= b) \/ (b <= x /\ x <= a)
Averaged(rtt) ==
    rto # NewRto => /\ Between(rto'.smoothed, rto.smoothed, rtt)
                    /\ \/ rto'.variation <= rto.variation
                       \/ rto'.variation <= AbsDiff(rto.smoothed, rtt)

\* Rto::sample computes in 64 bits and narrows; "the narrowing loses nothing":
\* every result lies between the values it averages, whatever their size.
NarrowingLosesNothing == [][\E rtt \in RoundTrips : last' = <<rtt>> /\ Averaged(rtt)]_estimate

\* Whatever was measured before, the timeout right after a sample is at least
\* that round trip, up to the ceiling and but for three milliseconds that the
\* integer divisions may lose: a path that has slowed down to any extent is
\* waited for from the first sample that shows it.
EstimateCovers ==
    last # <<>> => \/ Current(rto) + 3 >= last[1]
                   \/ Current(rto) = MaxRto

=============================================================================

-------------------------------- MODULE Rto --------------------------------
(***************************************************************************)
(* The retransmission timeout estimator, Rto of fectp-core, used for data  *)
(* by RetransmitQueue and for opening frames by Endpoint.  An estimate is  *)
(* <<>> before the first sample and a record afterwards.                   *)
(***************************************************************************)
EXTENDS Integers

CONSTANTS
    InitialRto, MinRto, MaxRto,    \* INITIAL_RTO_MS, MIN_RTO_MS, MAX_RTO_MS
    Widest                         \* u32::MAX

ASSUME RtoAssumption ==
    /\ InitialRto \in Nat /\ MinRto \in Nat /\ MaxRto \in Nat /\ Widest \in Nat
    /\ MinRto <= InitialRto /\ InitialRto <= MaxRto /\ 3 <= MaxRto /\ MaxRto <= Widest

\* saturating_add and saturating_mul: the exact result, or the widest there is.
Saturated(n) == IF n <= Widest THEN n ELSE Widest

Clamped(n) == IF n < MinRto THEN MinRto ELSE IF n > MaxRto THEN MaxRto ELSE n

AbsDiff(a, b) == IF a < b THEN b - a ELSE a - b

NewRto == <<>>

Known(smoothed, variation) == [smoothed |-> smoothed, variation |-> variation]

\* Rto::current
Current(rto) ==
    IF rto = NewRto THEN InitialRto
    ELSE Clamped(Saturated(rto.smoothed + Saturated(4 * rto.variation)))

\* Mutant: the variation is taken from the sample alone.
SampleUnsmoothed(rto, rtt) ==
    IF rto = NewRto THEN Known(rtt, rtt \div 2)
    ELSE Known((7 * rto.smoothed + rtt) \div 8, AbsDiff(rto.smoothed, rtt) \div 8)

\* Rto::sample, in 64 bits and then narrowed.
Sample(rto, rtt) ==
    IF rto = NewRto THEN Known(rtt, rtt \div 2)
    ELSE Known(((7 * rto.smoothed + rtt) \div 8) % (Widest + 1),
               ((3 * rto.variation + AbsDiff(rto.smoothed, rtt)) \div 4) % (Widest + 1))

\* Rto::with_backoff
WithBackoff(rto, retries) ==
    LET shift == IF retries < 5 THEN retries ELSE 5
        timeout == Saturated(Current(rto) * 2^shift)
    IN IF timeout < MaxRto THEN timeout ELSE MaxRto
=============================================================================

------------------------------- MODULE MCWake --------------------------------
(***************************************************************************)
(* An endpoint's timers: the poll loop with one peer that has everything   *)
(* and two handshakes, and beside it the schedule of the handshakes        *)
(* themselves, in milliseconds.  A behaviour is about one of them.         *)
(***************************************************************************)
EXTENDS Wake, TLC

CONSTANTS InitialRto, MinRto, MaxRto, Widest, RetryMs

VARIABLES part, delay, paths, openings, limit, resends, failed, changes, lost

loop == <<next_wake, peers, outbound, keepalive, peer_timeout, polling, inside>>
schedule == <<delay, paths, openings, limit, resends, failed, changes, lost>>

\* Room for one of two paths, and frames lost.
Crowded == INSTANCE Opening WITH
    outbound <- openings, Handles <- {"h1"}, Addrs <- {"a1", "a2"}, MaxMeasured <- 1,
    Settings <- {0, 3}, Delays <- {8, 1400}, Lags <- {0}, MaxChanges <- 0, MaxLost <- 2

\* An endpoint late to drive and to read, and a path that changes.
Late == INSTANCE Opening WITH
    outbound <- openings, Handles <- {"h1"}, Addrs <- {"a1"}, MaxMeasured <- 1,
    Settings <- {2, 3}, Delays <- {8, 2000}, Lags <- {0, 40}, MaxChanges <- 1, MaxLost <- 0

\* Two handshakes at a time on a steady path that loses frames.
Lossy == INSTANCE Opening WITH
    outbound <- openings, Handles <- {"h1", "h2"}, Addrs <- {"a1"}, MaxMeasured <- 2,
    Settings <- {3}, Delays <- {24, 400}, Lags <- {0}, MaxChanges <- 0, MaxLost <- 2

\* Two steady paths, from fast to slower than the whole budget.
Slow == INSTANCE Opening WITH
    outbound <- openings, Handles <- {"h1"}, Addrs <- {"a1", "a2"}, MaxMeasured <- 2,
    Settings <- {4}, Delays <- {24, 400, 2400, 3000}, Lags <- {0}, MaxChanges <- 0, MaxLost <- 0

ASSUME SchedulesFit ==
    /\ Crowded!OpeningAssumption /\ Late!OpeningAssumption
    /\ Lossy!OpeningAssumption /\ Slow!OpeningAssumption

Perms == Permutations(Peers) \cup Permutations(Connects)

Idle ==
    /\ delay = <<>> /\ paths = <<>> /\ openings = <<>> /\ limit = 0
    /\ resends = <<>> /\ failed = <<>> /\ changes = 0 /\ lost = 0

TimersInit ==
    /\ Init
    /\ \/ part = "loop" /\ Idle
       \/ part = "crowded" /\ Crowded!Init
       \/ part = "late" /\ Late!Init
       \/ part = "lossy" /\ Lossy!Init
       \/ part = "slow" /\ Slow!Init

TimersNext ==
    /\ UNCHANGED part
    /\ \/ part = "loop" /\ Next /\ UNCHANGED schedule
       \/ part = "crowded" /\ Crowded!Next /\ UNCHANGED loop
       \/ part = "late" /\ Late!Next /\ UNCHANGED loop
       \/ part = "lossy" /\ Lossy!Next /\ UNCHANGED loop
       \/ part = "slow" /\ Slow!Next /\ UNCHANGED loop

TimersSpec == TimersInit /\ [][TimersNext]_<<part, loop, schedule>>

\* What a handshake that was resent teaches (learn_from_resent): a loss leaves no
\* floor behind (LossIsNotSlowness of Opening), and a path too slow for the first
\* schedule is measured by its second handshake (SlowPathIsMeasured of Opening).
ResendsTeach ==
    /\ part = "lossy" => Lossy!LossIsNotSlowness
    /\ part = "slow" => Slow!SlowPathIsMeasured
=============================================================================

------------------------------ MODULE Waiting ------------------------------
(***************************************************************************)
(* How a datagram is waited for on Windows: the cfg(windows) branches of    *)
(* recv_from, send_to and recv_from_peeking in udp.rs.                      *)
(*                                                                         *)
(* The system's socket is external and modelled as the code describes it:  *)
(* a blocking read that times out may take with it a datagram that arrives *)
(* as the timeout expires; a peek that times out takes nothing; an error   *)
(* report (a port unreachable, a datagram too large for the buffer) is     *)
(* queued ahead of data, is seen by a peek, and stays until a read takes   *)
(* it.  So the code never waits by reading.  An endpoint's socket is       *)
(* non-blocking: a read is tried, the wait is a peek, and then the read is *)
(* tried again.  A socket handed to UdpTransport::with_peer keeps its mode *)
(* and every read of it is preceded by a peek (Peeking).                   *)
(***************************************************************************)
EXTENDS Naturals, Sequences, SequencesExt

CONSTANTS
    Peeking,     \* TRUE: recv_from_peeking; FALSE: recv_from and send_to
    Datagrams,   \* datagrams that may arrive, each once
    MaxReports   \* bound: error reports the system queues

VARIABLES
    queue,       \* what the system holds for the socket: datagrams, "report"
    nonblocking, \* the socket's mode
    at,          \* where the call in progress is
    seen,        \* what the wait ended with
    arrived,     \* datagrams the system accepted
    returned,    \* datagrams recv_from returned
    reports      \* reports queued so far

vars == <<queue, nonblocking, at, seen, arrived, returned, reports>>

Init ==
    /\ queue = <<>> /\ nonblocking = ~Peeking
    /\ at = "idle" /\ seen = "none"
    /\ arrived = {} /\ returned = {} /\ reports = 0

------------------------------------------------------------------------------
(* The system.                                                              *)

Arrive(d) ==
    /\ d \notin arrived
    /\ arrived' = arrived \union {d}
    /\ queue' = Append(queue, d)
    /\ UNCHANGED <<nonblocking, at, seen, returned, reports>>

\* Bounded: a system that kept queuing reports ahead of data would hold data up
\* for ever whatever the code did.
Report ==
    /\ reports < MaxReports
    /\ reports' = reports + 1
    /\ queue' = <<"report">> \o queue
    /\ UNCHANGED <<nonblocking, at, seen, arrived, returned>>

------------------------------------------------------------------------------
(* recv_from.                                                               *)

\* What a read takes off the queue is the call's answer; from an empty queue it
\* takes nothing and reports that it would block.
TakeHead ==
    IF queue = <<>> THEN UNCHANGED <<queue, returned>>
    ELSE /\ queue' = Tail(queue)
         /\ returned' = returned \union ({Head(queue)} \ {"report"})

\* The read tried first: whatever is queued is returned at once.
TryRead ==
    /\ ~Peeking /\ at = "idle"
    /\ TakeHead
    /\ at' = IF queue = <<>> THEN "blocking" ELSE "idle"
    /\ UNCHANGED <<nonblocking, seen, arrived, reports>>

SetBlocking ==
    /\ at = "blocking"
    /\ nonblocking' = FALSE
    /\ at' = "waiting"
    /\ UNCHANGED <<queue, seen, arrived, returned, reports>>

\* The peek: it ends when something is queued, or at the timeout.
Wait ==
    /\ at = "waiting"
    /\ seen' = IF queue = <<>> THEN "timeout"
               ELSE IF Head(queue) = "report" THEN "error" ELSE "data"
    /\ at' = "waited"
    /\ UNCHANGED <<queue, nonblocking, arrived, returned, reports>>

\* The timeout could not be had or set, so there was no peek.
WaitRefused ==
    /\ at = "waiting"
    /\ seen' = "error"
    /\ at' = "waited"
    /\ UNCHANGED <<queue, nonblocking, arrived, returned, reports>>

\* The peek times out in the instant a datagram arrives, and leaves it queued.
TimesOutAsOneArrives(d) ==
    /\ at = "waiting" /\ queue = <<>> /\ d \notin arrived
    /\ arrived' = arrived \union {d}
    /\ queue' = Append(queue, d)
    /\ seen' = "timeout"
    /\ at' = "waited"
    /\ UNCHANGED <<nonblocking, returned, reports>>

\* The mode is put back whatever the wait said; only a timeout returns.
SetNonblocking ==
    /\ at = "waited"
    /\ nonblocking' = TRUE
    /\ at' = IF seen = "timeout" THEN "idle" ELSE "reading"
    /\ UNCHANGED <<queue, seen, arrived, returned, reports>>

\* The read after the wait takes what is first by now, an error report included.
ReadAgain ==
    /\ at = "reading"
    /\ TakeHead
    /\ at' = "idle"
    /\ UNCHANGED <<nonblocking, seen, arrived, reports>>

------------------------------------------------------------------------------
(* send_to, on the same socket and the same thread, between two receives.   *)

\* A send that would block is sent again on a blocking socket.
SendWouldBlock ==
    /\ ~Peeking /\ at = "idle"
    /\ nonblocking' = FALSE
    /\ at' = "sending"
    /\ UNCHANGED <<queue, seen, arrived, returned, reports>>

\* The mode is put back whatever the second send said.
SentBlocking ==
    /\ at = "sending"
    /\ nonblocking' = TRUE
    /\ at' = "idle"
    /\ UNCHANGED <<queue, seen, arrived, returned, reports>>

------------------------------------------------------------------------------
(* recv_from_peeking: the peek waits as the socket's own timeout says.      *)

\* Mutant: any error the peek reports is returned, and left where it is.
PeekFirstReturning ==
    /\ Peeking /\ at = "idle"
    /\ at' = IF queue # <<>> /\ Head(queue) # "report" THEN "reading" ELSE "idle"
    /\ UNCHANGED <<queue, nonblocking, seen, arrived, returned, reports>>

\* Only a timeout returns; anything else the peek said is left for the read.
PeekFirst ==
    /\ Peeking /\ at = "idle"
    /\ at' = IF queue = <<>> THEN "idle" ELSE "reading"
    /\ UNCHANGED <<queue, nonblocking, seen, arrived, returned, reports>>

Next ==
    \/ \E d \in Datagrams : Arrive(d) \/ TimesOutAsOneArrives(d)
    \/ Report
    \/ TryRead \/ SetBlocking \/ Wait \/ WaitRefused \/ SetNonblocking \/ ReadAgain
    \/ SendWouldBlock \/ SentBlocking
    \/ PeekFirst

\* Every call runs to its end, and an endpoint that is polled reads again
\* whatever it sends in between, hence the strong fairness of TryRead.
Fairness ==
    /\ SF_vars(TryRead)
    /\ WF_vars(SetBlocking) /\ WF_vars(Wait) /\ WF_vars(SetNonblocking)
    /\ WF_vars(ReadAgain) /\ WF_vars(SentBlocking) /\ WF_vars(PeekFirst)

Spec == Init /\ [][Next]_vars /\ Fairness

------------------------------------------------------------------------------
\* The queue holds datagrams and reports (recv_from).
TypeOK ==
    /\ \A i \in DOMAIN queue : queue[i] \in Datagrams \union {"report"}
    /\ at \in {"idle", "blocking", "waiting", "waited", "reading", "sending"}
    /\ seen \in {"none", "timeout", "error", "data"}
    /\ nonblocking \in BOOLEAN
    /\ arrived \subseteq Datagrams /\ returned \subseteq arrived
    /\ reports \in 0..MaxReports

\* An error report seen by a peek does not stop the waits after it: every
\* datagram that arrives is returned in the end (recv_from,
\* recv_from_peeking).
EveryDatagramIsReturned ==
    \A d \in Datagrams : d \in arrived ~> d \in returned
==============================================================================

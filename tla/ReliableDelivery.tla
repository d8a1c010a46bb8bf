-------------------------- MODULE ReliableDelivery --------------------------
(***************************************************************************)
(* What one direction of a FECTP session promises about reliable messages: *)
(* the sender may report a message acknowledged only after the receiving   *)
(* application has been handed it, and the application is handed each      *)
(* message at most once, in any order, even one the sender has given up    *)
(* on.  Reliability is shown to implement this.                            *)
(***************************************************************************)
EXTENDS Naturals

CONSTANT Msg        \* messages, numbered in the order they are sent

VARIABLES status,   \* what the sender holds or has reported of each message
          delivered \* how often the receiving application was handed each

vars == <<status, delivered>>

Statuses == {"unsent", "inflight", "acked", "abandoned"}

Init ==
    /\ status = [n \in Msg |-> "unsent"]
    /\ delivered = [n \in Msg |-> 0]

Send(n) ==
    /\ status[n] = "unsent"
    /\ status' = [status EXCEPT ![n] = "inflight"]
    /\ UNCHANGED delivered

Deliver(n) ==
    /\ status[n] # "unsent"
    /\ delivered[n] = 0
    /\ delivered' = [delivered EXCEPT ![n] = 1]
    /\ UNCHANGED status

\* Several messages may be settled by one acknowledgement.
Acknowledge(S) ==
    /\ \A n \in S : status[n] = "inflight" /\ delivered[n] = 1
    /\ status' = [n \in Msg |-> IF n \in S THEN "acked" ELSE status[n]]
    /\ UNCHANGED delivered

Abandon(S) ==
    /\ \A n \in S : status[n] = "inflight"
    /\ status' = [n \in Msg |-> IF n \in S THEN "abandoned" ELSE status[n]]
    /\ UNCHANGED delivered

Next ==
    \/ \E n \in Msg : Send(n) \/ Deliver(n)
    \/ \E S \in SUBSET Msg : Acknowledge(S) \/ Abandon(S)

Spec == Init /\ [][Next]_vars
=============================================================================

------------------------------- MODULE MCPmtu --------------------------------
(***************************************************************************)
(* What an endpoint does at its socket: finding the size of the datagrams  *)
(* the path carries, and beside it waiting for a datagram.  A behaviour is *)
(* about one of them.                                                      *)
(***************************************************************************)
EXTENDS Pmtu

CONSTANTS Datagrams, MaxReports

VARIABLES part, queue, nonblocking, at, seen, arrived, returned, reports

size == <<current, probes, validating, search, limit, round, answers, path, carried>>
socket == <<queue, nonblocking, at, seen, arrived, returned, reports>>

\* An endpoint's own socket, and one handed to UdpTransport::with_peer.
Own == INSTANCE Waiting WITH Peeking <- FALSE
Handed == INSTANCE Waiting WITH Peeking <- TRUE

\* A search at rest, with the largest size found.
AtRest ==
    /\ current = Cap /\ limit = Cap /\ probes = {} /\ validating = FALSE
    /\ search = "later" /\ round = 0 /\ answers = {} /\ path = Cap /\ carried = {Cap}

SocketInit ==
    \/ part = "size" /\ Init /\ Own!Init
    \/ part = "own" /\ AtRest /\ Own!Init
    \/ part = "handed" /\ AtRest /\ Handed!Init

SocketNext ==
    /\ UNCHANGED part
    /\ \/ part = "size" /\ Next /\ UNCHANGED socket
       \/ part = "own" /\ Own!Next /\ UNCHANGED size
       \/ part = "handed" /\ Handed!Next /\ UNCHANGED size

\* The fairness of Pmtu and of Waiting, each in the part it belongs to.
SocketFairness ==
    /\ WF_size(part = "size" /\ Due)
    /\ WF_size(part = "size" /\ ProbeExpires)
    /\ WF_size(part = "size" /\ SearchTimer)
    /\ SF_socket(part = "own" /\ Own!TryRead)
    /\ WF_socket(part = "own" /\ (Own!SetBlocking \/ Own!Wait \/ Own!SetNonblocking
                                \/ Own!ReadAgain \/ Own!SentBlocking))
    /\ WF_socket(part = "handed" /\ (Handed!PeekFirst \/ Handed!ReadAgain))

SocketSpec == SocketInit /\ [][SocketNext]_<<part, size, socket>> /\ SocketFairness

\* Waiting's EveryDatagramIsReturned, of both kinds of socket (recv_from,
\* recv_from_peeking).
EveryDatagramIsReturned == Own!EveryDatagramIsReturned
=============================================================================

------------------------------ MODULE MCSession ------------------------------
(* A session over four generations of keys; or, in other behaviours, the     *)
(* handles through which a C host makes sessions, with two keys, three       *)
(* threads and five handshakes.  Neither reads the other's state.            *)
EXTENDS Session, Handles, TLC

VARIABLE part    \* "session" or "handles"

Perms == Permutations(Identities) \union Permutations(Pointers)

BothInit == part \in {"session", "handles"} /\ Init /\ HostInit

BothNext ==
    /\ \/ part = "session" /\ Next /\ UNCHANGED host
       \/ part = "handles" /\ HostNext /\ UNCHANGED vars
    /\ UNCHANGED part

BothSpec == BothInit /\ [][BothNext]_<<part, vars, host>>
==============================================================================

------------------------------ MODULE Handles ------------------------------
(***************************************************************************)
(* The C interface's handles (ffi/src/lib.rs): who owns which box, and how *)
(* long a key held by the host stays reachable.                            *)
(*                                                                         *)
(* An identity made from a host's key holds a counted reference to it, and *)
(* every handshake begun from the identity holds another.  The host's      *)
(* release function runs when the last one goes.  Each of the host's       *)
(* threads drives one pointer; a call that uses the key is two steps, so   *)
(* that other threads act while the host's Diffie-Hellman runs.  The host  *)
(* keeps to the interface's contract: it frees what it has once, and hands *)
(* no handle to two threads.                                               *)
(***************************************************************************)
EXTENDS Naturals, FiniteSets

CONSTANTS
    Identities,   \* identities made by fectp_identity_from_key
    Pointers,     \* the host's handshake pointers, one thread each
    MaxBegun      \* bound: handshakes begun

ASSUME HandlesAssumption == IsFiniteSet(Pointers) /\ MaxBegun \in Nat

VARIABLES
    identity,     \* "unborn", "live" or "freed"
    handle,       \* the handshake each pointer points at, or Null
    call,         \* the call in progress on each thread, or Idle
    session,      \* whether the pointer's session is live
    refs,         \* each key's count of references (Arc<Element>)
    released,     \* how often each key's release function was called
    boxes,        \* handshakes allocated and not freed
    begun         \* handshakes begun, for the bound

host == <<identity, handle, call, session, refs, released, boxes, begun>>

\* A handshake: which side, whose key, whether it holds a reference to it, how
\* far it has come, and whether the host's function has failed it.
Null == [kind |-> "null"]
Idle == [op |-> "idle"]

Handshake ==
    [kind : {"initiator", "responder"}, of : Identities, key : BOOLEAN,
     stage : {"new", "written", "read", "spent"}, failed : BOOLEAN]

HostInit ==
    /\ identity = [i \in Identities |-> "unborn"]
    /\ handle = [p \in Pointers |-> Null]
    /\ call = [p \in Pointers |-> Idle]
    /\ session = [p \in Pointers |-> FALSE]
    /\ refs = [i \in Identities |-> 0]
    /\ released = [i \in Identities |-> 0]
    /\ boxes = 0
    /\ begun = 0

------------------------------------------------------------------------------
\* One reference is dropped; the last one calls the host's release.
Unref(i) ==
    /\ refs' = [refs EXCEPT ![i] = @ - 1]
    /\ released' = [released EXCEPT ![i] = IF refs[i] = 1 THEN @ + 1 ELSE @]

\* A handshake is dropped: its reference goes with it, if it has one.
DropBox(h) ==
    /\ boxes' = boxes - 1
    /\ IF h.key THEN Unref(h.of) ELSE UNCHANGED <<refs, released>>

IdentityFromKey(i) ==
    /\ identity[i] = "unborn"
    /\ identity' = [identity EXCEPT ![i] = "live"]
    /\ refs' = [refs EXCEPT ![i] = 1]
    /\ UNCHANGED <<handle, call, session, released, boxes, begun>>

IdentityFree(i) ==
    /\ identity[i] = "live"
    /\ identity' = [identity EXCEPT ![i] = "freed"]
    /\ Unref(i)
    /\ UNCHANGED <<handle, call, session, boxes, begun>>

\* fectp_identity::key.
Key(i) == refs' = [refs EXCEPT ![i] = @ + 1]

Begin(p, i, kind) ==
    /\ identity[i] = "live" /\ handle[p] = Null /\ call[p] = Idle
    /\ begun < MaxBegun
    /\ handle' = [handle EXCEPT ![p] =
                     [kind |-> kind, of |-> i, key |-> TRUE, stage |-> "new",
                      failed |-> FALSE]]
    /\ Key(i)
    /\ boxes' = boxes + 1
    /\ begun' = begun + 1
    /\ UNCHANGED <<identity, call, session, released>>

InitiatorNew(p, i) == Begin(p, i, "initiator")
ResponderNew(p, i) == Begin(p, i, "responder")

\* The pointer's handshake, when no call is using it.
Ready(p, kind) == handle[p].kind = kind /\ call[p] = Idle

------------------------------------------------------------------------------
(* The initiator.                                                           *)

\* Message 1 is written only once; a second call is refused without effect.
WriteInit(p) ==
    /\ Ready(p, "initiator") /\ handle[p].stage = "new"
    /\ call' = [call EXCEPT ![p] = [op |-> "write_init", of |-> handle[p].of]]
    /\ UNCHANGED <<identity, handle, session, refs, released, boxes, begun>>

\* The host's function returns.  When it failed, the ephemeral key has not been
\* kept, which is what a second call is refused for.
WriteInitReturns(p) ==
    /\ call[p].op = "write_init"
    /\ \/ handle' = [handle EXCEPT ![p].stage = "written"]
       \/ handle' = [handle EXCEPT ![p].failed = TRUE]
    /\ call' = [call EXCEPT ![p] = Idle]
    /\ UNCHANGED <<identity, session, refs, released, boxes, begun>>

\* Mutant: the pointer is left at the box the call takes back.
TakeLeavingPointer(p) == UNCHANGED handle

\* The box is taken back and the host's pointer nulled before anything else.
Take(p) == handle' = [handle EXCEPT ![p] = Null]

\* The handshake is over before the key is needed.
ReadResponseEarly(p) ==
    /\ Ready(p, "initiator") /\ ~session[p]
    /\ Take(p)
    /\ DropBox(handle[p])
    /\ UNCHANGED <<identity, call, session, begun>>

ReadResponse(p) ==
    /\ Ready(p, "initiator") /\ ~session[p]
    /\ handle[p].stage = "written"
    /\ Take(p)
    /\ call' = [call EXCEPT ![p] =
                   [op |-> "read_response", of |-> handle[p].of,
                    failed |-> handle[p].failed]]
    /\ UNCHANGED <<identity, session, refs, released, boxes, begun>>

\* Mutant: the box is not dropped when the response is refused.
ReadResponseReturnsLeaking(p) ==
    /\ call[p].op = "read_response"
    /\ \/ session' = [session EXCEPT ![p] = ~call[p].failed]
       \/ UNCHANGED session
    /\ call' = [call EXCEPT ![p] = Idle]
    /\ IF session'[p]
       THEN boxes' = boxes - 1 /\ Unref(call[p].of)
       ELSE UNCHANGED <<boxes, refs, released>>
    /\ UNCHANGED <<identity, handle, begun>>

\* A session, unless the response is refused: always when the transcript holds
\* an attempt the host's function failed.  The box is dropped either way.
ReadResponseReturns(p) ==
    /\ call[p].op = "read_response"
    /\ \/ session' = [session EXCEPT ![p] = ~call[p].failed]
       \/ UNCHANGED session
    /\ call' = [call EXCEPT ![p] = Idle]
    /\ boxes' = boxes - 1
    /\ Unref(call[p].of)
    /\ UNCHANGED <<identity, handle, begun>>

------------------------------------------------------------------------------
(* The responder.                                                           *)

\* read_init moves the key out of the responder and into the handshake it is
\* trying; without a key left it refuses.
ReadInit(p) ==
    /\ Ready(p, "responder") /\ handle[p].stage = "new"
    /\ handle' = [handle EXCEPT ![p].key = FALSE]
    /\ call' = [call EXCEPT ![p] = [op |-> "read_init", of |-> handle[p].of]]
    /\ UNCHANGED <<identity, session, refs, released, boxes, begun>>

ReadInitSucceeds(p) ==
    /\ call[p].op = "read_init"
    /\ handle' = [handle EXCEPT ![p].key = TRUE, ![p].stage = "read"]
    /\ call' = [call EXCEPT ![p] = Idle]
    /\ UNCHANGED <<identity, session, refs, released, boxes, begun>>

\* The host's function fails, or the frame does not authenticate, or the
\* buffer is short: the attempt is dropped, and the key with it.
ReadInitFails(p) ==
    /\ call[p].op = "read_init"
    /\ \E byKey \in BOOLEAN :
          handle' = [handle EXCEPT ![p].stage = "spent", ![p].failed = byKey]
    /\ call' = [call EXCEPT ![p] = Idle]
    /\ Unref(call[p].of)
    /\ UNCHANGED <<identity, session, boxes, begun>>

\* Consumes the responder; a session if message 1 was read and the reply fits.
WriteResponse(p) ==
    /\ Ready(p, "responder") /\ ~session[p]
    /\ Take(p)
    /\ DropBox(handle[p])
    /\ \/ UNCHANGED session
       \/ handle[p].stage = "read" /\ session' = [session EXCEPT ![p] = TRUE]
    /\ UNCHANGED <<identity, call, begun>>

------------------------------------------------------------------------------
HandshakeFree(p) ==
    /\ handle' = [handle EXCEPT ![p] = Null]
    /\ DropBox(handle[p])
    /\ UNCHANGED <<identity, call, session, begun>>

InitiatorFree(p) == Ready(p, "initiator") /\ HandshakeFree(p)
ResponderFree(p) == Ready(p, "responder") /\ HandshakeFree(p)

SessionFree(p) ==
    /\ session[p] /\ call[p] = Idle
    /\ session' = [session EXCEPT ![p] = FALSE]
    /\ UNCHANGED <<identity, handle, call, refs, released, boxes, begun>>

HostNext ==
    \/ \E i \in Identities : IdentityFromKey(i) \/ IdentityFree(i)
    \/ \E p \in Pointers :
          \/ \E i \in Identities : InitiatorNew(p, i) \/ ResponderNew(p, i)
          \/ WriteInit(p) \/ WriteInitReturns(p)
          \/ ReadResponse(p) \/ ReadResponseReturns(p) \/ ReadResponseEarly(p)
          \/ ReadInit(p) \/ ReadInitSucceeds(p) \/ ReadInitFails(p)
          \/ WriteResponse(p)
          \/ InitiatorFree(p) \/ ResponderFree(p) \/ SessionFree(p)

HostSpec == HostInit /\ [][HostNext]_host

------------------------------------------------------------------------------
\* Every pointer is null or points at a handshake, and no count goes negative.
HostTypeOK ==
    /\ identity \in [Identities -> {"unborn", "live", "freed"}]
    /\ \A p \in Pointers :
          /\ handle[p] = Null \/ handle[p] \in Handshake
          /\ call[p].op \in {"idle", "write_init", "read_init", "read_response"}
    /\ refs \in [Identities -> Nat] /\ released \in [Identities -> Nat]
    /\ boxes \in Nat

\* Release comes once, and when it should.  Never twice; never too soon, for the
\* host's function is not called, nor running, with a context the host has been
\* told to let go, whichever thread frees the identity meanwhile; and not too
\* late, for once the identity is freed and every handshake begun from it is
\* consumed or freed the host has been told (fectp_identity_from_key,
\* Element::drop).
ReleasedOnce ==
    /\ \A p \in Pointers : call[p] # Idle => released[call[p].of] = 0
    /\ \A i \in Identities :
        /\ released[i] <= 1
        /\ identity[i] = "freed"
             /\ (\A p \in Pointers : /\ handle[p] # Null => handle[p].of # i
                                     /\ call[p] # Idle => call[p].of # i)
             => released[i] = 1

\* Every handshake in memory belongs to exactly one pointer of the host's or to
\* a call that has taken it back: a consumed pointer cannot reach it again, and
\* none is left without an owner (read_response, write_response).
OneOwner ==
    boxes = Cardinality({p \in Pointers : handle[p] # Null})
          + Cardinality({p \in Pointers : call[p].op = "read_response"})
==============================================================================

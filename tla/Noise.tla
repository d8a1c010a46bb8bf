------------------------------- MODULE Noise ---------------------------------
(***************************************************************************)
(* The key schedules of crates/fectp-core/src/noise: SymmetricState, the   *)
(* IK handshake and the NNpsk0 handshake.  Cryptography is symbolic.  A    *)
(* hash is the sequence of what was hashed; the chaining key the sequence  *)
(* of what was mixed in; a ciphertext is a record of the key, the nonce    *)
(* and the associated data it was made with, and opens under no others.    *)
(* A key pair is named by one value, public and private alike, and the     *)
(* Diffie-Hellman of two is the set of them.                               *)
(***************************************************************************)
EXTENDS Naturals, Sequences

Dh(a, b) == {a, b}
None == <<>>

\* SymmetricState::new: not keyed yet.
Symmetric(name) == [ck |-> <<<<"name", name>>>>, h |-> <<<<"name", name>>>>, key |-> None, n |-> 0]

MixHash(sym, data) == [sym EXCEPT !.h = Append(@, data)]

\* mix_key: both halves of hkdf2 depend on all that was mixed in.
MixKey(sym, ikm) ==
    LET ck == Append(sym.ck, ikm) IN [sym EXCEPT !.ck = ck, !.key = <<"key", ck>>, !.n = 0]

\* mix_key_and_hash: into the transcript goes an output of the derivation.
MixKeyAndHash(sym, psk) ==
    MixHash(MixKey(sym, <<"psk", psk>>), <<"temp_h", Append(sym.ck, <<"psk", psk>>)>>)

\* mix_ephemeral_with_psk: an ephemeral in a psk pattern.
MixEphemeralWithPsk(sym, e) == MixKey(MixHash(sym, <<"e", e>>), <<"e", e>>)

\* encrypt_and_hash, and the ciphertext.
Encrypted(sym, body) == [key |-> sym.key, n |-> sym.n, ad |-> sym.h, body |-> body]
EncryptAndHash(sym, body) == [MixHash(sym, <<"ct", Encrypted(sym, body)>>) EXCEPT !.n = @ + 1]

\* decrypt_and_hash: whether it opens, and the state after.
Opens(sym, ct) == ct.key = sym.key /\ ct.n = sym.n /\ ct.ad = sym.h
DecryptAndHash(sym, ct) == [MixHash(sym, <<"ct", ct>>) EXCEPT !.n = @ + 1]

\* split, in the order initiator to responder, responder to initiator.
Split(sym) == <<<<"c1", sym.ck>>, <<"c2", sym.ck>>>>
ResumptionKey(sym) == <<"resumption", sym.ck>>

\* Mutant: both sides send on the first.
TransportFirst(sym, initiator) ==
    LET c == Split(sym) IN [send |-> c[1], recv |-> c[2]]

\* The transport keys of a side: [send, recv].
Transport(sym, initiator) ==
    LET c == Split(sym) IN
    IF initiator THEN [send |-> c[1], recv |-> c[2]] ELSE [send |-> c[2], recv |-> c[1]]

-----------------------------------------------------------------------------
\* IK.  A state is [sym, role, s, e, rs, re, step]; an operation gives the state
\* after it and whether it went well.  A static key may live in a device, whose
\* Diffie-Hellman may fail: works says whether it did.

\* HandshakeState::init: rs is the responder's key, which both absorb.
IkInit(role, s, rs, prologue) ==
    [sym |-> MixHash(MixHash(Symmetric("IK"), <<"prologue", prologue>>),
                     <<"s", IF role = "initiator" THEN rs ELSE s>>),
     role |-> role, s |-> s, e |-> None, rs |-> rs, re |-> None,
     step |-> IF role = "initiator" THEN "message2" ELSE "message1"]

\* write_message_1_in_place: the message is [e, s, payload].
IkWrite1(hs, e, payload, works) ==
    LET es == MixKey(MixHash(hs.sym, <<"e", e>>), Dh(e, hs.rs))
        ss == MixKey(EncryptAndHash(es, hs.s), Dh(hs.s, hs.rs))
    IN [ok |-> hs.role = "initiator" /\ hs.step = "message2" /\ hs.e = None /\ works,
        msg |-> [e |-> e, s |-> Encrypted(es, hs.s), payload |-> Encrypted(ss, payload)],
        hs |-> [hs EXCEPT !.sym = EncryptAndHash(ss, payload), !.e = e]]

\* read_message_1: it names the initiator.
IkRead1(hs, msg, works) ==
    LET es == MixKey(MixHash(hs.sym, <<"e", msg.e>>), Dh(hs.s, msg.e))
        rs == msg.s.body
        ss == MixKey(DecryptAndHash(es, msg.s), Dh(hs.s, rs))
    IN [ok |-> /\ hs.role = "responder" /\ hs.step = "message1" /\ works
               /\ Opens(es, msg.s) /\ Opens(ss, msg.payload),
        hs |-> [hs EXCEPT !.sym = DecryptAndHash(ss, msg.payload), !.re = msg.e, !.rs = rs,
                          !.step = "message2"]]

\* The tokens e, ee, se of message 2.
IkMix2(sym, e, ee, se) == MixKey(MixKey(MixHash(sym, <<"e", e>>), ee), se)

\* write_message_2_in_place.
IkWrite2(hs, e, payload) ==
    LET se == IkMix2(hs.sym, e, Dh(e, hs.re), Dh(e, hs.rs))
    IN [ok |-> hs.role = "responder" /\ hs.step = "message2",
        msg |-> [e |-> e, payload |-> Encrypted(se, payload)],
        hs |-> [hs EXCEPT !.sym = EncryptAndHash(se, payload), !.e = e, !.step = "done"]]

\* read_message_2.
IkRead2(hs, msg, works) ==
    LET se == IkMix2(hs.sym, msg.e, Dh(hs.e, msg.e), Dh(hs.s, msg.e))
    IN [ok |-> /\ hs.role = "initiator" /\ hs.step = "message2" /\ hs.e # None /\ works
               /\ Opens(se, msg.payload),
        hs |-> [hs EXCEPT !.sym = DecryptAndHash(se, msg.payload), !.re = msg.e, !.step = "done"]]

-----------------------------------------------------------------------------
\* NNpsk0, likewise.

PskInit(role, psk, prologue) ==
    [sym |-> MixKeyAndHash(MixHash(Symmetric("NNpsk0"), <<"prologue", prologue>>), psk),
     role |-> role, e |-> None, re |-> None,
     step |-> IF role = "initiator" THEN "message2" ELSE "message1"]

PskWrite1(hs, e, payload) ==
    LET sym == MixEphemeralWithPsk(hs.sym, e)
    IN [ok |-> hs.role = "initiator" /\ hs.step = "message2" /\ hs.e = None,
        msg |-> [e |-> e, payload |-> Encrypted(sym, payload)],
        hs |-> [hs EXCEPT !.sym = EncryptAndHash(sym, payload), !.e = e]]

PskRead1(hs, msg) ==
    LET sym == MixEphemeralWithPsk(hs.sym, msg.e)
    IN [ok |-> hs.role = "responder" /\ hs.step = "message1" /\ Opens(sym, msg.payload),
        hs |-> [hs EXCEPT !.sym = DecryptAndHash(sym, msg.payload), !.re = msg.e,
                          !.step = "message2"]]

PskWrite2(hs, e, payload) ==
    LET sym == MixKey(MixEphemeralWithPsk(hs.sym, e), Dh(e, hs.re))
    IN [ok |-> hs.role = "responder" /\ hs.step = "message2",
        msg |-> [e |-> e, payload |-> Encrypted(sym, payload)],
        hs |-> [hs EXCEPT !.sym = EncryptAndHash(sym, payload), !.e = e, !.step = "done"]]

PskRead2(hs, msg) ==
    LET sym == MixKey(MixEphemeralWithPsk(hs.sym, msg.e), Dh(hs.e, msg.e))
    IN [ok |-> /\ hs.role = "initiator" /\ hs.step = "message2" /\ hs.e # None
               /\ Opens(sym, msg.payload),
        hs |-> [hs EXCEPT !.sym = DecryptAndHash(sym, msg.payload), !.re = msg.e, !.step = "done"]]
=============================================================================

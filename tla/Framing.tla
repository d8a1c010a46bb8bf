------------------------------- MODULE Framing -------------------------------
(***************************************************************************)
(* The inside of a frame: how Session assembles a plaintext from its       *)
(* optional parts, how open peels them off again, and the sizes Connection *)
(* promises a frame will have (session.rs, fragment.rs, pipeline.rs,       *)
(* lib.rs).                                                                *)
(*                                                                         *)
(*     [pad_len]? [message_id]? [fragment]? payload [zeros]?               *)
(*                                                                         *)
(* A plaintext is a sequence of octets, written and read the way the code  *)
(* does, with every width a constant.  Encryption, sequence numbers and    *)
(* keys are module Session's; the frame here has been authenticated.       *)
(***************************************************************************)
EXTENDS Naturals, Sequences, SequencesExt

CONSTANTS
    Radix,            \* values of an octet: 256
    HEADER_LEN,       \* 14
    TAGLEN,           \* 16
    LEN_PREFIX,       \* 2
    MESSAGE_ID_LEN,   \* 4
    FIELD_LEN,        \* each field of a fragment descriptor: 4, 2 and 2
    ACK_BLOCK_LEN,    \* 12
    PATH_TOKEN_LEN,   \* 8
    PAD_BLOCK,        \* 64
    MAX_FRAGMENTS,    \* 4096
    Ceiling,          \* transport.max_datagram_size(), and the size of tx
    Limits,           \* what path MTU discovery may have the limit be
    PeerMaxima,       \* the max_frame_size the peer may have advertised
    Pads,             \* what set_padding is called with
    Plaintexts        \* plaintexts another implementation may seal

\* What the constants must satisfy.
FramingSizes ==
    /\ {Radix, PAD_BLOCK} \subseteq Nat \ {0, 1}
    /\ {HEADER_LEN, TAGLEN, LEN_PREFIX, MESSAGE_ID_LEN, FIELD_LEN,
        ACK_BLOCK_LEN, PATH_TOKEN_LEN, MAX_FRAGMENTS, Ceiling}
            \subseteq Nat \ {0}
    /\ Limits \subseteq 1..Ceiling
    /\ PeerMaxima \subseteq Nat
    /\ Pads \subseteq BOOLEAN

FRAGMENT_LEN == 3 * FIELD_LEN
DATA_OVERHEAD == HEADER_LEN + TAGLEN
PATH_FRAME_LEN == DATA_OVERHEAD + PATH_TOKEN_LEN
MIN_PROBE_LEN == PATH_FRAME_LEN + LEN_PREFIX

Octet == 0..(Radix - 1)
None == <<>>

VARIABLES
    padding,     \* Session::padding, the sender's
    peerMax,     \* the receiver's max_frame_size, as the sender was told it
    limit,       \* Core::limit(): what path MTU discovery allows now
    asked,       \* the call in progress: what was handed over to be sealed
    wire,        \* the frame it produced, or None
    failed,      \* the error it returned, or None
    got          \* what open made of the frame, or None

vars == <<padding, peerMax, limit, asked, wire, failed, got>>

------------------------------------------------------------------------------
(* Numbers as little-endian octets, and back.                              *)

ToLe(n, width) == [i \in 1..width |-> (n \div Radix^(i - 1)) % Radix]

FromLe(s) == FoldLeftDomain(LAMBDA n, i : n + s[i] * Radix^(i - 1), 0, s)

Take(s, n) == SubSeq(s, 1, n)
Drop(s, n) == SubSeq(s, n + 1, Len(s))

\* Fragment::encode.
EncodeFragment(f) ==
    ToLe(f.message, FIELD_LEN) \o ToLe(f.index, FIELD_LEN)
        \o ToLe(f.count, FIELD_LEN)

\* Fragment::decode: None for a descriptor that cannot be coherent.
DecodeFragment(s) ==
    LET f == [message |-> FromLe(Take(s, FIELD_LEN)),
              index |-> FromLe(SubSeq(s, FIELD_LEN + 1, 2 * FIELD_LEN)),
              count |-> FromLe(SubSeq(s, 2 * FIELD_LEN + 1, FRAGMENT_LEN))]
    IN  IF f.count = 0 \/ f.count > MAX_FRAGMENTS \/ f.index >= f.count
        THEN None ELSE f

------------------------------------------------------------------------------
(* Sealing.  A call is a record: the frame's type, its payload, the message *)
(* identifier and the fragment descriptor or None, the flags the caller     *)
(* sets, how it is padded ("none", "block", or "exact" and the length to    *)
(* fill), and the frame size the caller asked for, of a probe.             *)

RoundedUp(n) == ((n + PAD_BLOCK - 1) \div PAD_BLOCK) * PAD_BLOCK

Part(x, flag) == IF x = None THEN {} ELSE {flag}

Inner(c) ==
    (IF c.id = None THEN <<>> ELSE ToLe(c.id[1], MESSAGE_ID_LEN))
        \o (IF c.fragment = None THEN <<>> ELSE EncodeFragment(c.fragment))
        \o c.payload

PlaintextLen(c) ==
    CASE c.pad = "none" -> Len(Inner(c))
      [] c.pad = "block" -> RoundedUp(LEN_PREFIX + Len(Inner(c)))
      [] OTHER -> c.fill

Written(c, prefix) ==
    LET text == prefix \o Inner(c)
    IN  [type |-> c.type,
         flags |-> c.flags \union Part(c.id, "RELIABLE")
                     \union Part(c.fragment, "FRAGMENT")
                     \union IF c.pad = "none" THEN {} ELSE {"PADDED"},
         body |-> text \o [i \in 1..(PlaintextLen(c) - Len(text)) |-> 0]]

Body(c) ==
    Written(c, IF c.pad = "none" THEN <<>>
               ELSE ToLe(Len(Inner(c)), LEN_PREFIX))

\* seal_frame_padded: the frame, or why there is none.
SealFramePadded(c, room) ==
    LET padded == c.pad # "none"
        tooLarge == \/ padded /\ Len(Inner(c)) > Radix^LEN_PREFIX - 1
                    \/ c.pad = "exact" /\ c.fill < LEN_PREFIX + Len(Inner(c))
    IN  IF tooLarge THEN [frame |-> None, error |-> <<"PayloadTooLarge">>]
        ELSE IF room < PlaintextLen(c) + DATA_OVERHEAD
             THEN [frame |-> None, error |-> <<"BufferTooSmall">>]
             ELSE [frame |-> <<Body(c)>>, error |-> None]

FrameLen(f) == Len(f.body) + DATA_OVERHEAD

\* seal_frame: padding as the session is set.
SealFrame(type, payload, id, fragment, flags) ==
    [type |-> type, payload |-> payload, id |-> id, fragment |-> fragment,
     flags |-> flags, pad |-> IF padding THEN "block" ELSE "none", fill |-> 0,
     want |-> 0]

Seal(payload, flags) == SealFrame("Data", payload, None, None, flags)

SealReliable(payload, id, flags) ==
    SealFrame("Data", payload, <<id>>, None, flags)

SealFragment(payload, id, fragment, flags) ==
    SealFrame("Data", payload, <<id>>, fragment, flags)

SealAck(block) == SealFrame("Ack", block, None, None, {})

\* A path frame: a bare token.
Token(type, token, pad, fill) ==
    [type |-> type, payload |-> token, id |-> None, fragment |-> None,
     flags |-> {}, pad |-> pad, fill |-> fill, want |-> 0]

SealPathChallenge(token) == Token("PathChallenge", token, "none", 0)

SealPathProbe(token, frameLen) ==
    Token("PathChallenge", token, "exact", frameLen - DATA_OVERHEAD)

SealPathResponse(token) == Token("PathResponse", token, "none", 0)

------------------------------------------------------------------------------
(* Opening.  Rejected is open's BadHeader; a read outside the plaintext is  *)
(* the panic a slice index would be.                                        *)

Rejected == [type |-> "rejected"]
Panicked == [type |-> "panicked"]

\* The octets body[at..at + n] of a plaintext of that many.
Reads(body, at, n) == at + n <= Len(body)

\* Where the inner part starts and how long it is.
Padded(f) ==
    IF "PADDED" \notin f.flags
    THEN [ok |-> TRUE, at |-> 0, len |-> Len(f.body)]
    ELSE LET inner == FromLe(Take(f.body, LEN_PREFIX))
         IN  IF Len(f.body) < LEN_PREFIX \/ LEN_PREFIX + inner > Len(f.body)
             THEN [ok |-> FALSE, at |-> 0, len |-> 0]
             ELSE [ok |-> TRUE, at |-> LEN_PREFIX, len |-> inner]

\* Takes the part that flag announces off the front of what is left.
Peel(f, left, flag, width) ==
    IF flag \notin f.flags \/ ~left.ok THEN left
    ELSE [ok |-> left.len >= width, at |-> left.at + width,
          len |-> IF left.len >= width THEN left.len - width ELSE 0]

\* A challenge or a response is a bare token; only a challenge may be padded.
IsBareToken(f, len) ==
    /\ len = PATH_TOKEN_LEN
    /\ f.flags \subseteq IF f.type = "PathChallenge" THEN {"PADDED"} ELSE {}

\* Session::open, after the frame has authenticated.
Open(f) ==
    LET start == Padded(f)
        afterId == Peel(f, start, "RELIABLE", MESSAGE_ID_LEN)
        rest == Peel(f, afterId, "FRAGMENT", FRAGMENT_LEN)
        fragment == IF "FRAGMENT" \in f.flags
                    THEN DecodeFragment(SubSeq(f.body, afterId.at + 1, rest.at))
                    ELSE None
        isPath == f.type \in {"PathChallenge", "PathResponse"}
    IN  IF ~rest.ok THEN Rejected
        ELSE IF ~Reads(f.body, rest.at, rest.len) THEN Panicked
        ELSE IF "FRAGMENT" \in f.flags /\ fragment = None THEN Rejected
        ELSE IF isPath /\ ~IsBareToken(f, rest.len) THEN Rejected
        ELSE [type |-> f.type,
              compressed |-> "COMPRESSED" \in f.flags,
              id |-> IF "RELIABLE" \in f.flags
                     THEN <<FromLe(SubSeq(f.body, start.at + 1, afterId.at))>>
                     ELSE None,
              fragment |-> fragment,
              payload |-> SubSeq(f.body, rest.at + 1, rest.at + rest.len)]

------------------------------------------------------------------------------
(* What a frame has room for.                                              *)

Smaller(a, b) == IF a < b THEN a ELSE b
Less(a, b) == IF a < b THEN 0 ELSE a - b

SessionMaxPayload == Less(peerMax, DATA_OVERHEAD)

\* Peer::max_payload.
MaxPayload == Smaller(SessionMaxPayload, Less(limit, DATA_OVERHEAD))

\* Peer::payload_room, its three callers' arguments.
PayloadRoom(reliable, fragmented) ==
    Less(Less(MaxPayload, IF reliable THEN MESSAGE_ID_LEN ELSE 0),
         IF fragmented THEN FRAGMENT_LEN ELSE 0)

MaxReliablePayload == PayloadRoom(TRUE, FALSE)
MaxFragmentPayload == PayloadRoom(TRUE, TRUE)

\* A payload of n octets: none of them zero, and all of them.
Contents(n) ==
    {[i \in 1..n |-> 1 + (i % (Radix - 1))], [i \in 1..n |-> 0]}

\* What Peer::seal hands on: raw, or coded, but never more than the room.
Handed(room) == UNION {Contents(n) : n \in 0..room}

------------------------------------------------------------------------------
Init ==
    /\ padding = FALSE
    /\ peerMax \in PeerMaxima
    /\ limit \in Limits
    /\ asked = None /\ wire = None /\ failed = None /\ got = None

\* The call is made with tx as the buffer.
Call(c) ==
    LET sealed == SealFramePadded(c, Ceiling)
    IN  /\ wire = None /\ got = None /\ failed = None
        /\ asked' = c
        /\ wire' = sealed.frame
        /\ failed' = sealed.error
        /\ UNCHANGED <<padding, peerMax, limit, got>>

\* Connection::send.
Send ==
    \E payload \in Handed(MaxPayload), flags \in {{}, {"COMPRESSED"}} :
        Call(Seal(payload, flags))

\* Connection::send_reliable, when the message fits one frame.
SendReliable ==
    \E payload \in Handed(MaxReliablePayload), id \in Octet,
       flags \in {{}, {"COMPRESSED"}} :
        Call(SealReliable(payload, id, flags))

\* One fragment of a split message (drive_queue).
SendFragment ==
    \E payload \in Handed(MaxFragmentPayload), id \in Octet,
       flags \in {{}, {"COMPRESSED"}}, count \in 1..MAX_FRAGMENTS :
        \E index \in 0..(count - 1) :
            Call(SealFragment(payload, id,
                     [message |-> id, index |-> index, count |-> count], flags))

SendAck == \E block \in Contents(ACK_BLOCK_LEN) : Call(SealAck(block))

Challenge ==
    \E token \in Contents(PATH_TOKEN_LEN) : Call(SealPathChallenge(token))

\* A probe is never larger than the ceiling the search was given.
Probe ==
    \E token \in Contents(PATH_TOKEN_LEN), n \in MIN_PROBE_LEN..Ceiling :
        Call([SealPathProbe(token, n) EXCEPT !.want = n])

\* The other end opens the frame.
Receive ==
    /\ wire # None /\ got = None
    /\ got' = <<Open(wire[1])>>
    /\ UNCHANGED <<padding, peerMax, limit, asked, wire, failed>>

\* Peer::ingest answers a challenge, into a buffer of its own ceiling.
Answer ==
    /\ got # None /\ got[1].type = "PathChallenge"
    /\ LET c == SealPathResponse(got[1].payload)
            sealed == SealFramePadded(c, Ceiling)
       IN  asked' = c /\ wire' = sealed.frame /\ failed' = sealed.error
    /\ got' = None
    /\ UNCHANGED <<padding, peerMax, limit>>

\* Another implementation of the protocol seals a plaintext of its own.
Foreign ==
    /\ wire = None /\ got = None /\ failed = None
    /\ \E type \in {"Data", "Ack", "PathChallenge", "PathResponse"},
          flags \in SUBSET {"PADDED", "RELIABLE", "FRAGMENT", "COMPRESSED"},
          body \in Plaintexts :
            wire' = <<[type |-> type, flags |-> flags, body |-> body]>>
    /\ UNCHANGED <<padding, peerMax, limit, asked, failed, got>>

\* The application has been told; the next call.
Done ==
    /\ got # None \/ failed # None
    /\ asked' = None /\ wire' = None /\ got' = None /\ failed' = None
    /\ UNCHANGED <<padding, peerMax, limit>>

SetPadding ==
    /\ wire = None /\ got = None /\ failed = None
    /\ padding' \in Pads
    /\ UNCHANGED <<peerMax, limit, asked, wire, failed, got>>

\* Path MTU discovery confirms a size, or falls back.
LimitMoves ==
    /\ wire = None /\ got = None /\ failed = None
    /\ limit' \in Limits
    /\ UNCHANGED <<padding, peerMax, asked, wire, failed, got>>

Next ==
    \/ Send \/ SendReliable \/ SendFragment \/ SendAck \/ Challenge \/ Probe
    \/ Receive \/ Answer \/ Foreign \/ Done \/ SetPadding \/ LimitMoves

Spec == Init /\ [][Next]_vars

------------------------------------------------------------------------------
\* Every frame in flight is made of octets, and no call is both answered
\* with a frame and refused.
TypeOK ==
    /\ padding \in BOOLEAN /\ peerMax \in PeerMaxima /\ limit \in Limits
    /\ wire # None => wire[1].body \in Seq(Octet)
    /\ wire = None \/ failed = None
    /\ got # None => wire # None

\* Whatever the parts, the padding and the payload (all zeros included), what
\* open recovers from a frame is what was sealed into it: the type, the
\* identifier, the descriptor, the compression flag and every octet of the
\* payload, and nothing sealed here is rejected (session.rs, open).
OpensAsSealed ==
    got # None /\ asked # None =>
        got[1] = [type |-> asked.type,
                  compressed |-> "COMPRESSED" \in asked.flags,
                  id |-> asked.id, fragment |-> asked.fragment,
                  payload |-> asked.payload]

\* What the specification asks of a sender, padding or not: "A sender MUST NOT
\* emit a frame larger than the peer's advertised value" (docs/SPEC.md).
WithinPeerMax ==
    asked # None /\ asked.type = "Data" /\ wire # None =>
        FrameLen(wire[1]) <= peerMax
==============================================================================

-------------------------------- MODULE Wire --------------------------------
(***************************************************************************)
(* The byte formats two peers must agree on: the frame header (frame.rs),  *)
(* the capability block (session.rs), the acknowledgement (reliability.rs) *)
(* and the control messages between a client and a rendezvous              *)
(* (rendezvous.rs).                                                        *)
(*                                                                         *)
(* A message is a sequence of octets; every field keeps its place and its  *)
(* order, with widths scaled by the constants so that short messages still *)
(* have every shape: a key is as long as a tag and a certificate together, *)
(* as in the code, so JOIN, LEAVE and INTRODUCE stay easily confused.      *)
(***************************************************************************)
EXTENDS Naturals, Sequences, SequencesExt

CONSTANTS
    TagLen,             \* a group tag, a certificate and a token: 16
    V4Len, V6Len,       \* 4 and 16
    PortLen,            \* 2
    MAX_GROUP_MEMBERS,  \* 64
    Octet,              \* the octets a field is filled with
    Longest,            \* bound: messages of another version reach this length
    Scopes              \* IPv6 scope identifiers a socket reports

KeyLen == 2 * TagLen

\* What the constants must satisfy.
WireSizes ==
    /\ {TagLen, V4Len, V6Len, PortLen} \subseteq Nat \ {0}
    /\ MAX_GROUP_MEMBERS \in Nat /\ Longest \in Nat
    /\ {0, 4, 6} \subseteq Octet /\ Octet \subseteq 0..255
    /\ 0 \in Scopes

None == <<>>

VARIABLES
    sent,    \* the message sent, <<format, value>>, or None
    bytes,   \* <<format, octets>> on the session, or None
    got      \* <<what the receiver made of it>>, or None

vars == <<sent, bytes, got>>

Octets(n) == [1..n -> Octet]
Take(s, n) == SubSeq(s, 1, n)
Drop(s, n) == SubSeq(s, n + 1, Len(s))

------------------------------------------------------------------------------
(* Why a rendezvous would not introduce or relay.                          *)

Unavailable == {"NotRegistered", "Refused", "NoRelay", "NotAsked"}

\* Unavailable::to_byte, of the reasons a rendezvous gives.
ToByte(reason) ==
    CASE reason = "NotRegistered" -> 0
      [] reason = "Refused" -> 1
      [] reason = "NoRelay" -> 2
      [] reason = "NotAsked" -> 3

\* Unavailable::from_byte.
FromByte(b) ==
    CASE b = 0 -> <<"NotRegistered">>
      [] b = 1 -> <<"Refused">>
      [] b = 2 -> <<"NoRelay">>
      [] b = 3 -> <<"NotAsked">>
      [] OTHER -> <<"Other", b>>

------------------------------------------------------------------------------
(* Addresses: a family, that family's octets, a port.  A socket's IPv6      *)
(* address also has a scope, which the format has no field for.             *)

Addr ==
    [family : {4}, ip : Octets(V4Len), port : Octets(PortLen), scope : {0}]
        \union
    [family : {6}, ip : Octets(V6Len), port : Octets(PortLen), scope : Scopes]

PutAddr(a) == <<a.family>> \o a.ip \o a.port

IpLen(family) == IF family = 4 THEN V4Len ELSE V6Len

\* The address at the start of body and what follows it, or None.
TakeAddr(body) ==
    IF body = <<>> \/ Head(body) \notin {4, 6} THEN None
    ELSE LET n == IpLen(Head(body))
             rest == Tail(body)
         IN  IF Len(rest) < n + PortLen THEN None
             ELSE << [family |-> Head(body), ip |-> Take(rest, n),
                      port |-> SubSeq(rest, n + 1, n + PortLen), scope |-> 0],
                     Drop(rest, n + PortLen) >>

TakeKey(body) ==
    IF Len(body) < KeyLen THEN None
    ELSE <<Take(body, KeyLen), Drop(body, KeyLen)>>

------------------------------------------------------------------------------
(* Control::encode.                                                         *)

Entry(m) == m.key \o m.mac

Encode(c) ==
    CASE c[1] = "Register" -> <<1>>
      [] c[1] = "Introduce" -> <<2>> \o c[2]
      [] c[1] = "Relay" -> <<3>> \o c[2]
      [] c[1] = "Join" -> <<4>> \o c[2] \o c[3]
      [] c[1] = "Leave" -> <<5>> \o c[2]
      [] c[1] = "Observed" -> <<129>> \o PutAddr(c[2])
      [] c[1] = "Introduction" -> <<130>> \o c[2] \o PutAddr(c[3])
      [] c[1] = "Unavailable" -> <<131>> \o c[2] \o <<c[3]>>
      [] c[1] = "RelayOffer" -> <<132>> \o c[2] \o PutAddr(c[3]) \o c[4]
      [] c[1] = "Members" ->
            <<133>> \o c[2] \o FlattenSeq([i \in DOMAIN c[3] |-> Entry(c[3][i])])

(* Control::decode: <<control>>, or None for a kind this version does not   *)
(* know or a body of the wrong length.                                      *)

\* The message, when nothing is left over.
IfEmpty(rest, c) == IF rest = <<>> THEN <<c>> ELSE None

\* A kind whose body is a key alone.
OfKey(name, body) ==
    LET k == TakeKey(body)
    IN  IF k = None THEN None ELSE IfEmpty(k[2], <<name, k[1]>>)

OfObserved(body) ==
    LET a == TakeAddr(body)
    IN  IF a = None THEN None ELSE IfEmpty(a[2], <<"Observed", a[1]>>)

OfIntroduction(body) ==
    LET k == TakeKey(body)
        a == TakeAddr(k[2])
    IN  IF k = None THEN None
        ELSE IF a = None THEN None
        ELSE IfEmpty(a[2], <<"Introduction", k[1], a[1]>>)

OfUnavailable(body) ==
    LET k == TakeKey(body)
    IN  IF k = None THEN None
        ELSE IF Len(k[2]) # 1 THEN None
        ELSE << <<"Unavailable", k[1], k[2][1]>> >>

OfRelayOffer(body) ==
    LET k == TakeKey(body)
        a == TakeAddr(k[2])
    IN  IF k = None THEN None
        ELSE IF a = None THEN None
        ELSE IF Len(a[2]) # TagLen THEN None
        ELSE << <<"RelayOffer", k[1], a[1], a[2]>> >>

OfJoin(body) ==
    IF Len(body) # 2 * TagLen THEN None
    ELSE << <<"Join", Take(body, TagLen), Drop(body, TagLen)>> >>

OfLeave(body) ==
    IF Len(body) # TagLen THEN None ELSE << <<"Leave", body>> >>

EntryLen == KeyLen + TagLen

\* The i-th certified key of a member list.
EntryAt(list, i) ==
    LET m == SubSeq(list, (i - 1) * EntryLen + 1, i * EntryLen)
    IN  [key |-> Take(m, KeyLen), mac |-> Drop(m, KeyLen)]

OfMembers(body) ==
    LET list == Drop(body, TagLen)
        n == Len(list) \div EntryLen
    IN  IF Len(body) < TagLen THEN None
        ELSE IF Len(list) % EntryLen # 0 \/ n > MAX_GROUP_MEMBERS THEN None
        ELSE << <<"Members", Take(body, TagLen),
                  [i \in 1..n |-> EntryAt(list, i)]>> >>

Decode(message) ==
    LET kind == Head(message)
        body == Tail(message)
    IN  IF message = <<>> THEN None
        ELSE CASE kind = 1 -> IfEmpty(body, <<"Register">>)
               [] kind = 2 -> OfKey("Introduce", body)
               [] kind = 3 -> OfKey("Relay", body)
               [] kind = 4 -> OfJoin(body)
               [] kind = 5 -> OfLeave(body)
               [] kind = 129 -> OfObserved(body)
               [] kind = 130 -> OfIntroduction(body)
               [] kind = 131 -> OfUnavailable(body)
               [] kind = 132 -> OfRelayOffer(body)
               [] kind = 133 -> OfMembers(body)
               [] OTHER -> None

------------------------------------------------------------------------------
(* The frame header: version and type share an octet, then flags, session   *)
(* identifier and sequence number (two fields of TagLen octets here).       *)

VERSION == 1

FrameType ==
    <<"HandshakeInit", "HandshakeResponse", "Data", "Close", "Ack",
      "ResumeInit", "ResumeResponse", "PathChallenge", "PathResponse">>

\* FrameType::to_bits and from_bits.
ToBits(type) == CHOOSE n \in DOMAIN FrameType : FrameType[n] = type

KNOWN_FLAGS == 15

EncodeHeader(h) ==
    <<VERSION * 16 + ToBits(h.type), h.flags>> \o h.id \o h.sequence

HeaderLen == 2 + 2 * TagLen

DecodeHeader(s) ==
    IF Len(s) < HeaderLen THEN None
    ELSE IF s[1] \div 16 # VERSION \/ s[1] % 16 \notin DOMAIN FrameType
            \/ s[2] > KNOWN_FLAGS
         THEN None
         ELSE <<[type |-> FrameType[s[1] % 16], flags |-> s[2],
                 id |-> SubSeq(s, 3, 2 + TagLen),
                 sequence |-> SubSeq(s, 3 + TagLen, HeaderLen)]>>

(* The capability block: flags, a reserved octet, two fields, and reserved  *)
(* octets at the end.                                                       *)

CapsLen == 2 + 3 * TagLen
Zeros(n) == [i \in 1..n |-> 0]

EncodeCaps(c) == <<c.flags, 0>> \o c.maxFrame \o c.codecs \o Zeros(TagLen)

DecodeCaps(s) ==
    IF Len(s) < CapsLen THEN None
    ELSE <<[flags |-> s[1], maxFrame |-> SubSeq(s, 3, 2 + TagLen),
            codecs |-> SubSeq(s, 3 + TagLen, 2 + 2 * TagLen)]>>

(* The acknowledgement block.                                               *)

EncodeAck(a) == a.highest \o a.bitmap

DecodeAck(s) ==
    IF Len(s) < 3 * TagLen THEN None
    ELSE <<[highest |-> Take(s, TagLen),
            bitmap |-> SubSeq(s, TagLen + 1, 3 * TagLen)]>>

------------------------------------------------------------------------------
(* What is sent.                                                            *)

Tags == Octets(TagLen)
Keys == Octets(KeyLen)
MemberLists == UNION {[1..n -> [key : Keys, mac : Tags]] :
                         n \in 0..MAX_GROUP_MEMBERS}

Send(format, value, octets) ==
    /\ bytes = None
    /\ sent' = <<format, value>>
    /\ bytes' = <<format, octets>>
    /\ UNCHANGED got

SendControl(c) == Send("control", c, Encode(c))

\* A client asks its rendezvous.
ClientAsks ==
    \/ SendControl(<<"Register">>)
    \/ \E k \in Keys : SendControl(<<"Introduce", k>>)
    \/ \E k \in Keys : SendControl(<<"Relay", k>>)
    \/ \E t \in Tags, m \in Tags : SendControl(<<"Join", t, m>>)
    \/ \E t \in Tags : SendControl(<<"Leave", t>>)

\* A rendezvous tells its client.
RendezvousTells ==
    \/ \E a \in Addr : SendControl(<<"Observed", a>>)
    \/ \E k \in Keys, a \in Addr : SendControl(<<"Introduction", k, a>>)
    \/ \E k \in Keys, r \in Unavailable :
            SendControl(<<"Unavailable", k, ToByte(r)>>)
    \/ \E k \in Keys, a \in Addr, t \in Tags :
            SendControl(<<"RelayOffer", k, a, t>>)
    \/ \E t \in Tags, l \in MemberLists : SendControl(<<"Members", t, l>>)

SendHeader ==
    \E type \in {FrameType[n] : n \in DOMAIN FrameType},
       flags \in 0..KNOWN_FLAGS, id \in Tags, seq \in Tags :
        LET h == [type |-> type, flags |-> flags, id |-> id, sequence |-> seq]
        IN  Send("header", h, EncodeHeader(h))

SendCaps ==
    \E c \in [flags : Octet, maxFrame : Tags, codecs : Tags] :
        Send("caps", c, EncodeCaps(c))

SendAck ==
    \E a \in [highest : Tags, bitmap : Octets(2 * TagLen)] :
        Send("ack", a, EncodeAck(a))

\* An implementation of another version sends something of its own: a control
\* message of any kind and length, a header or a block with bits this version
\* has not defined.
AnotherVersion ==
    /\ bytes = None
    /\ \/ \E kind \in {1, 2, 3, 4, 5, 6, 129, 130, 131, 132, 133},
             n \in 0..Longest :
              \E body \in Octets(n) : bytes' = <<"control", <<kind>> \o body>>
       \/ \E first \in {16, 17, 25, 26, 33}, flags \in {0, 1, 16, 17},
             n \in {HeaderLen - 3, HeaderLen - 2} :
              \E rest \in Octets(n) :
                  bytes' = <<"header", <<first, flags>> \o rest>>
       \/ \E n \in {CapsLen - 1, CapsLen} :
              \E block \in Octets(n) : bytes' = <<"caps", block>>
    /\ UNCHANGED <<sent, got>>

\* The client's handler turns the reason's octet into an Unavailable.
ReadReason(c) ==
    IF c[1] = "Unavailable" THEN <<c[1], c[2], FromByte(c[3])>> ELSE c

Parsed(format, s) ==
    CASE format = "control" -> Decode(s)
      [] format = "header" -> DecodeHeader(s)
      [] format = "caps" -> DecodeCaps(s)
      [] format = "ack" -> DecodeAck(s)

Receive ==
    /\ bytes # None /\ got = None
    /\ got' = <<Parsed(bytes[1], bytes[2])>>
    /\ UNCHANGED <<sent, bytes>>

Read ==
    /\ got # None
    /\ sent' = None /\ bytes' = None /\ got' = None

Next ==
    \/ ClientAsks \/ RendezvousTells \/ SendHeader \/ SendCaps \/ SendAck
    \/ AnotherVersion \/ Receive \/ Read

Init == sent = None /\ bytes = None /\ got = None

Spec == Init /\ [][Next]_vars

------------------------------------------------------------------------------
\* What is on the session is octets, and is read at most once.
TypeOK ==
    /\ bytes # None => \A i \in DOMAIN bytes[2] : bytes[2][i] \in 0..255
    /\ sent # None => bytes # None
    /\ got # None => bytes # None

\* A message as the format can carry it: an address without its scope.
Unscoped(c) ==
    CASE c[1] = "Observed" -> [c EXCEPT ![2].scope = 0]
      [] c[1] \in {"Introduction", "RelayOffer"} -> [c EXCEPT ![3].scope = 0]
      [] OTHER -> c

\* Whatever is sent in these formats arrives as it was sent, but for the scope
\* of an IPv6 address: no message is taken for another kind, no field for its
\* neighbour, and none is refused (rendezvous.rs, Control; frame.rs, Header;
\* session.rs, Capabilities; reliability.rs, Ack).
ArrivesAsSent ==
    got # None /\ sent # None =>
        got[1] = <<IF sent[1] = "control" THEN Unscoped(sent[2])
                   ELSE sent[2]>>

\* A control message or a header that is accepted has only one spelling, the
\* one this version writes: a body with anything left over, a partial entry or
\* an undefined flag is ignored, so that later versions can give it a meaning
\* (Control::decode, Header::decode).
OneForm ==
    got # None /\ got[1] # None =>
        /\ bytes[1] = "control" => Encode(got[1][1]) = bytes[2]
        /\ bytes[1] = "header" =>
              EncodeHeader(got[1][1]) = Take(bytes[2], HeaderLen)

\* The reason a rendezvous gives is the reason its client is told.
ReasonArrives ==
    got # None /\ sent # None /\ sent[1] = "control"
        /\ sent[2][1] = "Unavailable" =>
            \E r \in Unavailable :
                /\ ToByte(r) = sent[2][3]
                /\ ReadReason(got[1][1])[3] = <<r>>
=============================================================================

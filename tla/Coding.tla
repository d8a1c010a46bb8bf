------------------------------- MODULE Coding --------------------------------
(***************************************************************************)
(* How a payload is coded for one frame and decoded at the other end:      *)
(* CodingDecision and Peer::seal of crates/fectp/src/pipeline.rs,          *)
(* encode_payload and decode_payload of crates/fectp/src/compress.rs, and  *)
(* the transforms of crates/fectp-core/src/codec.  A payload is a sequence *)
(* of bytes; samples have Narrow (i16) or Wide (i32) of them, and a Wide   *)
(* sample fills a word.  Zstandard is external: it shortens what it is     *)
(* given to some length, or not, and gives it back.                        *)
(***************************************************************************)
EXTENDS Varint, SequencesExt

CONSTANTS
    Narrow, Wide,   \* bytes of a sample: 2 and 4
    Nibble,         \* values of half a byte: 16
    HeaderLen,      \* CODEC_HEADER_LEN (4)
    MinTransform,   \* MIN_TRANSFORM_SIZE (32)
    MinCompress,    \* MIN_COMPRESS_SIZE (1024)
    MissLimit,      \* CODING_MISS_LIMIT (4)
    ProbeInterval,  \* CODING_PROBE_INTERVAL (32)
    Room,           \* payload_room: bytes of payload that fit in a frame
    Payloads,       \* payloads the application sends
    Types,          \* payload types it declares: records [transform, param]
    Peers,          \* sets of codecs a peer may advertise
    MaxSends        \* bound: payloads sent

\* What the constants must satisfy.
CodingAssumption ==
    /\ Nibble * Nibble = ByteValues /\ ByteValues ^ Wide = Word
    /\ \A p \in Payloads : p \in Seq(0 .. ByteValues - 1)
    /\ \A c \in Peers : c \subseteq {"zstd", "i16", "i32", "transpose"}
    /\ [transform |-> "none", param |-> 0] \in Types

Opaque == [transform |-> "none", param |-> 0]
Nothing == [coded |-> FALSE, header |-> <<>>, body |-> <<>>, len |-> 0]

VARIABLES
    caps,       \* the codecs the peer advertised in the handshake
    decision,   \* CodingDecision: [misses, skips, shape]
    sent,       \* the payload last sent, and whether seal took it
    frame,      \* what went on the wire
    got,        \* what the peer decoded of it
    idle,       \* history: sends in a row without an attempt
    sends       \* history: payloads sent

vars == <<caps, decision, sent, frame, got, idle, sends>>

-----------------------------------------------------------------------------
\* The transforms.

\* read_sample and write_sample: little-endian, sign-extended.
ReadSample(s, at, width) ==
    LET sum[n \in 0 .. width] ==
            IF n = 0 THEN 0 ELSE sum[n - 1] + s[at + n - 1] * ByteValues^(n - 1)
        m == ByteValues^width
    IN IF 2 * sum[width] >= m THEN sum[width] - m ELSE sum[width]
SampleByte(v, n) == (v \div ByteValues^(n - 1)) % ByteValues

\* frame_layout: whether len is a whole number of frames.
Fits(len, channels, width) == channels > 0 /\ len % (channels * width) = 0

\* Where channel c of frame f starts, counting both from zero.
Offset(f, c, channels, width) == (f * channels + c) * width + 1

\* The sample before, in the same channel.
Previous(s, f, c, channels, width) ==
    IF f = 0 THEN 0 ELSE ReadSample(s, Offset(f - 1, c, channels, width), width)

\* numeric::encode: channel by channel, the varints of the wrapped differences.
DeltaEncode(s, channels, width) ==
    LET frames == Len(s) \div (channels * width)
        nth(i) ==
            LET c == i \div frames
                f == i % frames
                v == ReadSample(s, Offset(f, c, channels, width), width)
            IN encode[Zigzag(Wrap(v - Previous(s, f, c, channels, width)))]
    IN FlattenSeq([i \in 1 .. frames * channels |-> nth(i - 1)])

\* numeric::decode.  Step i reads a varint where step i - 1 stopped, and keeps
\* the samples so far.  Refused: a bad varint, or bytes left over.
DeltaDecode(s, channels, width, len) ==
    LET frames == len \div (channels * width)
        step[i \in 0 .. frames * channels] ==
            IF i = 0 THEN [ok |-> TRUE, read |-> 0, values |-> <<>>]
            ELSE LET before == step[i - 1]
                     v == decode(SubSeq(s, before.read + 1, Len(s)))
                     first == (i - 1) % frames = 0
                     previous == IF first THEN 0 ELSE before.values[i - 1]
                 IN IF ~before.ok \/ ~v.ok THEN [before EXCEPT !.ok = FALSE]
                    ELSE [ok |-> TRUE, read |-> before.read + v.used,
                          values |-> Append(before.values, Wrap(previous + Unzigzag(v.value)))]
        end == step[frames * channels]
        sampleAt(p) == LET n == (p - 1) \div width
                       IN end.values[(n % channels) * frames + (n \div channels) + 1]
    IN IF ~end.ok \/ end.read # Len(s) THEN Bad
       ELSE [ok |-> TRUE, used |-> len,
             value |-> [p \in 1 .. len |-> SampleByte(sampleAt(p), ((p - 1) % width) + 1)]]

\* transpose::encode: byte 0 of every element, then byte 1, and so on; what is
\* left over at the end stays.
Transpose(s, size) ==
    LET elements == Len(s) \div size
        body == elements * size
    IN [p \in 1 .. Len(s) |->
            IF p > body THEN s[p]
            ELSE s[((p - 1) % elements) * size + ((p - 1) \div elements) + 1]]

\* Mutant: as encode does, which undoes nothing.
UntransposeAgain(s, size) == Transpose(s, size)

\* transpose::decode.
Untranspose(s, size) ==
    LET elements == Len(s) \div size
        body == elements * size
    IN [p \in 1 .. Len(s) |->
            IF p > body THEN s[p]
            ELSE s[((p - 1) % size) * elements + ((p - 1) \div size) + 1]]

WidthOf(transform) == IF transform = "i16" THEN Narrow ELSE Wide

\* Transform::apply.
Apply(t, s) ==
    CASE t.transform = "none" -> [ok |-> TRUE, value |-> s]
      [] t.transform \in {"i16", "i32"} ->
            IF Fits(Len(s), t.param, WidthOf(t.transform))
            THEN [ok |-> TRUE, value |-> DeltaEncode(s, t.param, WidthOf(t.transform))] ELSE Bad
      [] t.transform = "transpose" ->
            IF t.param = 0 THEN Bad ELSE [ok |-> TRUE, value |-> Transpose(s, t.param)]

\* Transform::reverse.
Unapply(t, s, len) ==
    CASE t.transform = "none" -> [ok |-> Len(s) = len, value |-> s]
      [] t.transform \in {"i16", "i32"} ->
            IF Fits(len, t.param, WidthOf(t.transform))
            THEN DeltaDecode(s, t.param, WidthOf(t.transform), len) ELSE Bad
      [] t.transform = "transpose" ->
            IF Len(s) # len \/ t.param = 0 THEN Bad
            ELSE [ok |-> TRUE, value |-> Untranspose(s, t.param)]

-----------------------------------------------------------------------------
\* The codec header.

TransformBits == <<"none", "i16", "i32", "transpose">>
EntropyBits == <<"none", "zstd">>
Bits(names, x) == (CHOOSE i \in DOMAIN names : names[i] = x) - 1

\* CodecHeader::encode: two half bytes, the parameter, the length low byte first.
HeaderEncode(t, entropy, len) ==
    <<Bits(TransformBits, t.transform) + Nibble * Bits(EntropyBits, entropy),
      t.param, len % ByteValues, len \div ByteValues>>

\* CodecHeader::decode.
HeaderDecode(h) ==
    LET t == h[1] % Nibble
        e == h[1] \div Nibble
    IN [ok |-> t < Len(TransformBits) /\ e < Len(EntropyBits),
        t |-> [transform |-> TransformBits[t + 1], param |-> h[2]],
        entropy |-> EntropyBits[e + 1],
        len |-> h[3] + ByteValues * h[4]]

-----------------------------------------------------------------------------
\* The policy.

\* encode_payload: whether the transform is used.
Usable(t, len) ==
    /\ t.transform # "none" /\ len >= MinTransform
    /\ t.transform \in caps
    /\ t.transform = "transpose" => "zstd" \in caps

\* looks_precompressed: the payload begins with one of the magic numbers, here
\* with a byte of ones.
LooksPrecompressed(s) == Len(s) > 0 /\ s[1] = ByteValues - 1

\* Coding pays if the frame is smaller for it, header included.
Pays(len, original) == HeaderLen + len < original

\* encode_payload: the outcomes, over what Zstandard may make of the bytes.
EncodePayload(s, t) ==
    LET zstd == "zstd" \in caps
        used == IF Usable(t, Len(s)) THEN t ELSE Opaque
        applied == Apply(used, s)
        skip == \/ Len(s) >= ByteValues^2
                \/ /\ ~Usable(t, Len(s))
                   /\ ~zstd \/ Len(s) < MinCompress \/ LooksPrecompressed(s)
                \/ ~applied.ok
        as(entropy, len) ==
            IF ~Pays(len, Len(s)) THEN Nothing
            ELSE [coded |-> TRUE, header |-> HeaderEncode(used, entropy, Len(s)),
                  body |-> applied.value, len |-> len]
    IN IF skip THEN {Nothing}
       ELSE {as("none", Len(applied.value))} \cup
            (IF zstd THEN {as("zstd", n) : n \in {1, Len(applied.value) - 1} \cap Nat} ELSE {})

\* decode_payload, on a build that has Zstandard if it said so.
DecodePayload(f) ==
    LET h == HeaderDecode(f.header) IN
    IF ~h.ok \/ (h.entropy = "zstd" /\ "zstd" \notin caps)
             \/ (h.t.transform # "none" /\ h.t.transform \notin caps) THEN Bad
    ELSE Unapply(h.t, f.body, h.len)

\* CodingDecision::should_code: the answer and the counters after it.
ShouldCode(t) ==
    IF t # decision.shape THEN [yes |-> TRUE, after |-> [misses |-> 0, skips |-> 0, shape |-> t]]
    ELSE IF decision.skips > 0 THEN [yes |-> FALSE, after |-> [decision EXCEPT !.skips = @ - 1]]
    ELSE [yes |-> TRUE, after |-> decision]

\* CodingDecision::record.
Record(d, paid) ==
    IF paid THEN [d EXCEPT !.misses = 0, !.skips = 0]
    ELSE IF d.misses + 1 >= MissLimit THEN [d EXCEPT !.misses = 0, !.skips = ProbeInterval]
    ELSE [d EXCEPT !.misses = @ + 1]

-----------------------------------------------------------------------------
Init ==
    /\ caps \in Peers
    /\ decision = [misses |-> 0, skips |-> 0, shape |-> Opaque]
    /\ sent = [data |-> <<>>, ok |-> TRUE]
    /\ frame = Nothing
    /\ got = [ok |-> TRUE, value |-> <<>>]
    /\ idle = 0 /\ sends = 0

\* A payload that is not coded.
AsIs(s) == [Nothing EXCEPT !.body = s, !.len = Len(s)]

\* deliver, at the peer.
Deliver(f) ==
    LET d == DecodePayload(f) IN
    IF ~f.coded THEN [ok |-> TRUE, value |-> f.body]
    ELSE IF d.ok THEN [ok |-> TRUE, value |-> d.value]
    ELSE [ok |-> FALSE, value |-> <<>>]

\* Peer::seal: the coded form if it fits, the payload itself if that does.
Takes(f, s) == IF f.coded THEN f.len + HeaderLen <= Room ELSE Len(s) <= Room

\* Peer::seal, and deliver at the peer: coding is attempted if it has been
\* worth it, and always for a payload too large to go as it is.
Seal(s, t) ==
    LET mustTry == Len(s) > Room
        should == ShouldCode(t)
        attempt == should.yes \/ mustTry
    IN
    /\ sends < MaxSends /\ sends' = sends + 1
    /\ \E f \in IF attempt THEN EncodePayload(s, t) ELSE {Nothing} :
       LET out == IF f.coded /\ HeaderLen + f.len <= Room THEN f ELSE AsIs(s)
           ok == Takes(out, s)
       IN
       /\ decision' = IF attempt /\ ~mustTry THEN Record(should.after, f.coded) ELSE should.after
       /\ sent' = [data |-> s, ok |-> ok]
       /\ frame' = IF ok THEN out ELSE Nothing
       /\ got' = IF ok THEN Deliver(out) ELSE [ok |-> FALSE, value |-> <<>>]
       /\ idle' = IF attempt THEN 0 ELSE idle + 1
    /\ UNCHANGED caps

Next == \E s \in Payloads, t \in Types : Seal(s, t)

Spec == Init /\ [][Next]_vars

-----------------------------------------------------------------------------
\* The stream state of the policy (misses and the countdown to the next try)
\* keeps its range.
TypeOK ==
    /\ decision.misses \in 0 .. MissLimit - 1 /\ decision.skips \in 0 .. ProbeInterval
    /\ decision.shape \in Types
    /\ got.value \in Seq(0 .. ByteValues - 1)

\* The invariant of codec/mod.rs: every codec is lossless.  Whatever type was
\* declared, rightly or not, what a frame carries is decoded to what was sent,
\* by every peer it is sent to.
Lossless == sent.ok => got = [ok |-> TRUE, value |-> sent.data]

\* A stream given up on is tried again: no more than ProbeInterval sends of it
\* in a row go without an attempt.
TriedAgain == idle <= ProbeInterval
=============================================================================

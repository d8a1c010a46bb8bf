--------------------------- MODULE MCCalculations ---------------------------
(* What the code computes without waiting for anyone: varints, the coding of *)
(* payloads, the inside of frames, the byte formats, the timeout estimate    *)
(* and the congestion window, on small widths.  A behaviour exercises one of *)
(* them; the others stand still.                                             *)
EXTENDS Estimator, Varint

VARIABLES
    part,                                           \* the one exercised
    input, read,                                    \* varints
    caps, decision, sent, frame, got, idle, sends,  \* Coding
    padding, peerMax, limit, asked, wire, failed, opened,   \* Framing
    message, bytes, parsed,                         \* Wire
    cwnd, ssthresh, round                           \* Congestion

varints == <<input, read>>
coder == <<caps, decision, sent, frame, got, idle, sends>>
framer == <<padding, peerMax, limit, asked, wire, failed, opened>>
formats == <<message, bytes, parsed>>
window == <<cwnd, ssthresh, round>>
everything == <<part, varints, coder, framer, formats, estimate, window>>

EveryRoundTrip == 0..Widest

-----------------------------------------------------------------------------
\* Coding, of bytes of sixteen values and words of two.

\* A pattern of bytes over and over, to a length.
Repeated(p, n) == [i \in 1 .. n |-> p[((i - 1) % Len(p)) + 1]]
Patterns == UNION {[1 .. n -> {0, 1, 8, 15}] : n \in 1 .. 3}
ManyPayloads == {Repeated(p, n) : p \in Patterns, n \in {0, 1, 5, 7, 12, 13}}
Untyped == [transform |-> "none", param |-> 0]
ManyTypes == {Untyped} \cup
    {[transform |-> x, param |-> n] : x \in {"i16", "i32", "transpose"}, n \in {0, 1, 2, 3}}
Advertised == {{}, {"zstd"}, {"i16", "i32", "transpose"}, {"zstd", "i16", "i32", "transpose"}}

\* One payload of every kind, and a stream of a few.
Once == INSTANCE Coding WITH
    Narrow <- 1, Wide <- 2, Nibble <- 4,
    HeaderLen <- 4, MinTransform <- 5, MinCompress <- 7, MissLimit <- 4,
    ProbeInterval <- 8, Room <- 12, Peers <- Advertised,
    Payloads <- ManyPayloads, Types <- ManyTypes, MaxSends <- 1
Stream == INSTANCE Coding WITH
    Narrow <- 1, Wide <- 2, Nibble <- 4,
    HeaderLen <- 4, MinTransform <- 5, MinCompress <- 7, MissLimit <- 4,
    ProbeInterval <- 8, Room <- 12, Peers <- Advertised,
    Payloads <- {Repeated(p, n) : p \in {<<0>>, <<15, 1>>}, n \in {1, 12}},
    Types <- {Untyped, [transform |-> "i32", param |-> 1]}, MaxSends <- 30

\* Framing, of octets of four values, with a two-octet length prefix, one-octet
\* identifiers and fields and blocks of four: every plaintext up to five octets,
\* short enough to end in the middle of a part, on one path; and several paths
\* and peers, for what there is room for.
Frames == INSTANCE Framing WITH
    Radix <- 4, HEADER_LEN <- 2, TAGLEN <- 1, LEN_PREFIX <- 2, MESSAGE_ID_LEN <- 1,
    FIELD_LEN <- 1, ACK_BLOCK_LEN <- 3, PATH_TOKEN_LEN <- 2, PAD_BLOCK <- 4,
    MAX_FRAGMENTS <- 2, Ceiling <- 15, Limits <- {15}, PeerMaxima <- {13},
    Pads <- BOOLEAN, Plaintexts <- UNION {[1..n -> {0, 1, 3}] : n \in 0..5},
    got <- opened
Paths == INSTANCE Framing WITH
    Radix <- 4, HEADER_LEN <- 2, TAGLEN <- 1, LEN_PREFIX <- 2, MESSAGE_ID_LEN <- 1,
    FIELD_LEN <- 1, ACK_BLOCK_LEN <- 3, PATH_TOKEN_LEN <- 2, PAD_BLOCK <- 4,
    MAX_FRAGMENTS <- 2, Ceiling <- 15, Limits <- {11, 15}, PeerMaxima <- {10, 13, 20},
    Pads <- {FALSE}, Plaintexts <- {<<>>}, got <- opened

\* Wire, with one-octet tags, ports and IPv4 addresses, two-octet keys and IPv6
\* addresses, and groups of at most one member: every message has all its fields
\* and is short enough to enumerate its neighbours.
Formats == INSTANCE Wire WITH
    TagLen <- 1, V4Len <- 1, V6Len <- 2, PortLen <- 1, MAX_GROUP_MEMBERS <- 1,
    Octet <- {0, 4, 6}, Longest <- 7, Scopes <- {0, 1}, sent <- message, got <- parsed

\* Congestion, with fewer slots and a quarter of the code's fixed point.
Slots == INSTANCE Congestion WITH MaxInFlight <- 12, InitialCwnd <- 4, MinCwnd <- 2, Scale <- 64

ASSUME ConstantsFit ==
    /\ Once!CodingAssumption /\ Stream!CodingAssumption
    /\ Frames!FramingSizes /\ Paths!FramingSizes /\ Formats!WireSizes /\ Slots!CongestionAssumption

-----------------------------------------------------------------------------
\* Strings a varint decoder can be given, up to a byte too long, of the bytes at
\* the edges: nothing and all ones with and without the continuation bit, and
\* what the third byte of a word may be at most, and one more.
Inputs == UNION {[1 .. n -> {0, 1, 3, 4, 7, 8, 9, 15}] : n \in 0 .. MaxLen + 1}

Decodes ==
    /\ read = Bad
    /\ read' = decode(input) /\ UNCHANGED input

\* A part that is not exercised starts, and stays, where it may start.
AllInit ==
    /\ part \in {"varint", "once", "stream", "frames", "paths", "formats", "estimate", "window"}
    /\ read = Bad
    /\ IF part = "varint" THEN input \in Inputs ELSE input = <<>>
    /\ Once!Init /\ (caps = {} \/ part \in {"once", "stream"})
    /\ Paths!Init /\ (<<peerMax, limit>> = <<13, 15>> \/ part = "paths")
    /\ Formats!Init /\ EstimatorInit /\ Slots!Init

AllNext ==
    /\ \/ part = "varint" /\ Decodes
          /\ UNCHANGED <<coder, framer, formats, estimate, window>>
       \/ part = "once" /\ Once!Next
          /\ UNCHANGED <<varints, framer, formats, estimate, window>>
       \/ part = "stream" /\ Stream!Next
          /\ UNCHANGED <<varints, framer, formats, estimate, window>>
       \/ part = "frames" /\ Frames!Next
          /\ UNCHANGED <<varints, coder, formats, estimate, window>>
       \/ part = "paths" /\ Paths!Next
          /\ UNCHANGED <<varints, coder, formats, estimate, window>>
       \/ part = "formats" /\ Formats!Next
          /\ UNCHANGED <<varints, coder, framer, estimate, window>>
       \/ part = "estimate" /\ EstimatorNext
          /\ UNCHANGED <<varints, coder, framer, formats, window>>
       \/ part = "window" /\ Slots!Next
          /\ UNCHANGED <<varints, coder, framer, formats, estimate>>
    /\ UNCHANGED part

AllSpec == AllInit /\ [][AllNext]_everything

-----------------------------------------------------------------------------
\* The doc of varint::decode: every value has exactly one spelling.  What is
\* accepted is what the encoder writes for the value, and every word it writes
\* is accepted, whatever follows it.
OneSpelling ==
    part = "varint" =>
        /\ read.ok => /\ read.value \in Unsigned
                      /\ SubSeq(input, 1, read.used) = encode[read.value]
        /\ \A v \in Unsigned : Len(encode[v]) <= MaxLen
        /\ (\E v \in Unsigned : encode[v] = input) => decode(input).ok

\* What is encoded is decoded to itself, and nothing else is accepted for it:
\* varints; payloads, whatever type was declared (codec/mod.rs, Lossless of
\* Coding); what is sealed into a frame (session.rs, OpensAsSealed of Framing);
\* and the byte formats (rendezvous.rs, frame.rs, session.rs, reliability.rs,
\* ArrivesAsSent, ReasonArrives and OneForm of Wire).
DecodedAsEncoded ==
    /\ OneSpelling
    /\ Once!Lossless
    /\ Frames!OpensAsSealed
    /\ Formats!ArrivesAsSent /\ Formats!ReasonArrives /\ Formats!OneForm

\* What the specification says of every frame: it is no larger than the peer's
\* advertised maximum (SPEC.md, max_frame_size): WithinPeerMax of Framing.
WithinPeerMax == Frames!WithinPeerMax

\* What adapts neither runs ahead nor stops for good: the window at most doubles
\* in a round, and grows by one above the threshold, and two rounds running never
\* end without its having grown (reliability.rs, on_delivery; NeverFaster and KeepsGrowing of
\* Congestion); and a stream that coding was given up on is tried again within
\* CODING_PROBE_INTERVAL sends (pipeline.rs, CodingDecision; TriedAgain of
\* Coding).
Adapts == Slots!NeverFaster /\ Slots!KeepsGrowing /\ Stream!TriedAgain

=============================================================================

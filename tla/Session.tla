------------------------------- MODULE Session -------------------------------
(***************************************************************************)
(* One direction of an established session of                              *)
(* crates/fectp-core/src/session.rs: the sender seals frames under a chain *)
(* of keys that moves on every RekeyInterval sequence numbers, the         *)
(* receiver opens them under the key their sequence number names, behind a *)
(* replay window.  The path loses, repeats and reorders frames without     *)
(* limit, and may damage one.                                              *)
(*                                                                         *)
(* A key is represented by its place in the chain (the number of times     *)
(* rekeyed() was applied to the first), a frame by its sequence number and *)
(* the key it was sealed under; it authenticates under that key alone.  A  *)
(* damaged frame authenticates under none.  The payload and the prefixes   *)
(* around it are left out: both ends run this code, so the prefixes of a   *)
(* frame that authenticates are always well formed.                        *)
(***************************************************************************)
EXTENDS Integers

CONSTANTS
    ReplaySize,    \* REPLAY_WINDOW (64)
    RekeyInterval, \* REKEY_INTERVAL (2^16)
    MaxLookahead,  \* MAX_REKEY_LOOKAHEAD (4)
    MaxSeq,        \* u64::MAX, the sequence number that is never used
    NoKey          \* Option::None, and the key of a damaged frame

\* The code asserts at compile time that the replay window is narrower than a
\* key's lifetime.
ASSUME SessionAssumption ==
    /\ ReplaySize \in Nat /\ RekeyInterval \in Nat
    /\ MaxLookahead \in Nat /\ MaxSeq \in Nat
    /\ 0 < ReplaySize /\ ReplaySize < RekeyInterval
    /\ 0 < MaxLookahead
    /\ NoKey \notin Nat

SeqNo == 0 .. MaxSeq - 1

VARIABLES
    sendSeq,    \* Session::send_seq
    sendKey,    \* Session::send
    sendGen,    \* Session::send_generation
    wire,       \* every frame sealed so far; any may arrive at any time, again
    recvKey,    \* Session::recv
    recvPrev,   \* Session::recv_prev
    recvGen,    \* Session::recv_generation
    replay,     \* Session::replay: [started, highest, bitmap]
    opened      \* history: how often each sequence number was opened

sender == <<sendSeq, sendKey, sendGen, wire>>
receiver == <<recvKey, recvPrev, recvGen, replay, opened>>
vars == <<sender, receiver>>

Frame == [seq : SeqNo, key : Nat \cup {NoKey}]
\* The bits of the window's bitmap: bit i stands for highest - i.
Bitmap == SUBSET (0 .. ReplaySize - 1)

GenerationOf(seq) == seq \div RekeyInterval

-----------------------------------------------------------------------------
(* ReplayWindow.                                                           *)

\* ReplayWindow::check
Check(w, seq) ==
    \/ ~w.started
    \/ seq > w.highest
    \/ w.highest - seq < ReplaySize /\ w.highest - seq \notin w.bitmap

\* Mutant: the bit of the old highest is lost when the window slides.
CommitForgetting(w, seq) ==
    IF ~w.started \/ seq > w.highest
    THEN [started |-> TRUE, highest |-> seq, bitmap |-> {0}]
    ELSE [w EXCEPT !.bitmap = @ \cup {w.highest - seq}]

\* ReplayWindow::commit
Commit(w, seq) ==
    IF ~w.started
    THEN [started |-> TRUE, highest |-> seq, bitmap |-> {0}]
    ELSE IF seq > w.highest
    THEN [w EXCEPT !.highest = seq,
                   !.bitmap = {0} \cup {i \in 0 .. ReplaySize - 1 :
                                          i - (seq - w.highest) \in w.bitmap}]
    ELSE IF w.highest - seq < ReplaySize
    THEN [w EXCEPT !.bitmap = @ \cup {w.highest - seq}]
    ELSE w

-----------------------------------------------------------------------------
Init ==
    /\ sendSeq = 0 /\ sendKey = 0 /\ sendGen = 0
    /\ wire = {}
    /\ recvKey = 0 /\ recvPrev = NoKey /\ recvGen = 0
    /\ replay = [started |-> FALSE, highest |-> 0, bitmap |-> {}]
    /\ opened = [s \in SeqNo |-> 0]

\* Mutant: the key is replaced one frame late.
SealLate(fits) ==
    LET ahead == IF sendSeq = 0 THEN 0 ELSE GenerationOf(sendSeq - 1) - sendGen IN
    /\ sendSeq < MaxSeq
    /\ sendKey' = sendKey + ahead
    /\ sendGen' = sendGen + ahead
    /\ IF fits
       THEN /\ wire' = wire \cup {[seq |-> sendSeq, key |-> sendKey']}
            /\ sendSeq' = sendSeq + 1
       ELSE UNCHANGED <<wire, sendSeq>>
    /\ UNCHANGED receiver

\* seal_frame_padded.  The key moves on to the generation of the next sequence
\* number before the payload is known to fit; if it does not fit (PayloadTooLarge,
\* BufferTooSmall) the sequence number stays.
Seal(fits) ==
    LET ahead == GenerationOf(sendSeq) - sendGen IN
    /\ sendSeq < MaxSeq
    /\ sendKey' = IF ahead > 0 THEN sendKey + ahead ELSE sendKey
    /\ sendGen' = IF ahead > 0 THEN sendGen + ahead ELSE sendGen
    /\ IF fits
       THEN /\ wire' = wire \cup {[seq |-> sendSeq, key |-> sendKey']}
            /\ sendSeq' = sendSeq + 1
       ELSE UNCHANGED <<wire, sendSeq>>
    /\ UNCHANGED receiver

\* How many generations seq is ahead of the receiver (saturating_sub).
Ahead(seq) == IF GenerationOf(seq) > recvGen THEN GenerationOf(seq) - recvGen ELSE 0

\* The key open tries for seq: one derived ahead, the current one, the one
\* retained, or none.
Cipher(seq) ==
    IF Ahead(seq) > MaxLookahead THEN NoKey
    ELSE IF GenerationOf(seq) >= recvGen THEN recvKey + Ahead(seq)
    ELSE IF GenerationOf(seq) + 1 = recvGen THEN recvPrev
    ELSE NoKey

Opens(f) ==
    /\ Check(replay, f.seq)
    /\ Cipher(f.seq) # NoKey
    /\ Cipher(f.seq) = f.key

\* Session::open.  Nothing changes unless the frame authenticates; then the
\* receiver adopts the key it derived, keeps the one it had if that is the
\* generation just before, and records the sequence number.
Open(f) ==
    IF Opens(f)
    THEN /\ recvPrev' = IF Ahead(f.seq) = 0 THEN recvPrev
                        ELSE IF Ahead(f.seq) = 1 THEN recvKey ELSE NoKey
         /\ recvKey' = recvKey + Ahead(f.seq)
         /\ recvGen' = recvGen + Ahead(f.seq)
         /\ replay' = Commit(replay, f.seq)
         /\ opened' = [opened EXCEPT ![f.seq] = @ + 1]
         /\ UNCHANGED sender
    ELSE UNCHANGED vars

\* A frame damaged on the path: its header may name any sequence number.
Damaged(seq) == [seq |-> seq, key |-> NoKey]

Next ==
    \/ \E fits \in BOOLEAN : Seal(fits)
    \/ \E f \in wire : Open(f)
    \/ \E seq \in SeqNo : Open(Damaged(seq))

Spec == Init /\ [][Next]_vars

-----------------------------------------------------------------------------
\* Both ends' counters, keys and the replay window keep their ranges.
TypeOK ==
    /\ sendSeq \in 0 .. MaxSeq /\ sendKey \in Nat /\ sendGen \in Nat
    /\ wire \subseteq Frame
    /\ recvKey \in Nat /\ recvPrev \in Nat \cup {NoKey} /\ recvGen \in Nat
    /\ replay \in [started : BOOLEAN, highest : SeqNo \cup {0}, bitmap : Bitmap]
    /\ opened \in [SeqNo -> Nat]

\* No frame is opened twice, however often the path repeats it and however the
\* receiver's key moves on in between (ReplayWindow::check and commit).
OpenedAtMostOnce == \A s \in SeqNo : opened[s] <= 1

\* The bitmap is exact: a sequence number passes ReplayWindow::check if and
\* only if it is above all that were opened, or within the window below the
\* highest of them and not opened itself.
WindowExact ==
    \A s \in SeqNo : Check(replay, s) <=>
        \/ \A t \in SeqNo : opened[t] > 0 => t < s
        \/ /\ opened[s] = 0
           /\ \A t \in SeqNo : opened[t] > 0 => t - s < ReplaySize

\* What the compile-time assertion is for: a frame that passes the replay
\* window is never more than one generation behind, so open's last arm, the
\* one with no key for the frame, is never reached by it.
WindowWithinOneGeneration ==
    \A s \in SeqNo : Check(replay, s) => GenerationOf(s) + 1 >= recvGen

\* Both ends derive the same key for every sequence number: a key the receiver
\* selects for a frame on the wire is the one the frame was sealed under,
\* although the sender may have failed to seal in between and the receiver may
\* have missed whole generations.
KeysAgree ==
    \A f \in wire : Check(replay, f.seq) => Cipher(f.seq) \in {f.key, NoKey}

\* The retained key is missing only if no frame of that generation was ever
\* opened: reordering across one key change loses nothing that passes the
\* window.
PrevKeptIfUsed ==
    recvGen > 0 /\ recvPrev = NoKey =>
        \A s \in SeqNo : GenerationOf(s) = recvGen - 1 => opened[s] = 0
=============================================================================

---------------------------- MODULE SessionProofs ----------------------------
(***************************************************************************)
(* Proofs about Session, for every window narrower than a key's lifetime   *)
(* and every lookahead.                                                    *)
(*                                                                         *)
(* And about Handles, by which a C host makes sessions, for any number of  *)
(* identities, of pointers with a thread each, and of handshakes: a key    *)
(* held by the host is released once, never while it is used and not too   *)
(* late, and every handshake in memory has one owner.  The count of an Arc *)
(* says nothing of who the references are held by.  The inductive          *)
(* invariant does: the identity while it lives, a handshake that has its   *)
(* key, and a call that has taken the key with it (Holds).  A read_init in *)
(* progress has taken it out of its responder, which has it back only if   *)
(* the call succeeds.                                                      *)
(***************************************************************************)
EXTENDS Session, Handles, FiniteSetTheorems, TLAPS

-----------------------------------------------------------------------------
(* generation_of.                                                          *)

\* A sequence number lies in its generation's interval.
LEMMA GenerationBounds ==
    ASSUME NEW s \in Nat
    PROVE  /\ GenerationOf(s) \in Nat
           /\ RekeyInterval * GenerationOf(s) <= s
           /\ s < RekeyInterval * GenerationOf(s) + RekeyInterval
  BY SessionAssumption, SMTT(30) DEF GenerationOf

\* A multiple of the interval that is larger is larger by an interval.
LEMMA NextMultiple ==
    ASSUME NEW k \in Nat, NEW a \in Nat, NEW b \in Nat, b + 1 <= a
    PROVE  k * b + k <= k * a
  <1> DEFINE c == a - (b + 1)
  <1>1. c \in Nat /\ a = b + 1 + c
    OBVIOUS
  <1> HIDE DEF c
  <1>2. k * c \in Nat
    BY <1>1
  <1>3. k * (b + 1 + c) = k * b + k + k * c
    BY <1>1
  <1>4. k * a = k * b + k + k * c
    BY <1>1, <1>3
  <1>5. k * b \in Nat
    OBVIOUS
  <1> QED BY <1>2, <1>4, <1>5

\* Generations follow the order of sequence numbers.
LEMMA GenerationMonotone ==
    ASSUME NEW s \in Nat, NEW t \in Nat, s <= t
    PROVE  GenerationOf(s) <= GenerationOf(t)
  <1> DEFINE a == GenerationOf(s)
             b == GenerationOf(t)
  <1>1. a \in Nat /\ RekeyInterval * a <= s
    BY GenerationBounds
  <1>2. b \in Nat /\ t < RekeyInterval * b + RekeyInterval
    BY GenerationBounds
  <1> HIDE DEF a, b
  <1>3. ASSUME b + 1 <= a PROVE FALSE
    <2>1. RekeyInterval * b + RekeyInterval <= RekeyInterval * a
      BY <1>1, <1>2, <1>3, NextMultiple, SessionAssumption
    <2>2. RekeyInterval * a \in Nat /\ RekeyInterval * b \in Nat
      BY <1>1, <1>2, SessionAssumption
    <2> QED BY <1>1, <1>2, <2>1, <2>2, SessionAssumption
  <1>4. a <= b
    BY <1>1, <1>2, <1>3
  <1> QED BY <1>4 DEF a, b

\* A window narrower than a generation reaches at most one generation back.
LEMMA GenerationWithinWindow ==
    ASSUME NEW s \in Nat, NEW t \in Nat, t - s < ReplaySize
    PROVE  GenerationOf(s) + 1 >= GenerationOf(t)
  <1> DEFINE a == GenerationOf(s)
             b == GenerationOf(t)
  <1>1. a \in Nat /\ s < RekeyInterval * a + RekeyInterval
    BY GenerationBounds
  <1>2. b \in Nat /\ RekeyInterval * b <= t
    BY GenerationBounds
  <1> HIDE DEF a, b
  <1>3. ASSUME (a + 1) + 1 <= b PROVE FALSE
    <2>1. RekeyInterval * (a + 1) + RekeyInterval <= RekeyInterval * b
      BY <1>1, <1>2, <1>3, NextMultiple, SessionAssumption
    <2>2. RekeyInterval * a + RekeyInterval <= RekeyInterval * (a + 1)
      BY <1>1, NextMultiple, SessionAssumption
    <2>3. /\ RekeyInterval * a \in Nat /\ RekeyInterval * b \in Nat
          /\ RekeyInterval * (a + 1) \in Nat
      BY <1>1, <1>2, SessionAssumption
    <2> HIDE DEF GenerationOf
    <2> QED BY <1>1, <1>2, <2>1, <2>2, <2>3, SessionAssumption
  <1>4. a + 1 >= b
    BY <1>1, <1>2, <1>3
  <1> QED BY <1>4 DEF a, b

-----------------------------------------------------------------------------
(* The inductive invariant.                                                *)

\* The sender's key is the one its generation counter names, and every frame
\* is sealed under the key of its own generation.
SenderInv ==
    /\ sendKey = sendGen
    /\ sendGen <= GenerationOf(sendSeq)
    /\ \A f \in wire : f.key = GenerationOf(f.seq)

\* The receiver is in the generation of the highest sequence number opened,
\* and the keys it holds are those of that generation and the one before.
ReceiverInv ==
    /\ recvKey = recvGen
    /\ recvPrev # NoKey => recvGen > 0 /\ recvPrev = recvGen - 1
    /\ replay.started => replay.highest \in SeqNo /\ recvGen = GenerationOf(replay.highest)
    /\ ~replay.started => recvGen = 0

\* The window and the history of what was opened say the same.
WindowInv ==
    /\ ~replay.started => \A s \in SeqNo : opened[s] = 0
    /\ replay.started =>
          /\ opened[replay.highest] = 1
          /\ \A s \in SeqNo :
                /\ opened[s] > 0 => s <= replay.highest
                /\ s <= replay.highest /\ replay.highest - s < ReplaySize =>
                      (replay.highest - s \in replay.bitmap <=> opened[s] > 0)

IInv ==
    /\ TypeOK
    /\ SenderInv
    /\ ReceiverInv
    /\ WindowInv
    /\ OpenedAtMostOnce
    /\ PrevKeptIfUsed

\* A new session satisfies the invariant.
LEMMA InitIInv == Init => IInv
  <1> SUFFICES ASSUME Init PROVE IInv
    OBVIOUS
  <1>1. TypeOK
    BY SessionAssumption DEF Init, TypeOK, Bitmap, SeqNo
  <1>2. SenderInv
    BY GenerationBounds DEF Init, SenderInv
  <1>3. ReceiverInv /\ WindowInv /\ OpenedAtMostOnce /\ PrevKeptIfUsed
    BY DEF Init, ReceiverInv, WindowInv, OpenedAtMostOnce, PrevKeptIfUsed
  <1> QED BY <1>1, <1>2, <1>3 DEF IInv

\* Sealing a frame, or failing to after the key has moved on, preserves it.
LEMMA SealIInv == ASSUME IInv, NEW fits \in BOOLEAN, Seal(fits) PROVE IInv'
  <1> DEFINE g == GenerationOf(sendSeq)
  <1>1. /\ sendSeq \in Nat /\ sendSeq \in SeqNo /\ sendKey \in Nat /\ sendGen \in Nat
        /\ sendKey = sendGen /\ sendGen <= g
    BY SessionAssumption DEF IInv, TypeOK, SenderInv, Seal, SeqNo
  <1>2. g \in Nat
    BY <1>1, GenerationBounds
  <1>3. sendKey' = g /\ sendGen' = g
    <2> HIDE DEF g
    <2>1. /\ sendKey' = IF g - sendGen > 0 THEN sendKey + (g - sendGen) ELSE sendKey
          /\ sendGen' = IF g - sendGen > 0 THEN sendGen + (g - sendGen) ELSE sendGen
      BY DEF Seal, g
    <2> QED BY <1>1, <1>2, <2>1
  <1>4. /\ recvKey' = recvKey /\ recvPrev' = recvPrev /\ recvGen' = recvGen
        /\ replay' = replay /\ opened' = opened
    BY DEF Seal, receiver
  <1>5. \/ sendSeq' = sendSeq + 1 /\ wire' = wire \cup {[seq |-> sendSeq, key |-> g]}
        \/ sendSeq' = sendSeq /\ wire' = wire
    BY <1>3 DEF Seal
  <1>6. TypeOK'
    <2>1. sendSeq' \in 0 .. MaxSeq
      BY <1>1, <1>5, SessionAssumption DEF SeqNo
    <2>2. wire' \subseteq Frame
      <3> HIDE DEF g
      <3> QED BY <1>1, <1>2, <1>5 DEF IInv, TypeOK, Frame
    <2> QED BY <1>2, <1>3, <1>4, <2>1, <2>2 DEF IInv, TypeOK
  <1>7. SenderInv'
    <2>1. g <= GenerationOf(sendSeq')
      BY <1>1, <1>2, <1>5, GenerationMonotone
    <2>2. \A f \in wire' : f.key = GenerationOf(f.seq)
      BY <1>5 DEF IInv, SenderInv
    <2> QED BY <1>3, <2>1, <2>2 DEF SenderInv
  <1>8. ReceiverInv' /\ WindowInv' /\ OpenedAtMostOnce' /\ PrevKeptIfUsed'
    BY <1>4 DEF IInv, ReceiverInv, WindowInv, OpenedAtMostOnce, PrevKeptIfUsed
  <1> QED BY <1>6, <1>7, <1>8 DEF IInv

\* A sequence number that passes the window has not been opened.
LEMMA CheckedIsUnopened ==
    ASSUME IInv, NEW s \in SeqNo, Check(replay, s)
    PROVE  opened[s] = 0
  <1>1. opened[s] \in Nat /\ s \in Nat
    BY DEF IInv, TypeOK, SeqNo
  <1>2. CASE ~replay.started
    BY <1>2 DEF IInv, WindowInv
  <1>3. CASE replay.started
    <2>1. replay.highest \in Nat
      BY <1>3 DEF IInv, ReceiverInv, SeqNo
    <2>2. CASE s > replay.highest
      BY <1>1, <1>3, <2>1, <2>2 DEF IInv, WindowInv
    <2>3. CASE ~(s > replay.highest)
      BY <1>1, <1>3, <2>1, <2>3 DEF IInv, WindowInv, Check
    <2> QED BY <2>2, <2>3
  <1> QED BY <1>2, <1>3

\* Opening a frame preserves the invariant, wherever its generation lies.
LEMMA OpenIInv == ASSUME IInv, NEW f \in wire, Opens(f), Open(f) PROVE IInv'
  <1> DEFINE s == f.seq
             g == GenerationOf(s)
  <1> USE SessionAssumption
  <1>1. /\ s \in SeqNo /\ s \in Nat /\ g \in Nat /\ f.key = g
        /\ Check(replay, s) /\ Cipher(s) # NoKey
    BY GenerationBounds DEF IInv, TypeOK, Frame, SenderInv, Opens, SeqNo
  <1>2. /\ recvKey \in Nat /\ recvGen \in Nat /\ recvKey = recvGen
        /\ recvPrev \in Nat \cup {NoKey} /\ replay.bitmap \in Bitmap
        /\ replay.started \in BOOLEAN
        /\ replay = [started |-> replay.started, highest |-> replay.highest, bitmap |-> replay.bitmap]
    BY DEF IInv, TypeOK, ReceiverInv
  <1>3. /\ UNCHANGED sender
        /\ recvPrev' = IF Ahead(s) = 0 THEN recvPrev ELSE IF Ahead(s) = 1 THEN recvKey ELSE NoKey
        /\ recvKey' = recvKey + Ahead(s) /\ recvGen' = recvGen + Ahead(s)
        /\ replay' = Commit(replay, s) /\ opened' = [opened EXCEPT ![s] = @ + 1]
    BY DEF Open
  <1>4. Ahead(s) = IF g > recvGen THEN g - recvGen ELSE 0
    BY DEF Ahead
  <1>5. opened[s] = 0
    BY <1>1, CheckedIsUnopened
  <1>6. /\ opened' \in [SeqNo -> Nat] /\ opened'[s] = 1
        /\ \A t \in SeqNo : t # s => opened'[t] = opened[t]
    BY <1>1, <1>3, <1>5 DEF IInv, TypeOK
  <1>7. /\ replay' \in [started : BOOLEAN, highest : SeqNo, bitmap : Bitmap]
        /\ replay'.started /\ recvGen' = GenerationOf(replay'.highest)
        /\ WindowInv'
    <2>1. CASE ~replay.started
      <3>1. replay' = [started |-> TRUE, highest |-> s, bitmap |-> {0}]
        BY <1>3, <2>1 DEF Commit
      <3>2. recvGen = 0 /\ \A t \in SeqNo : opened[t] = 0
        BY <2>1 DEF IInv, ReceiverInv, WindowInv
      <3>3. recvGen' = g
        <4> HIDE DEF s, g
        <4> QED BY <1>1, <1>2, <1>3, <1>4, <3>2
      <3>4. {0} \in Bitmap
        BY DEF Bitmap
      <3>5. /\ replay'.started /\ replay'.highest = s /\ replay'.bitmap = {0}
            /\ replay' \in [started : BOOLEAN, highest : SeqNo, bitmap : Bitmap]
        BY <1>1, <3>1, <3>4
      <3>6. \A t \in SeqNo :
                /\ opened'[t] > 0 => t <= s
                /\ t <= s /\ s - t < ReplaySize =>
                      (s - t \in replay'.bitmap <=> opened'[t] > 0)
        <4> HIDE DEF s
        <4> QED BY <1>1, <1>6, <3>2, <3>5, SMTT(30) DEF SeqNo
      <3>7. WindowInv'
        BY <1>6, <3>5, <3>6 DEF WindowInv
      <3> QED BY <3>3, <3>5, <3>7
    <2>2. CASE replay.started /\ s > replay.highest
      <3> DEFINE h == replay.highest
                 b == {0} \cup {i \in 0 .. ReplaySize - 1 : i - (s - h) \in replay.bitmap}
      <3>1. replay' = [started |-> TRUE, highest |-> s, bitmap |-> b]
        BY <1>2, <1>3, <2>2, Zenon DEF Commit
      <3>2. h \in SeqNo /\ h \in Nat /\ recvGen = GenerationOf(h)
        BY <2>2 DEF IInv, ReceiverInv, SeqNo
      <3>3. recvGen' = g
        <4>1. recvGen <= g
          BY <1>1, <2>2, <3>2, GenerationMonotone
        <4> HIDE DEF s, g
        <4> QED BY <1>1, <1>2, <1>3, <1>4, <4>1
      <3>4. /\ \A t \in SeqNo : opened[t] > 0 => t <= h
            /\ \A t \in SeqNo : t <= h /\ h - t < ReplaySize =>
                                (h - t \in replay.bitmap <=> opened[t] > 0)
        BY <2>2 DEF IInv, WindowInv
      <3>5. ASSUME NEW t \in SeqNo
            PROVE  /\ opened'[t] > 0 => t <= s
                   /\ t <= s /\ s - t < ReplaySize => (s - t \in b <=> opened'[t] > 0)
        <4> HIDE DEF s, h
        <4>1. t \in Nat /\ s \in Nat /\ h \in Nat /\ h < s /\ opened[t] \in Nat
          BY <1>1, <2>2, <3>2 DEF SeqNo, h, IInv, TypeOK
        <4>2. CASE t = s
          <5>1. s - t \in b
            BY <4>1, <4>2
          <5> QED BY <1>6, <4>1, <4>2, <5>1
        <4>3. CASE t # s
          <5>1. opened'[t] = opened[t]
            BY <1>6, <4>3
          <5>2. opened'[t] > 0 => t <= s
            BY <3>4, <4>1, <5>1
          <5>3. ASSUME t <= s, s - t < ReplaySize PROVE s - t \in b <=> opened'[t] > 0
            <6>1. s - t \in 0 .. ReplaySize - 1 /\ s - t # 0
              BY <4>1, <4>3, <5>3
            <6>2. (s - t) - (s - h) = h - t
              BY <4>1
            <6>3. s - t \in b <=> h - t \in replay.bitmap
              BY <6>1, <6>2
            <6>4. CASE t <= h
              <7>1. h - t < ReplaySize
                BY <4>1, <5>3
              <7> QED BY <3>4, <5>1, <6>3, <6>4, <7>1
            <6>5. CASE ~(t <= h)
              <7>1. h - t \notin replay.bitmap
                BY <1>2, <4>1, <6>5 DEF Bitmap
              <7> QED BY <3>4, <5>1, <6>3, <6>5, <7>1
            <6> QED BY <6>4, <6>5
          <5> QED BY <5>2, <5>3
        <4> QED BY <4>2, <4>3
      <3>6. b \in Bitmap
        BY DEF Bitmap
      <3> HIDE DEF b
      <3> QED BY <1>1, <1>6, <3>1, <3>3, <3>5, <3>6 DEF WindowInv
    <2>3. CASE replay.started /\ ~(s > replay.highest)
      <3> DEFINE h == replay.highest
                 b == replay.bitmap \cup {h - s}
      <3>1. h \in SeqNo /\ h \in Nat /\ recvGen = GenerationOf(h)
        BY <2>3 DEF IInv, ReceiverInv, SeqNo
      <3>2. h - s < ReplaySize /\ h - s \in 0 .. ReplaySize - 1 /\ s <= h
        BY <1>1, <2>3, <3>1 DEF Check
      <3>3. replay' = [started |-> TRUE, highest |-> h, bitmap |-> b]
        BY <1>2, <1>3, <2>3, <3>2, Zenon DEF Commit
      <3>4. recvGen' = recvGen
        <4>1. g <= recvGen
          BY <1>1, <3>1, <3>2, GenerationMonotone
        <4> HIDE DEF s, g
        <4> QED BY <1>1, <1>2, <1>3, <1>4, <4>1
      <3>5. /\ opened[h] = 1
            /\ \A t \in SeqNo : opened[t] > 0 => t <= h
            /\ \A t \in SeqNo : t <= h /\ h - t < ReplaySize =>
                                (h - t \in replay.bitmap <=> opened[t] > 0)
        BY <2>3 DEF IInv, WindowInv
      <3>6. opened'[h] = 1
        BY <1>6, <3>1, <3>5
      <3>7. ASSUME NEW t \in SeqNo
            PROVE  /\ opened'[t] > 0 => t <= h
                   /\ t <= h /\ h - t < ReplaySize => (h - t \in b <=> opened'[t] > 0)
        <4> HIDE DEF s, h
        <4>1. t \in Nat /\ s \in Nat /\ h \in Nat
          BY <1>1, <3>1 DEF SeqNo
        <4>2. CASE t = s
          BY <1>6, <3>2, <4>1, <4>2
        <4>3. CASE t # s
          <5>1. opened'[t] = opened[t] /\ h - t # h - s
            BY <1>6, <4>1, <4>3
          <5> QED BY <3>5, <5>1
        <4> QED BY <4>2, <4>3
      <3>8. b \in Bitmap
        BY <1>2, <3>2 DEF Bitmap
      <3> HIDE DEF b
      <3> QED BY <1>6, <3>1, <3>3, <3>4, <3>6, <3>7, <3>8 DEF WindowInv
    <2> QED BY <1>2, <2>1, <2>2, <2>3
  <1>8. recvGen' \in Nat /\ recvKey' = recvGen' /\ Ahead(s) \in Nat
    <2> HIDE DEF s, g
    <2> QED BY <1>1, <1>2, <1>3, <1>4
  <1>9. TypeOK'
    <2>1. recvPrev' \in Nat \cup {NoKey}
      BY <1>2, <1>3
    <2> QED BY <1>3, <1>6, <1>7, <1>8, <2>1 DEF IInv, TypeOK, sender
  <1>10. SenderInv'
    BY <1>3 DEF IInv, SenderInv, sender
  <1>11. ReceiverInv'
    <2>1. recvPrev' # NoKey => recvGen' > 0 /\ recvPrev' = recvGen' - 1
      <3> HIDE DEF s, g
      <3>1. recvPrev # NoKey => recvGen > 0 /\ recvPrev = recvGen - 1
        BY DEF IInv, ReceiverInv
      <3> QED BY <1>2, <1>3, <1>8, <3>1
    <2> QED BY <1>7, <1>8, <2>1 DEF ReceiverInv
  <1>12. OpenedAtMostOnce'
    BY <1>6 DEF IInv, OpenedAtMostOnce
  <1>13. PrevKeptIfUsed'
    <2> SUFFICES ASSUME recvGen' > 0, recvPrev' = NoKey,
                        NEW t \in SeqNo, GenerationOf(t) = recvGen' - 1
                 PROVE  opened'[t] = 0
      BY DEF PrevKeptIfUsed
    <2>1. CASE Ahead(s) = 0
      <3>1. recvGen' = recvGen /\ recvPrev = NoKey
        BY <1>2, <1>3, <2>1
      <3>2. t # s
        <4>1. ASSUME t = s PROVE FALSE
          <5>1. g + 1 = recvGen /\ ~(g >= recvGen)
            BY <1>1, <1>2, <3>1, <4>1
          <5> QED BY <1>1, <2>1, <3>1, <5>1 DEF Cipher
        <4> QED BY <4>1
      <3> QED BY <1>6, <3>1, <3>2 DEF IInv, PrevKeptIfUsed
    <2>2. CASE Ahead(s) = 1
      BY <1>2, <1>3, <2>2
    <2>3. CASE Ahead(s) > 1
      <3>1. recvGen' = g /\ g > recvGen + 1
        <4> HIDE DEF s, g
        <4> QED BY <1>1, <1>2, <1>3, <1>4, <2>3
      <3>2. t # s
        BY <1>1, <3>1
      <3>3. ASSUME opened[t] # 0 PROVE FALSE
        <4>1. opened[t] > 0 /\ replay.started
          BY <3>3 DEF IInv, TypeOK, WindowInv
        <4>2. t \in Nat /\ replay.highest \in Nat /\ t <= replay.highest
              /\ recvGen = GenerationOf(replay.highest)
          BY <4>1 DEF IInv, WindowInv, ReceiverInv, SeqNo
        <4>3. GenerationOf(t) <= recvGen
          BY <4>2, GenerationMonotone
        <4> HIDE DEF g
        <4> QED BY <1>1, <1>2, <3>1, <4>3
      <3> QED BY <1>6, <3>2, <3>3
    <2> QED BY <1>8, <2>1, <2>2, <2>3
  <1> QED BY <1>7, <1>9, <1>10, <1>11, <1>12, <1>13 DEF IInv

\* Every step preserves the invariant.
LEMMA NextIInv == IInv /\ [Next]_vars => IInv'
  <1> SUFFICES ASSUME IInv, [Next]_vars PROVE IInv'
    OBVIOUS
  <1>1. ASSUME UNCHANGED vars PROVE IInv'
    BY <1>1 DEF vars, sender, receiver, IInv, TypeOK, SenderInv, ReceiverInv, WindowInv,
                OpenedAtMostOnce, PrevKeptIfUsed
  <1>2. ASSUME NEW f \in wire, Open(f) PROVE IInv'
    BY <1>1, <1>2, OpenIInv DEF Open
  <1>3. ASSUME NEW s \in SeqNo, Open(Damaged(s)) PROVE IInv'
    <2>1. ~Opens(Damaged(s))
      BY DEF Opens, Damaged
    <2> QED BY <1>1, <1>3, <2>1 DEF Open
  <1> QED BY <1>1, <1>2, <1>3, SealIInv DEF Next

-----------------------------------------------------------------------------
(* The theorems.                                                           *)

\* The invariant holds in every reachable state of sender, wire and receiver.
THEOREM Invariance == Spec => []IInv
  BY InitIInv, NextIInv, PTL DEF Spec

\* No sequence number is opened twice.
THEOREM NoReplay == Spec => []OpenedAtMostOnce
  <1>1. IInv => OpenedAtMostOnce
    BY DEF IInv
  <1> QED BY <1>1, Invariance, PTL

\* ReplayWindow::check decides exactly what the history of opened frames says.
THEOREM ExactWindow == Spec => []WindowExact
  <1>1. IInv => WindowExact
    <2> SUFFICES ASSUME IInv, NEW s \in SeqNo
                 PROVE  Check(replay, s) <=>
                            \/ \A t \in SeqNo : opened[t] > 0 => t < s
                            \/ /\ opened[s] = 0
                               /\ \A t \in SeqNo : opened[t] > 0 => t - s < ReplaySize
      BY DEF WindowExact
    <2>1. CASE ~replay.started
      BY <2>1 DEF IInv, WindowInv, Check
    <2>2. CASE replay.started
      <3> DEFINE h == replay.highest
      <3>1. /\ h \in SeqNo /\ h \in Nat /\ s \in Nat /\ opened[s] \in Nat
            /\ \A t \in SeqNo : t \in Nat
        BY <2>2 DEF IInv, ReceiverInv, TypeOK, SeqNo
      <3>2. /\ opened[h] > 0
            /\ \A t \in SeqNo : opened[t] > 0 => t <= h
            /\ s <= h /\ h - s < ReplaySize => (h - s \in replay.bitmap <=> opened[s] > 0)
        BY <2>2 DEF IInv, WindowInv
      <3>3. Check(replay, s) <=> s > h \/ (h - s < ReplaySize /\ h - s \notin replay.bitmap)
        BY <2>2 DEF Check
      <3> HIDE DEF h
      <3>4. CASE s > h
        BY <3>1, <3>2, <3>3, <3>4
      <3>5. CASE ~(s > h)
        <4>1. ~ \A t \in SeqNo : opened[t] > 0 => t < s
          BY <3>1, <3>2, <3>5
        <4>2. (\A t \in SeqNo : opened[t] > 0 => t - s < ReplaySize) <=> h - s < ReplaySize
          BY <3>1, <3>2, SessionAssumption
        <4> QED BY <3>1, <3>2, <3>3, <3>5, <4>1, <4>2
      <3> QED BY <3>4, <3>5
    <2> QED BY <2>1, <2>2
  <1> QED BY <1>1, Invariance, PTL

\* A receiver that holds no key for the generation before its own has opened
\* nothing of it.
THEOREM PrevKept == Spec => []PrevKeptIfUsed
  <1>1. IInv => PrevKeptIfUsed
    BY DEF IInv
  <1> QED BY <1>1, Invariance, PTL

\* The window lets through nothing more than one generation behind.
THEOREM OneGenerationBack == Spec => []WindowWithinOneGeneration
  <1>1. IInv => WindowWithinOneGeneration
    <2> SUFFICES ASSUME IInv, NEW s \in SeqNo, Check(replay, s)
                 PROVE  GenerationOf(s) + 1 >= recvGen
      BY DEF WindowWithinOneGeneration
    <2>1. s \in Nat /\ GenerationOf(s) \in Nat /\ recvGen \in Nat
      BY GenerationBounds DEF SeqNo, IInv, TypeOK
    <2>2. CASE ~replay.started
      BY <2>1, <2>2 DEF IInv, ReceiverInv
    <2>3. CASE replay.started
      <3>1. replay.highest \in Nat /\ recvGen = GenerationOf(replay.highest)
        BY <2>3 DEF IInv, ReceiverInv, SeqNo
      <3>2. replay.highest - s < ReplaySize
        BY <2>1, <2>3, <3>1, SessionAssumption DEF Check
      <3> QED BY <2>1, <3>1, <3>2, GenerationWithinWindow
    <2> QED BY <2>2, <2>3
  <1> QED BY <1>1, Invariance, PTL

\* The key the receiver selects for a frame is the one it was sealed under.
THEOREM SameKey == Spec => []KeysAgree
  <1>1. IInv => KeysAgree
    <2> SUFFICES ASSUME IInv, NEW f \in wire PROVE Cipher(f.seq) \in {f.key, NoKey}
      BY DEF KeysAgree
    <2> DEFINE g == GenerationOf(f.seq)
    <2>1. g \in Nat /\ f.key = g /\ recvGen \in Nat /\ recvKey = recvGen
      BY GenerationBounds DEF IInv, TypeOK, Frame, SeqNo, SenderInv, ReceiverInv
    <2>2. recvPrev # NoKey => recvPrev = recvGen - 1
      BY DEF IInv, ReceiverInv
    <2>3. Ahead(f.seq) = IF g > recvGen THEN g - recvGen ELSE 0
      BY DEF Ahead
    <2>4. Cipher(f.seq) = IF Ahead(f.seq) > MaxLookahead THEN NoKey
                          ELSE IF g >= recvGen THEN recvKey + Ahead(f.seq)
                          ELSE IF g + 1 = recvGen THEN recvPrev
                          ELSE NoKey
      BY DEF Cipher
    <2> HIDE DEF g
    <2>5. CASE g >= recvGen
      <3>1. recvKey + Ahead(f.seq) = g
        BY <2>1, <2>3, <2>5
      <3> QED BY <2>1, <2>4, <2>5, <3>1
    <2>6. CASE ~(g >= recvGen)
      <3>1. g + 1 = recvGen /\ recvPrev # NoKey => recvPrev = g
        BY <2>1, <2>2
      <3> QED BY <2>1, <2>4, <2>6, <3>1
    <2> QED BY <2>5, <2>6
  <1> QED BY <1>1, Invariance, PTL

-----------------------------------------------------------------------------
(* Handles: the inductive invariant.                                       *)

Calls == [op : {"write_init", "read_init"}, of : Identities]
           \cup [op : {"read_response"}, of : Identities, failed : BOOLEAN]

\* A pointer, and the call in progress on its thread: what a call uses, and
\* which handshakes are without a key.
Pointer(p) ==
    /\ call[p].op = "write_init" =>
          handle[p] # Null /\ handle[p].kind = "initiator" /\ handle[p].of = call[p].of
    /\ call[p].op = "read_init" =>
          /\ handle[p] # Null /\ handle[p].kind = "responder"
          /\ handle[p].of = call[p].of /\ ~handle[p].key
    /\ call[p].op = "read_response" => handle[p] = Null
    /\ handle[p] # Null /\ ~handle[p].key =>
          /\ handle[p].kind = "responder"
          /\ handle[p].stage = "spent" \/ call[p].op = "read_init"

Shapes ==
    /\ identity \in [Identities -> {"unborn", "live", "freed"}]
    /\ handle \in [Pointers -> Handshake \cup {Null}]
    /\ call \in [Pointers -> Calls \cup {Idle}]
    /\ \A p \in Pointers : Pointer(p)

\* Whether p's handshake, or the call on its thread, holds a reference to i's key.
Holds(p, i) ==
    \/ handle[p] # Null /\ handle[p].of = i /\ handle[p].key
    \/ call[p].op \in {"read_init", "read_response"} /\ call[p].of = i

Holders(i) == {p \in Pointers : Holds(p, i)}
Alive(i) == IF identity[i] = "live" THEN 1 ELSE 0

\* The references are those of the holders and of the identity, and release has
\* been called when there are none left.
Counted ==
    /\ refs \in [Identities -> Nat] /\ released \in [Identities -> Nat]
    /\ \A i \in Identities :
          /\ refs[i] = Cardinality(Holders(i)) + Alive(i)
          /\ released[i] = IF identity[i] # "unborn" /\ refs[i] = 0 THEN 1 ELSE 0
          /\ identity[i] = "unborn" => Holders(i) = {}

Owned == {p \in Pointers : handle[p] # Null}
InCall == {p \in Pointers : call[p].op = "read_response"}

HostInv == Shapes /\ Counted /\ OneOwner

-----------------------------------------------------------------------------
(* Counting.                                                               *)

\* The calls that the steps put in progress are calls.
LEMMA KeyCall ==
    ASSUME NEW i \in Identities, NEW op \in {"write_init", "read_init"},
           NEW c, c = [op |-> op, of |-> i]
    PROVE  c \in Calls /\ c.op = op /\ c.of = i
    BY DEF Calls

LEMMA ResponseCall ==
    ASSUME NEW i \in Identities, NEW c,
           \E b \in BOOLEAN : c = [op |-> "read_response", of |-> i, failed |-> b]
    PROVE  c \in Calls /\ c.op = "read_response" /\ c.of = i
    BY DEF Calls

\* Null is no handshake, and Idle is no call.
LEMMA Distinct ==
    /\ Null \notin Handshake /\ \A h \in Handshake : h # Null
    /\ Idle \notin Calls /\ Null.kind = "null" /\ Idle.op = "idle"
    /\ \A c \in Calls : c # Idle /\ c.op # "idle" /\ c.of \in Identities
BY DEF Null, Handshake, Idle, Calls

\* A set of pointers with one more, one fewer or the same.
LEMMA OneMore ==
    ASSUME IsFiniteSet(Pointers), NEW S \in SUBSET Pointers, NEW T \in SUBSET Pointers,
           NEW p \in Pointers, \A q \in Pointers \ {p} : q \in T <=> q \in S
    PROVE  /\ Cardinality(S) \in Nat
           /\ p \in S => Cardinality(S) >= 1
           /\ p \notin S /\ p \in T => Cardinality(T) = Cardinality(S) + 1
           /\ p \in S /\ p \notin T => Cardinality(T) = Cardinality(S) - 1
           /\ (p \in S <=> p \in T) => T = S
    <1>1. IsFiniteSet(S)
      BY FS_Subset
    <1>2. Cardinality(S) \in Nat
      BY <1>1, FS_CardinalityType
    <1>3. p \in S => Cardinality(S) >= 1
      BY <1>1, <1>2, FS_EmptySet
    <1>4. CASE p \notin S /\ p \in T
      <2>1. T = S \cup {p}
        BY <1>4
      <2> QED  BY <1>1, <1>2, <1>4, <2>1, FS_AddElement, Zenon
    <1>5. CASE p \in S /\ p \notin T
      <2>1. T = S \ {p}
        BY <1>5
      <2> QED  BY <1>1, <1>2, <1>3, <1>5, <2>1, FS_RemoveElement, Zenon
    <1>6. (p \in S <=> p \in T) => T = S
      OBVIOUS
    <1> QED  BY <1>2, <1>3, <1>4, <1>5, <1>6

\* One pointer of one key takes a reference, drops one, or neither.
LEMMA Recount ==
    ASSUME IsFiniteSet(Pointers), Shapes, Counted, NEW p \in Pointers, NEW i \in Identities,
           UNCHANGED identity,
           \A q \in Pointers : \A j \in Identities :
              q # p \/ j # i => (Holds(q, j)' <=> Holds(q, j)),
           \/ (Holds(p, i)' <=> Holds(p, i)) /\ UNCHANGED <<refs, released>>
           \/ ~Holds(p, i) /\ Holds(p, i)' /\ identity[i] = "live" /\ Key(i) /\ UNCHANGED released
           \/ Holds(p, i) /\ ~Holds(p, i)' /\ Unref(i)
    PROVE  Counted'
    <1>0. /\ refs[i] \in Nat /\ released[i] \in Nat
          /\ Alive(i) \in {0, 1} /\ refs[i] = Cardinality(Holders(i)) + Alive(i)
          /\ released[i] = IF identity[i] # "unborn" /\ refs[i] = 0 THEN 1 ELSE 0
          /\ identity[i] = "unborn" => Holders(i) = {}
      BY DEF Counted, Alive
    <1>1. \A j \in Identities : j # i => Holders(j)' = Holders(j)
      BY DEF Holders
    <1>2. \A j \in Identities : Alive(j)' = Alive(j)
      BY DEF Alive
    <1>3. /\ Holders(i) \in SUBSET Pointers /\ Holders(i)' \in SUBSET Pointers
          /\ \A q \in Pointers \ {p} : q \in Holders(i)' <=> q \in Holders(i)
          /\ p \in Holders(i) <=> Holds(p, i)
          /\ p \in Holders(i)' <=> Holds(p, i)'
      BY DEF Holders
    <1>4. CASE (Holds(p, i)' <=> Holds(p, i)) /\ UNCHANGED <<refs, released>>
      <2>1. Holders(i)' = Holders(i)
        BY <1>3, <1>4, OneMore
      <2> QED  BY <1>0, <1>1, <1>2, <1>4, <2>1 DEF Counted
    <1>5. CASE ~Holds(p, i) /\ Holds(p, i)' /\ identity[i] = "live" /\ Key(i) /\ UNCHANGED released
      <2>1. Cardinality(Holders(i)') = Cardinality(Holders(i)) + 1 /\ Cardinality(Holders(i)) \in Nat
        BY <1>3, <1>5, OneMore
      <2>2. refs' \in [Identities -> Nat] /\ refs'[i] = refs[i] + 1
            /\ \A j \in Identities : j # i => refs'[j] = refs[j]
        BY <1>5, SMTT(30) DEF Key, Counted
      <2>3. released[i] = 0 /\ refs'[i] # 0 /\ refs'[i] = Cardinality(Holders(i)') + Alive(i)
        BY <1>0, <1>5, <2>1, <2>2 DEF Alive
      <2> QED  BY <1>1, <1>2, <1>5, <2>2, <2>3 DEF Counted
    <1>6. CASE Holds(p, i) /\ ~Holds(p, i)' /\ Unref(i)
      <2>1. Cardinality(Holders(i)') = Cardinality(Holders(i)) - 1
            /\ Cardinality(Holders(i)) \in Nat /\ Cardinality(Holders(i)) >= 1
        BY <1>3, <1>6, OneMore
      <2>2. identity[i] # "unborn" /\ released[i] = 0 /\ refs[i] >= 1
        BY <1>0, <1>3, <1>6, <2>1
      <2>3. refs' \in [Identities -> Nat] /\ refs'[i] = refs[i] - 1
            /\ \A j \in Identities : j # i => refs'[j] = refs[j]
        BY <1>0, <1>6, <2>2 DEF Unref, Counted
      <2>4. released' \in [Identities -> Nat]
            /\ released'[i] = (IF refs'[i] = 0 THEN 1 ELSE 0)
            /\ \A j \in Identities : j # i => released'[j] = released[j]
        BY <1>0, <1>6, <2>2, <2>3, SMTT(30) DEF Unref, Counted
      <2>5. refs'[i] = Cardinality(Holders(i)') + Alive(i)
        BY <1>0, <2>1, <2>3, SMTT(30)
      <2> QED  BY <1>1, <1>2, <2>2, <2>3, <2>4, <2>5 DEF Counted
    <1> QED  BY <1>4, <1>5, <1>6

\* One pointer's handshake is allocated, freed, handed to a call, or stays.
LEMMA Reown ==
    ASSUME IsFiniteSet(Pointers), OneOwner, NEW p \in Pointers,
           \A q \in Pointers \ {p} : handle'[q] = handle[q] /\ call'[q] = call[q],
           LET owned == handle[p] # Null
               inCall == call[p].op = "read_response" IN
           \/ (owned' <=> owned) /\ (inCall' <=> inCall) /\ boxes' = boxes
           \/ owned /\ ~owned' /\ ~inCall /\ inCall' /\ boxes' = boxes
           \/ ~owned /\ owned' /\ (inCall' <=> inCall) /\ boxes' = boxes + 1
           \/ owned /\ ~owned' /\ (inCall' <=> inCall) /\ boxes' = boxes - 1
           \/ (owned' <=> owned) /\ inCall /\ ~inCall' /\ boxes' = boxes - 1
    PROVE  OneOwner'
    <1>1. /\ Owned \in SUBSET Pointers /\ Owned' \in SUBSET Pointers
          /\ \A q \in Pointers \ {p} : q \in Owned' <=> q \in Owned
          /\ p \in Owned <=> handle[p] # Null
          /\ p \in Owned' <=> handle'[p] # Null
      BY DEF Owned
    <1>2. /\ Cardinality(Owned) \in Nat
          /\ p \notin Owned /\ p \in Owned' => Cardinality(Owned') = Cardinality(Owned) + 1
          /\ p \in Owned /\ p \notin Owned' => Cardinality(Owned') = Cardinality(Owned) - 1
          /\ (p \in Owned <=> p \in Owned') => Owned' = Owned
      BY <1>1, OneMore, Zenon
    <1>a. /\ InCall \in SUBSET Pointers /\ InCall' \in SUBSET Pointers
          /\ \A q \in Pointers \ {p} : q \in InCall' <=> q \in InCall
          /\ p \in InCall <=> call[p].op = "read_response"
          /\ p \in InCall' <=> call'[p].op = "read_response"
      BY DEF InCall
    <1>3. /\ Cardinality(InCall) \in Nat
          /\ p \notin InCall /\ p \in InCall' => Cardinality(InCall') = Cardinality(InCall) + 1
          /\ p \in InCall /\ p \notin InCall' => Cardinality(InCall') = Cardinality(InCall) - 1
          /\ (p \in InCall <=> p \in InCall') => InCall' = InCall
      BY <1>a, OneMore, Zenon
    <1>4. boxes = Cardinality(Owned) + Cardinality(InCall)
      BY DEF OneOwner, Owned, InCall
    <1>5. boxes' = Cardinality(Owned') + Cardinality(InCall')
      BY <1>1, <1>a, <1>2, <1>3, <1>4
    <1> QED  BY <1>5 DEF OneOwner, Owned, InCall

-----------------------------------------------------------------------------
(* The steps.                                                              *)

\* A step of one thread leaves the other pointers alone.
LEMMA Framed ==
    ASSUME Shapes, NEW p \in Pointers, UNCHANGED identity,
           handle'[p] \in Handshake \cup {Null}, call'[p] \in Calls \cup {Idle},
           handle' = [handle EXCEPT ![p] = handle'[p]],
           call' = [call EXCEPT ![p] = call'[p]],
           Pointer(p)'
    PROVE  /\ Shapes'
           /\ \A q \in Pointers \ {p} : handle'[q] = handle[q] /\ call'[q] = call[q]
           /\ \A q \in Pointers \ {p} : \A j \in Identities : Holds(q, j)' <=> Holds(q, j)
    <1>1. \A q \in Pointers \ {p} : handle'[q] = handle[q] /\ call'[q] = call[q]
      BY DEF Shapes
    <1>2. \A q \in Pointers \ {p} : Pointer(q)'
      BY <1>1 DEF Shapes, Pointer
    <1>3. \A q \in Pointers \ {p} : \A j \in Identities : Holds(q, j)' <=> Holds(q, j)
      BY <1>1 DEF Holds
    <1> QED  BY <1>1, <1>2, <1>3 DEF Shapes

\* The identities' own steps.
LEMMA IdentitySteps ==
    ASSUME IsFiniteSet(Pointers), HostInv, NEW i \in Identities,
           IdentityFromKey(i) \/ IdentityFree(i)
    PROVE  HostInv'
    <1>1. UNCHANGED <<handle, call, boxes>>
      BY DEF IdentityFromKey, IdentityFree
    <1>2. /\ identity' \in [Identities -> {"unborn", "live", "freed"}]
          /\ \A j \in Identities : j # i => identity'[j] = identity[j]
      BY ZenonT(30) DEF IdentityFromKey, IdentityFree, HostInv, Shapes
    <1>3. Shapes' /\ OneOwner'
      BY <1>1, <1>2 DEF HostInv, Shapes, Pointer, OneOwner
    <1>4. \A j : Holders(j)' = Holders(j)
      BY <1>1 DEF Holders, Holds
    <1>5. \A j \in Identities : j # i => Alive(j)' = Alive(j)
      BY <1>2 DEF Alive
    <1>6. /\ Cardinality(Holders(i)) \in Nat
          /\ refs[i] = Cardinality(Holders(i)) + Alive(i) /\ refs[i] \in Nat
          /\ released[i] = IF identity[i] # "unborn" /\ refs[i] = 0 THEN 1 ELSE 0
      <2>1. Holders(i) \in SUBSET Pointers
        BY DEF Holders
      <2> QED  BY <2>1, FS_Subset, FS_CardinalityType DEF HostInv, Counted
    <1>7. CASE IdentityFromKey(i)
      <2>1. Holders(i) = {} /\ Cardinality(Holders(i)) = 0 /\ released[i] = 0
        <3>1. Holders(i) = {} /\ identity[i] = "unborn"
          BY <1>7 DEF IdentityFromKey, HostInv, Counted
        <3>2. Cardinality(Holders(i)) = 0
          BY <3>1, FS_EmptySet, Zenon
        <3> QED  BY <1>6, <3>1, <3>2
      <2>2. /\ refs' \in [Identities -> Nat] /\ refs'[i] = 1 /\ UNCHANGED released
            /\ \A j \in Identities : j # i => refs'[j] = refs[j]
        BY <1>7 DEF IdentityFromKey, HostInv, Counted
      <2>3. identity'[i] = "live" /\ Alive(i)' = 1
        BY <1>7 DEF IdentityFromKey, HostInv, Shapes, Alive
      <2>4. Counted'
        BY <1>2, <1>4, <1>5, <2>1, <2>2, <2>3 DEF HostInv, Counted
      <2> QED  BY <1>3, <2>4 DEF HostInv
    <1>8. CASE IdentityFree(i)
      <2>1. Alive(i) = 1 /\ refs[i] >= 1 /\ released[i] = 0
        BY <1>6, <1>8 DEF IdentityFree, Alive
      <2>2. /\ refs' \in [Identities -> Nat] /\ refs'[i] = refs[i] - 1
            /\ \A j \in Identities : j # i => refs'[j] = refs[j]
        BY <1>6, <1>8, <2>1 DEF IdentityFree, Unref, HostInv, Counted
      <2>3. /\ released' \in [Identities -> Nat]
            /\ released'[i] = (IF refs'[i] = 0 THEN 1 ELSE 0)
            /\ \A j \in Identities : j # i => released'[j] = released[j]
        BY <1>6, <1>8, <2>1, <2>2 DEF IdentityFree, Unref, HostInv, Counted
      <2>4. identity'[i] = "freed" /\ Alive(i)' = 0
        BY <1>8 DEF IdentityFree, HostInv, Shapes, Alive
      <2>5. refs'[i] = Cardinality(Holders(i)) + 0
        BY <1>6, <2>1, <2>2
      <2>6. Counted'
        BY <1>2, <1>4, <1>5, <2>2, <2>3, <2>4, <2>5, ZenonT(30) DEF HostInv, Counted
      <2> QED  BY <1>3, <2>6 DEF HostInv
    <1> QED  BY <1>7, <1>8

\* A handshake is begun.
LEMMA BeginStep ==
    ASSUME IsFiniteSet(Pointers), HostInv, NEW p \in Pointers, NEW i \in Identities,
           NEW kind \in {"initiator", "responder"}, Begin(p, i, kind)
    PROVE  HostInv'
    <1> DEFINE h == [kind |-> kind, of |-> i, key |-> TRUE, stage |-> "new", failed |-> FALSE]
    <1>1. /\ h \in Handshake /\ handle' = [handle EXCEPT ![p] = h] /\ UNCHANGED <<identity, call>>
          /\ handle[p] = Null /\ call[p] = Idle /\ identity[i] = "live"
          /\ Key(i) /\ UNCHANGED released /\ boxes' = boxes + 1
      BY Zenon DEF Begin, Handshake
    <1>2. handle'[p] = h /\ handle'[p] # Null /\ call'[p] = Idle /\ call'[p].op = "idle"
          /\ call' = [call EXCEPT ![p] = call'[p]]
      BY <1>1, Distinct DEF HostInv, Shapes
    <1>3. Pointer(p)'
      BY <1>2 DEF Pointer
    <1>4. /\ Shapes'
          /\ \A q \in Pointers \ {p} : handle'[q] = handle[q] /\ call'[q] = call[q]
          /\ \A q \in Pointers \ {p} : \A j \in Identities : Holds(q, j)' <=> Holds(q, j)
      BY <1>1, <1>2, <1>3, Framed, Zenon DEF HostInv
    <1>5. \A j \in Identities : ~Holds(p, j) /\ (Holds(p, j)' <=> j = i)
      BY <1>1, <1>2, Distinct DEF Holds
    <1>6. Counted'
      BY <1>1, <1>4, <1>5, Recount DEF HostInv
    <1>7. OneOwner'
      BY <1>1, <1>2, <1>4, Distinct, Reown, ZenonT(30) DEF HostInv
    <1> QED  BY <1>4, <1>6, <1>7, Zenon DEF HostInv

\* A handshake is consumed or freed, with its reference if it has one.
LEMMA DropStep ==
    ASSUME IsFiniteSet(Pointers), HostInv, NEW p \in Pointers,
           handle[p] # Null, call[p] = Idle, UNCHANGED <<identity, call>>,
           handle' = [handle EXCEPT ![p] = Null], DropBox(handle[p])
    PROVE  HostInv'
    <1> DEFINE i == handle[p].of
    <1>1. /\ handle[p] \in Handshake /\ i \in Identities /\ boxes' = boxes - 1
          /\ handle'[p] = Null /\ call'[p] = Idle /\ call'[p].op = "idle"
          /\ call' = [call EXCEPT ![p] = call'[p]]
      BY Distinct DEF HostInv, Shapes, Handshake, DropBox
    <1>2. Pointer(p)'
      BY <1>1 DEF Pointer
    <1>3. /\ Shapes'
          /\ \A q \in Pointers \ {p} : handle'[q] = handle[q] /\ call'[q] = call[q]
          /\ \A q \in Pointers \ {p} : \A j \in Identities : Holds(q, j)' <=> Holds(q, j)
      BY <1>1, <1>2, Framed, Zenon DEF HostInv
    <1>4. \A j \in Identities : ~Holds(p, j)' /\ (Holds(p, j) <=> j = i /\ handle[p].key)
      BY <1>1 DEF Holds
    <1>5. Counted'
      <2>1. CASE handle[p].key
        <3>1. Unref(i)
          BY <2>1 DEF DropBox
        <3> QED  BY <1>1, <1>3, <1>4, <2>1, <3>1, Recount DEF HostInv
      <2>2. CASE ~handle[p].key
        <3>1. UNCHANGED <<refs, released>>
          BY <2>2 DEF DropBox
        <3> QED  BY <1>1, <1>3, <1>4, <2>2, <3>1, Recount DEF HostInv
      <2> QED  BY <2>1, <2>2
    <1>6. OneOwner'
      BY <1>1, <1>3, Reown, Zenon DEF HostInv
    <1> QED  BY <1>3, <1>5, <1>6 DEF HostInv

\* A call begins or ends on p's thread, with the key or not: what is left to show
\* is what becomes of p itself.
LEMMA CallStep ==
    ASSUME IsFiniteSet(Pointers), HostInv, NEW p \in Pointers, NEW i \in Identities,
           UNCHANGED identity,
           handle'[p] \in Handshake \cup {Null}, call'[p] \in Calls \cup {Idle},
           handle' = [handle EXCEPT ![p] = handle'[p]],
           call' = [call EXCEPT ![p] = call'[p]],
           Pointer(p)',
           \A j \in Identities : j # i => (Holds(p, j)' <=> Holds(p, j)),
           \/ (Holds(p, i)' <=> Holds(p, i)) /\ UNCHANGED <<refs, released>>
           \/ Holds(p, i) /\ ~Holds(p, i)' /\ Unref(i),
           \/ /\ handle'[p] # Null <=> handle[p] # Null
              /\ call'[p].op = "read_response" <=> call[p].op = "read_response"
              /\ boxes' = boxes
           \/ /\ handle[p] # Null /\ handle'[p] = Null /\ boxes' = boxes
              /\ call[p].op # "read_response" /\ call'[p].op = "read_response"
           \/ /\ handle'[p] # Null <=> handle[p] # Null
              /\ call[p].op = "read_response" /\ call'[p].op # "read_response"
              /\ boxes' = boxes - 1
    PROVE  HostInv'
    <1>1. /\ Shapes'
          /\ \A q \in Pointers \ {p} : handle'[q] = handle[q] /\ call'[q] = call[q]
          /\ \A q \in Pointers \ {p} : \A j \in Identities : Holds(q, j)' <=> Holds(q, j)
      BY Framed, ZenonT(30) DEF HostInv
    <1>2. Counted'
      BY <1>1, Recount, SMTT(30) DEF HostInv
    <1>3. OneOwner'
      BY <1>1, Reown DEF HostInv
    <1> QED  BY <1>1, <1>2, <1>3, Zenon DEF HostInv

\* A session's own pointer, and a step of nobody, change nothing of this.
LEMMA Idles ==
    ASSUME HostInv, UNCHANGED <<identity, handle, call, refs, released, boxes>>
    PROVE  HostInv'
    <1>1. Shapes'
      BY DEF HostInv, Shapes, Pointer
    <1>2. \A i \in Identities : Holders(i)' = Holders(i) /\ Alive(i)' = Alive(i)
      BY DEF Holders, Holds, Alive
    <1>3. Counted'
      BY <1>2 DEF HostInv, Counted
    <1>4. OneOwner'
      BY DEF HostInv, OneOwner
    <1> QED  BY <1>1, <1>3, <1>4, SMTT(30) DEF HostInv

\* The steps of one thread.
LEMMA ThreadSteps ==
    ASSUME IsFiniteSet(Pointers), HostInv, NEW p \in Pointers,
           \/ WriteInit(p) \/ WriteInitReturns(p)
           \/ ReadResponse(p) \/ ReadResponseReturns(p) \/ ReadResponseEarly(p)
           \/ ReadInit(p) \/ ReadInitSucceeds(p) \/ ReadInitFails(p)
           \/ WriteResponse(p)
           \/ InitiatorFree(p) \/ ResponderFree(p) \/ SessionFree(p)
    PROVE  HostInv'
    <1>0. /\ handle[p] \in Handshake \cup {Null} /\ call[p] \in Calls \cup {Idle}
          /\ Pointer(p)
          /\ handle \in [Pointers -> Handshake \cup {Null}]
          /\ call \in [Pointers -> Calls \cup {Idle}]
      BY DEF HostInv, Shapes
    <1>r. \A kind \in {"initiator", "responder"} : Ready(p, kind) =>
            /\ handle[p] # Null /\ handle[p] \in Handshake /\ handle[p].of \in Identities
            /\ call[p] = Idle /\ call[p].op = "idle"
      BY <1>0, Distinct DEF Ready, Handshake
    <1>1. CASE WriteInit(p)
      <2> DEFINE i == handle[p].of
      <2>1. /\ handle[p] \in Handshake /\ handle[p] # Null /\ i \in Identities
            /\ call[p].op = "idle" /\ handle[p].kind = "initiator" /\ UNCHANGED handle
            /\ call'[p] = [op |-> "write_init", of |-> i]
            /\ call' = [call EXCEPT ![p] = call'[p]]
        BY <1>0, <1>1, <1>r DEF WriteInit, Ready
      <2>2. call'[p] \in Calls /\ call'[p].op = "write_init" /\ call'[p].of = i
        BY <2>1, KeyCall, Zenon
      <2>3. Pointer(p)'
        BY <1>0, <2>1, <2>2 DEF Pointer
      <2>4. \A j \in Identities : Holds(p, j)' <=> Holds(p, j)
        BY <2>1, <2>2, Zenon DEF Holds
      <2> QED  BY <1>0, <1>1, <2>1, <2>2, <2>3, <2>4, CallStep, Zenon DEF WriteInit
    <1>2. CASE WriteInitReturns(p)
      <2> DEFINE i == handle[p].of
      <2>1. /\ handle[p] \in Handshake /\ handle[p] # Null /\ i \in Identities
            /\ handle[p].kind = "initiator" /\ handle[p].key
            /\ call[p].op = "write_init"
        BY <1>0, <1>2, Distinct DEF WriteInitReturns, Pointer, Handshake
      <2>2. /\ handle'[p] \in {[handle[p] EXCEPT !.stage = "written"],
                               [handle[p] EXCEPT !.failed = TRUE]}
            /\ handle' = [handle EXCEPT ![p] = handle'[p]]
            /\ call'[p] = Idle /\ call' = [call EXCEPT ![p] = call'[p]]
        BY <1>0, <1>2 DEF WriteInitReturns
      <2>3. /\ handle'[p] \in Handshake /\ handle'[p] # Null /\ handle'[p].of = i
            /\ handle'[p].key /\ call'[p].op = "idle"
        BY <2>1, <2>2, Distinct, Zenon DEF Handshake
      <2>4. Pointer(p)'
        BY <2>3, Zenon DEF Pointer
      <2>5. \A j \in Identities : Holds(p, j)' <=> Holds(p, j)
        BY <2>1, <2>3 DEF Holds
      <2> QED  BY <1>2, <2>1, <2>2, <2>3, <2>4, <2>5, CallStep, Zenon DEF WriteInitReturns
    <1>3. CASE ReadResponse(p)
      <2> DEFINE i == handle[p].of
      <2>1. /\ handle[p] \in Handshake /\ handle[p] # Null /\ i \in Identities
            /\ handle[p].key /\ call[p].op = "idle"
        BY <1>0, <1>3, <1>r DEF ReadResponse, Ready, Pointer
      <2>2. /\ handle'[p] = Null /\ handle' = [handle EXCEPT ![p] = handle'[p]]
            /\ call'[p] = [op |-> "read_response", of |-> i, failed |-> handle[p].failed]
            /\ call' = [call EXCEPT ![p] = call'[p]]
        BY <1>0, <1>3 DEF ReadResponse, Take
      <2>3. call'[p] \in Calls /\ call'[p].op = "read_response" /\ call'[p].of = i
        <3>1. handle[p].failed \in BOOLEAN
          BY <2>1, Zenon DEF Handshake
        <3>2. \E b \in BOOLEAN : call'[p] = [op |-> "read_response", of |-> i, failed |-> b]
          BY <2>2, <3>1, Zenon
        <3> QED  BY <2>1, <3>2, ResponseCall, Zenon
      <2>4. Pointer(p)'
        BY <2>2, <2>3, Zenon DEF Pointer
      <2>5. \A j \in Identities : Holds(p, j)' <=> Holds(p, j)
        BY <2>1, <2>2, <2>3, Zenon DEF Holds
      <2> QED  BY <1>3, <2>1, <2>2, <2>3, <2>4, <2>5, CallStep, Zenon DEF ReadResponse
    <1>4. CASE ReadResponseReturns(p)
      <2> DEFINE i == call[p].of
      <2>1. /\ call[p] \in Calls /\ i \in Identities /\ handle[p] = Null
            /\ call[p].op = "read_response" /\ UNCHANGED handle
            /\ call'[p] = Idle /\ call' = [call EXCEPT ![p] = call'[p]]
            /\ Unref(i) /\ boxes' = boxes - 1
        BY <1>0, <1>4, Distinct, Zenon DEF ReadResponseReturns, Pointer
      <2>2. handle'[p] = Null /\ call'[p].op = "idle"
            /\ handle' = [handle EXCEPT ![p] = handle'[p]]
        BY <1>0, <2>1, Distinct, ZenonT(30)
      <2>3. Pointer(p)'
        BY <2>2, Zenon DEF Pointer
      <2>4. \A j \in Identities : ~Holds(p, j)' /\ (Holds(p, j) <=> j = i)
        BY <2>1, <2>2 DEF Holds
      <2> QED  BY <1>4, <2>1, <2>2, <2>3, <2>4, CallStep, Zenon DEF ReadResponseReturns
    <1>5. CASE ReadInit(p)
      <2> DEFINE i == handle[p].of
      <2>1. /\ handle[p] \in Handshake /\ handle[p] # Null /\ i \in Identities
            /\ handle[p].key /\ call[p].op = "idle" /\ handle[p].kind = "responder"
        BY <1>0, <1>5, <1>r DEF ReadInit, Ready, Pointer
      <2>2. /\ handle'[p] = [handle[p] EXCEPT !.key = FALSE]
            /\ handle' = [handle EXCEPT ![p] = handle'[p]]
            /\ call'[p] = [op |-> "read_init", of |-> i]
            /\ call' = [call EXCEPT ![p] = call'[p]]
        BY <1>0, <1>5 DEF ReadInit
      <2>3. /\ call'[p] \in Calls /\ call'[p].op = "read_init" /\ call'[p].of = i
            /\ handle'[p] \in Handshake /\ handle'[p] # Null /\ handle'[p].of = i
            /\ handle'[p].kind = "responder" /\ ~handle'[p].key
        <3>1. call'[p] \in Calls /\ call'[p].op = "read_init" /\ call'[p].of = i
          BY <2>1, <2>2 DEF Calls
        <3>2. handle'[p] \in Handshake /\ handle'[p].of = i /\ handle'[p].kind = "responder"
          BY <2>1, <2>2, Zenon DEF Handshake
        <3>3. handle'[p].key = FALSE
          BY <2>1, <2>2 DEF Handshake
        <3> QED  BY <3>1, <3>2, <3>3, Distinct, Zenon
      <2>4. Pointer(p)'
        BY <2>3, ZenonT(30) DEF Pointer
      <2>5. \A j \in Identities : Holds(p, j)' <=> Holds(p, j)
        BY <2>1, <2>3, Zenon DEF Holds
      <2> QED  BY <1>5, <2>1, <2>2, <2>3, <2>4, <2>5, CallStep, Zenon DEF ReadInit
    <1>6. CASE ReadInitSucceeds(p)
      <2> DEFINE i == call[p].of
      <2>1. /\ call[p] \in Calls /\ i \in Identities /\ call[p].op = "read_init"
            /\ handle[p] \in Handshake /\ handle[p].of = i /\ ~handle[p].key
            /\ handle[p] # Null
        BY <1>0, <1>6, Distinct DEF ReadInitSucceeds, Pointer
      <2>2. /\ handle'[p] = [handle[p] EXCEPT !.key = TRUE, !.stage = "read"]
            /\ handle' = [handle EXCEPT ![p] = handle'[p]]
            /\ call'[p] = Idle /\ call' = [call EXCEPT ![p] = call'[p]]
        BY <1>0, <1>6, Zenon DEF ReadInitSucceeds
      <2>3. /\ handle'[p] \in Handshake /\ handle'[p] # Null /\ handle'[p].of = i
            /\ handle'[p].key /\ call'[p].op = "idle"
        BY <2>1, <2>2, Distinct, Zenon DEF Handshake
      <2>4. Pointer(p)'
        BY <2>3, Zenon DEF Pointer
      <2>5. \A j \in Identities : Holds(p, j)' <=> Holds(p, j)
        BY <2>1, <2>3, Zenon DEF Holds
      <2> QED  BY <1>6, <2>1, <2>2, <2>3, <2>4, <2>5, CallStep, Zenon DEF ReadInitSucceeds
    <1>7. CASE ReadInitFails(p)
      <2> DEFINE i == call[p].of
      <2>1. /\ call[p] \in Calls /\ i \in Identities /\ call[p].op = "read_init"
            /\ handle[p] \in Handshake /\ handle[p].of = i /\ ~handle[p].key
            /\ handle[p] # Null /\ handle[p].kind = "responder" /\ Unref(i)
        BY <1>0, <1>7, Distinct, Zenon DEF ReadInitFails, Pointer
      <2>2. PICK byKey \in BOOLEAN :
               /\ handle'[p] = [handle[p] EXCEPT !.stage = "spent", !.failed = byKey]
               /\ handle' = [handle EXCEPT ![p] = handle'[p]]
        BY <1>0, <1>7, ZenonT(30) DEF ReadInitFails
      <2>3. call'[p] = Idle /\ call' = [call EXCEPT ![p] = call'[p]]
        BY <1>0, <1>7, Zenon DEF ReadInitFails
      <2>4. /\ handle'[p] \in Handshake /\ handle'[p] # Null /\ handle'[p].kind = "responder"
            /\ ~handle'[p].key /\ handle'[p].stage = "spent" /\ call'[p].op = "idle"
        BY <2>1, <2>2, <2>3, Distinct, Zenon DEF Handshake
      <2>5. Pointer(p)'
        BY <2>4, Zenon DEF Pointer
      <2>6. \A j \in Identities : ~Holds(p, j)' /\ (Holds(p, j) <=> j = i)
        BY <2>1, <2>4, Zenon DEF Holds
      <2> QED  BY <1>7, <2>1, <2>2, <2>3, <2>4, <2>5, <2>6, CallStep, ZenonT(30) DEF ReadInitFails
    <1>8. CASE ReadResponseEarly(p)
      BY <1>8, <1>r, DropStep, Zenon DEF ReadResponseEarly, Take
    <1>9. CASE WriteResponse(p)
      BY <1>9, <1>r, DropStep, Zenon DEF WriteResponse, Take
    <1>10. CASE InitiatorFree(p) \/ ResponderFree(p)
      BY <1>10, <1>r, DropStep, Zenon DEF InitiatorFree, ResponderFree, HandshakeFree
    <1>11. CASE SessionFree(p)
      <2>1. UNCHANGED <<identity, handle, call, refs, released, boxes>>
        BY <1>11 DEF SessionFree
      <2> QED  BY <2>1, Idles
    <1> QED  BY <1>1, <1>2, <1>3, <1>4, <1>5, <1>6, <1>7, <1>8, <1>9, <1>10, <1>11

\* The invariant holds throughout, as every step keeps it.
LEMMA HostInvHolds == HostSpec => []HostInv
    <1> IsFiniteSet(Pointers)
      BY HandlesAssumption
    <1>1. HostInit => HostInv
      <2> SUFFICES ASSUME HostInit PROVE HostInv
        OBVIOUS
      <2>1. \A p \in Pointers : /\ handle[p] = Null /\ call[p] = Idle
                                /\ call[p].op = "idle"
        BY Distinct DEF HostInit
      <2>2. Shapes
        BY <2>1 DEF HostInit, Shapes, Pointer
      <2>3. \A i \in Identities : Holders(i) = {} /\ Alive(i) = 0
        BY <2>1 DEF HostInit, Holders, Holds, Alive
      <2>4. Cardinality({}) = 0
        BY FS_EmptySet
      <2>5. Counted
        BY <2>3, <2>4 DEF HostInit, Counted
      <2>6. /\ {p \in Pointers : handle[p] # Null} = {}
            /\ {p \in Pointers : call[p].op = "read_response"} = {}
        BY <2>1
      <2>7. OneOwner
        <3>1. /\ Cardinality({p \in Pointers : handle[p] # Null}) = 0
              /\ Cardinality({p \in Pointers : call[p].op = "read_response"}) = 0
              /\ boxes = 0
          BY <2>4, <2>6, Zenon DEF HostInit
        <3> QED  BY <3>1 DEF OneOwner
      <2> QED  BY <2>2, <2>5, <2>7 DEF HostInv
    <1>2. HostInv /\ [HostNext]_host => HostInv'
      <2> SUFFICES ASSUME HostInv, [HostNext]_host PROVE HostInv'
        OBVIOUS
      <2>1. CASE \E i \in Identities : IdentityFromKey(i) \/ IdentityFree(i)
        BY <2>1, IdentitySteps
      <2>2. CASE \E p \in Pointers, i \in Identities : InitiatorNew(p, i) \/ ResponderNew(p, i)
        BY <2>2, BeginStep DEF InitiatorNew, ResponderNew
      <2>3. CASE \E p \in Pointers :
                    \/ WriteInit(p) \/ WriteInitReturns(p)
                    \/ ReadResponse(p) \/ ReadResponseReturns(p) \/ ReadResponseEarly(p)
                    \/ ReadInit(p) \/ ReadInitSucceeds(p) \/ ReadInitFails(p)
                    \/ WriteResponse(p)
                    \/ InitiatorFree(p) \/ ResponderFree(p) \/ SessionFree(p)
        BY <2>3, ThreadSteps
      <2>4. CASE UNCHANGED host
        BY <2>4, Idles DEF host
      <2> QED  BY <2>1, <2>2, <2>3, <2>4 DEF HostNext
    <1> QED  BY <1>1, <1>2, PTL DEF HostSpec

-----------------------------------------------------------------------------
(* What follows from it.                                                   *)

\* A pointer is null or points at a handshake, and no count goes negative: the
\* Arc's count of references and the handshakes in memory.
THEOREM HostTypeCorrect == HostSpec => []HostTypeOK
    <1> IsFiniteSet(Pointers)
      BY HandlesAssumption
    <1>1. HostInv => HostTypeOK
      <2> SUFFICES ASSUME HostInv PROVE HostTypeOK
        OBVIOUS
      <2>1. \A p \in Pointers :
               /\ handle[p] = Null \/ handle[p] \in Handshake
               /\ call[p].op \in {"idle", "write_init", "read_init", "read_response"}
        BY Distinct DEF HostInv, Shapes, Calls
      <2>2. Owned \in SUBSET Pointers /\ InCall \in SUBSET Pointers
        BY DEF Owned, InCall
      <2>3. IsFiniteSet(Owned) /\ IsFiniteSet(InCall)
        BY <2>2, FS_Subset
      <2>4. Cardinality(Owned) \in Nat /\ Cardinality(InCall) \in Nat
        BY <2>3, FS_CardinalityType
      <2>5. boxes \in Nat
        BY <2>4 DEF HostInv, OneOwner, Owned, InCall
      <2> QED  BY <2>1, <2>5 DEF HostInv, Shapes, Counted, HostTypeOK
    <1> QED  BY <1>1, HostInvHolds, PTL

\* The host is told to let go of a key once, never while a call uses it and as
\* soon as the identity is freed and every handshake begun from it consumed,
\* whatever the order in which its threads call the interface
\* (fectp_identity_from_key, Element::drop).
THEOREM ReleasedOnceAndInTime == HostSpec => []ReleasedOnce
    <1> IsFiniteSet(Pointers)
      BY HandlesAssumption
    <1>1. HostInv => ReleasedOnce
      <2> SUFFICES ASSUME HostInv PROVE ReleasedOnce
        OBVIOUS
      <2>0. \A i \in Identities : Holders(i) \in SUBSET Pointers /\ IsFiniteSet(Holders(i))
        BY FS_Subset DEF Holders
      <2>1. \A i \in Identities : /\ Cardinality(Holders(i)) \in Nat
                                  /\ Cardinality(Holders(i)) = 0 <=> Holders(i) = {}
        BY <2>0, FS_CardinalityType, FS_EmptySet
      <2>2. ASSUME NEW p \in Pointers, call[p] # Idle
            PROVE  released[call[p].of] = 0
        <3> DEFINE i == call[p].of
        <3>1. call[p] \in Calls /\ i \in Identities /\ Pointer(p)
          BY <2>2, Distinct DEF HostInv, Shapes
        <3>2. call[p].op \in {"write_init", "read_init", "read_response"}
          BY <3>1 DEF Calls
        <3>3. Holds(p, i)
          BY <3>1, <3>2 DEF Holds, Pointer
        <3>4. Holders(i) # {}
          BY <3>3 DEF Holders
        <3>5. refs[i] # 0
          BY <2>1, <3>1, <3>4 DEF HostInv, Counted, Alive
        <3> QED  BY <3>1, <3>5 DEF HostInv, Counted
      <2>3. \A i \in Identities : released[i] <= 1
        BY DEF HostInv, Counted
      <2>4. ASSUME NEW i \in Identities, identity[i] = "freed",
                   \A p \in Pointers : /\ handle[p] # Null => handle[p].of # i
                                       /\ call[p] # Idle => call[p].of # i
            PROVE  released[i] = 1
        <3>1. \A p \in Pointers : ~Holds(p, i)
          BY <2>4, Distinct DEF Holds
        <3>2. Holders(i) = {} /\ Alive(i) = 0
          BY <2>4, <3>1 DEF Holders, Alive
        <3>3. refs[i] = 0
          BY <2>1, <3>2 DEF HostInv, Counted
        <3> QED  BY <2>4, <3>3 DEF HostInv, Counted
      <2> QED  BY <2>2, <2>3, <2>4 DEF ReleasedOnce
    <1> QED  BY <1>1, HostInvHolds, PTL

\* A handshake in memory belongs to one pointer of the host's or to the call that
\* has taken it back, so that none is freed twice or leaked (read_response,
\* write_response).
THEOREM HandshakesHaveOneOwner == HostSpec => []OneOwner
    <1>1. HostInv => OneOwner
      BY DEF HostInv
    <1> QED  BY <1>1, HostInvHolds, PTL
=============================================================================

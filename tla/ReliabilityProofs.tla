-------------------------- MODULE ReliabilityProofs --------------------------
(***************************************************************************)
(* Proofs about Reliability, for every window size, identifier space,      *)
(* number of messages and retry limit the assumption there allows.         *)
(***************************************************************************)
EXTENDS Reliability, TLAPS

-----------------------------------------------------------------------------
(* Arithmetic of wrapping identifiers.                                     *)

\* next_id moves one further from every identifier it has not gone all the way
\* round to.
LEMMA SuccDistance ==
    ASSUME NEW a \in Id, NEW b \in Id, WrappingSub(a, b) < IdSpace - 1
    PROVE  WrappingSub(WrappingSucc(a), b) = WrappingSub(a, b) + 1
  BY ConstantsAssumption DEF WrappingSub, WrappingSucc, Id, IdSpace

\* An identifier is one behind its successor, which is an identifier too.
LEMMA SuccSelf ==
    ASSUME NEW a \in Id
    PROVE  /\ WrappingSucc(a) \in Id
           /\ WrappingSub(WrappingSucc(a), a) = 1
  BY ConstantsAssumption DEF WrappingSub, WrappingSucc, Id, IdSpace

\* Two identifiers less than half the space behind a third are compared by
\* their distances to it; WrappingSub tells which is the later.
LEMMA DistanceBetween ==
    ASSUME NEW x \in Id, NEW a \in Id, NEW b \in Id,
           NEW p \in 1 .. HalfSpace, NEW q \in 1 .. HalfSpace,
           WrappingSub(x, a) = p, WrappingSub(x, b) = q
    PROVE  /\ p <= q => WrappingSub(a, b) = q - p
           /\ q < p => WrappingSub(a, b) = q - p + IdSpace
           /\ a = b <=> p = q
           /\ IsNewer(a, b) <=> p < q
  BY ConstantsAssumption DEF WrappingSub, IsNewer, Id, IdSpace

-----------------------------------------------------------------------------
(* The inductive invariant.                                                *)

\* Message n was sent under id, at most limit messages ago.
Names(id, n, limit) ==
    /\ 1 <= nextN - n /\ nextN - n <= limit
    /\ WrappingSub(nextId, id) = nextN - n

SlotsInv ==
    /\ \A m \in slots : Names(m.id, m.n, AckWindow) /\ status[m.n] = "inflight"
    /\ \A m1, m2 \in slots : m1.n = m2.n => m1 = m2

StatusInv == \A n \in Msg : status[n] = "unsent" <=> nextN <= n

FramesInv == \A f \in frames : Names(f.id, f.n, Lifetime)

\* What a highest identifier and a bitmap report has been delivered.
Truthful(highest, bitmap, top) ==
    /\ top \in Msg
    /\ Names(highest, top, Lifetime)
    /\ delivered[top] = 1
    /\ \A d \in bitmap : top - d \in Msg /\ delivered[top - d] = 1

AcksInv == \A a \in acks : Truthful(a.highest, a.bitmap, a.top)

\* What has been delivered is in the window, or below it.
DedupInv ==
    /\ dedup.started => Truthful(dedup.highest, dedup.bitmap, dedup.top)
    /\ ~dedup.started => dedup.bitmap = {}
    /\ \A n \in Msg : delivered[n] # 0 =>
          /\ dedup.started
          /\ n <= dedup.top
          /\ n = dedup.top \/ dedup.top - n > AckWindow \/ dedup.top - n \in dedup.bitmap

IInv ==
    /\ TypeOK
    /\ SlotsInv
    /\ StatusInv
    /\ FramesInv
    /\ AcksInv
    /\ DedupInv
    /\ AtMostOnce
    /\ AckedWasDelivered

\* A new queue and window satisfy the invariant.
LEMMA InitIInv == Init => IInv
  <1> SUFFICES ASSUME Init PROVE IInv
    OBVIOUS
  <1>1. TypeOK
    BY ConstantsAssumption
    DEF Init, TypeOK, Id, IdSpace, Slot, Frame, Ack, Dedup, Bitmap, Statuses
  <1>2. SlotsInv /\ StatusInv /\ FramesInv /\ AcksInv
    BY DEF Init, SlotsInv, StatusInv, FramesInv, AcksInv, Msg
  <1>3. DedupInv /\ AtMostOnce /\ AckedWasDelivered
    BY DEF Init, DedupInv, AtMostOnce, AckedWasDelivered
  <1> QED BY <1>1, <1>2, <1>3 DEF IInv

-----------------------------------------------------------------------------
(* Each action preserves the invariant.                                    *)

\* register keeps every variable in its range.
LEMMA SendTypeOK == TypeOK /\ Send => TypeOK'
  <1> SUFFICES ASSUME TypeOK, Send PROVE TypeOK'
    OBVIOUS
  <1> USE ConstantsAssumption DEF TypeOK, Send
  <1>1. nextId' \in Id /\ nextN' \in 0 .. MaxMessages /\ nextN \in Msg
    BY SuccSelf DEF Msg
  <1>2. slots' \subseteq Slot
    BY <1>1 DEF Slot, Retries
  <1>3. frames' \subseteq Frame
    BY <1>1 DEF Frame
  <1>4. status' \in [Msg -> Statuses]
    BY <1>1 DEF Statuses
  <1> QED BY <1>1, <1>2, <1>3, <1>4

\* After a send every name is still good: its message is one further back, and
\* so is its identifier.
LEMMA SendNames ==
    ASSUME TypeOK, Send, NEW id \in Id, NEW n \in Msg, NEW limit \in 0 .. Lifetime,
           Names(id, n, Lifetime), nextN + 1 - n <= limit
    PROVE  Names(id, n, limit)'
  <1>1. WrappingSub(nextId, id) < IdSpace - 1
    BY ConstantsAssumption DEF TypeOK, Names, IdSpace, Msg
  <1>2. WrappingSub(nextId', id) = nextN' - n
    BY <1>1, SuccDistance DEF Names, Send, TypeOK, Msg
  <1> QED BY <1>2 DEF Names, Send, TypeOK, Msg

\* register, and the datagrams that become too old for the path, preserve
\* the invariant.
LEMMA SendIInv == IInv /\ Send => IInv'
  <1> SUFFICES ASSUME IInv, Send PROVE IInv'
    OBVIOUS
  <1> USE ConstantsAssumption DEF IInv
  <1>1. TypeOK'
    BY SendTypeOK
  <1>2. nextN \in Msg /\ nextId \in Id /\ nextN' = nextN + 1
    BY DEF TypeOK, Send, Msg
  <1>3. ASSUME NEW id, id = nextId, NEW n, n = nextN
        PROVE  Names(id, n, AckWindow)' /\ Names(id, n, Lifetime)'
    BY <1>2, <1>3, SuccSelf DEF Names, Send, Msg
  <1>4. SlotsInv'
    <2>1. ASSUME NEW m \in slots
          PROVE  Names(m.id, m.n, AckWindow)' /\ m.n # nextN /\ status'[m.n] = "inflight"
      <3>1. m.id \in Id /\ m.n \in Msg
        BY <2>1 DEF TypeOK, Slot
      <3>2. Names(m.id, m.n, Lifetime) /\ nextN + 1 - m.n <= AckWindow
        BY <2>1, <3>1 DEF SlotsInv, Names, Send, MayRegister, TypeOK, Msg
      <3>3. Names(m.id, m.n, AckWindow)'
        BY <3>1, <3>2, SendNames
      <3>4. m.n # nextN
        BY <3>1, <3>2 DEF Names, TypeOK, Msg
      <3> QED BY <2>1, <3>1, <3>3, <3>4 DEF SlotsInv, Send, TypeOK
    <2>2. status'[nextN] = "inflight"
      BY <1>2 DEF Send, TypeOK
    <2> QED BY <1>3, <2>1, <2>2 DEF SlotsInv, Send
  <1>5. StatusInv'
    BY <1>2 DEF StatusInv, Send, TypeOK, Msg
  <1>6. FramesInv'
    <2>1. ASSUME NEW f \in frames, InReach(f.n) PROVE Names(f.id, f.n, Lifetime)'
      <3>1. f.id \in Id /\ f.n \in Msg /\ Names(f.id, f.n, Lifetime)
        BY <2>1 DEF TypeOK, Frame, FramesInv
      <3> QED BY <2>1, <3>1, SendNames DEF InReach
    <2> QED BY <1>3, <2>1 DEF FramesInv, Send
  <1>7. ASSUME NEW highest \in Id, NEW bitmap \in Bitmap, NEW top \in Msg,
               Truthful(highest, bitmap, top), InReach(top)
        PROVE  Truthful(highest, bitmap, top)'
    <2>1. Names(highest, top, Lifetime)'
      BY <1>7, SendNames DEF InReach, Truthful
    <2> QED BY <1>7, <2>1 DEF Truthful, Send
  <1>8. AcksInv'
    BY <1>7 DEF AcksInv, Send, TypeOK, Ack
  <1>9. DedupInv'
    <2>1. dedup.started => Truthful(dedup.highest, dedup.bitmap, dedup.top)'
      BY <1>7 DEF DedupInv, Send, PathIsAlive, TypeOK, Dedup, Truthful
    <2> QED BY <2>1 DEF DedupInv, Send, Truthful
  <1>10. AtMostOnce' /\ AckedWasDelivered'
    BY <1>2 DEF AtMostOnce, AckedWasDelivered, Send, TypeOK
  <1> QED BY <1>1, <1>4, <1>5, <1>6, <1>8, <1>9, <1>10

\* A frame the receiver takes as new carries a message it has not handed on.
LEMMA NewIsUndelivered ==
    ASSUME IInv, NEW f \in frames, IsNew(dedup, f.id)
    PROVE  delivered[f.n] = 0
  <1>1. f.id \in Id /\ f.n \in Msg /\ Names(f.id, f.n, Lifetime)
    BY DEF IInv, TypeOK, Frame, FramesInv
  <1>2. CASE ~dedup.started
    BY <1>1, <1>2 DEF IInv, DedupInv, TypeOK
  <1>3. CASE dedup.started
    <2>1. dedup.highest \in Id /\ dedup.top \in Msg /\ Names(dedup.highest, dedup.top, Lifetime)
      BY <1>3 DEF IInv, DedupInv, Truthful, TypeOK, Dedup
    <2>2. /\ IsNewer(f.id, dedup.highest) <=> f.n > dedup.top
          /\ f.n <= dedup.top => WrappingSub(dedup.highest, f.id) = dedup.top - f.n
          /\ f.id = dedup.highest <=> f.n = dedup.top
      <3> DEFINE p == nextN - f.n
                 q == nextN - dedup.top
      <3>1. p \in 1 .. HalfSpace /\ q \in 1 .. HalfSpace /\ nextId \in Id
        BY <1>1, <2>1, ConstantsAssumption DEF Names, IInv, TypeOK, Msg
      <3>2. /\ IsNewer(f.id, dedup.highest) <=> p < q
            /\ q <= p => WrappingSub(dedup.highest, f.id) = p - q
            /\ f.id = dedup.highest <=> p = q
        BY <1>1, <2>1, <3>1, DistanceBetween DEF Names
      <3> QED BY <1>1, <2>1, <3>2 DEF IInv, TypeOK, Msg
    <2>3. ASSUME delivered[f.n] # 0 PROVE FALSE
      <3>1. f.n <= dedup.top
        BY <1>1, <2>3 DEF IInv, DedupInv
      <3>2. f.n # dedup.top /\ dedup.top - f.n <= AckWindow /\ dedup.top - f.n \notin dedup.bitmap
        BY <1>1, <1>3, <2>1, <2>2, <3>1 DEF IsNew, Msg
      <3>3. f.n = dedup.top \/ dedup.top - f.n > AckWindow \/ dedup.top - f.n \in dedup.bitmap
        BY <1>1, <2>3 DEF IInv, DedupInv
      <3> QED BY <1>1, <2>1, <3>2, <3>3, ConstantsAssumption DEF Msg
    <2> QED BY <2>3
  <1> QED BY <1>2, <1>3

\* A data frame arriving, new or repeated, preserves the invariant.
LEMMA ReceiveIInv == ASSUME IInv, NEW f \in frames, Receive(f) PROVE IInv'
  <1> USE ConstantsAssumption DEF IInv
  <1>1. /\ f.id \in Id /\ f.n \in Msg /\ Names(f.id, f.n, Lifetime)
        /\ nextId \in Id /\ nextN \in Nat
    BY DEF TypeOK, Frame, FramesInv
  <1>2. /\ delivered' \in [Msg -> Nat]
        /\ \A n \in Msg : delivered'[n] <= 1
        /\ \A n \in Msg : delivered[n] = 1 => delivered'[n] = 1
        /\ \A n \in Msg : n # f.n => delivered'[n] = delivered[n]
        /\ IsNew(dedup, f.id) => delivered'[f.n] = 1
        /\ ~IsNew(dedup, f.id) => delivered' = delivered
    BY <1>1, NewIsUndelivered DEF Receive, TypeOK, AtMostOnce
  <1>3. UNCHANGED <<nextId, nextN, slots, window, maxRetries, status, frames>>
    BY DEF Receive, senderVars
  <1>4. ASSUME NEW highest, NEW bitmap, NEW top, Truthful(highest, bitmap, top)
        PROVE  Truthful(highest, bitmap, top)'
    BY <1>2, <1>3, <1>4 DEF Truthful, Names
  <1>5. dedup' \in Dedup /\ dedup'.started
    <2>1. dedup \in Dedup /\ dedup' = Accept(dedup, f.id, f.n) /\ f.n \in Nat
      BY <1>1 DEF Receive, TypeOK, Msg
    <2>2. CASE ~dedup.started
      BY <1>1, <2>1, <2>2 DEF Accept, Dedup
    <2>3. CASE dedup.started /\ IsNewer(f.id, dedup.highest)
      <3>1. Slide(dedup.bitmap, WrappingSub(f.id, dedup.highest)) \in Bitmap
        BY DEF Slide, Bitmap
      <3> QED BY <1>1, <2>1, <2>3, <3>1 DEF Accept, Dedup
    <2>4. CASE dedup.started /\ ~IsNewer(f.id, dedup.highest) /\ IsNew(dedup, f.id)
      <3>1. WrappingSub(dedup.highest, f.id) \in 1 .. AckWindow
        BY <1>1, <2>1, <2>4 DEF IsNew, WrappingSub, Dedup, Id, IdSpace
      <3> QED BY <1>1, <2>1, <2>4, <3>1 DEF Accept, Dedup, Bitmap
    <2>5. CASE dedup.started /\ ~IsNew(dedup, f.id)
      BY <2>1, <2>5 DEF Accept, IsNew
    <2> QED BY <2>2, <2>3, <2>4, <2>5
  <1>6. DedupInv' /\ Truthful(dedup.highest, dedup.bitmap, dedup.top)'
    <2>1. CASE ~dedup.started
      <3>1. /\ dedup'.highest = f.id /\ dedup'.bitmap = {} /\ dedup'.top = f.n
            /\ IsNew(dedup, f.id)
        BY <2>1 DEF Receive, Accept, TypeOK, Dedup, DedupInv, IsNew
      <3>2. \A n \in Msg : n # f.n => delivered'[n] = 0
        BY <2>1, <1>2 DEF DedupInv, TypeOK
      <3> QED BY <1>1, <1>2, <1>3, <1>5, <3>1, <3>2 DEF DedupInv, Truthful, Names, Msg
    <2>2. CASE dedup.started /\ IsNewer(f.id, dedup.highest)
      <3>1. /\ dedup.highest \in Id /\ dedup.top \in Msg
            /\ Truthful(dedup.highest, dedup.bitmap, dedup.top)
            /\ Names(dedup.highest, dedup.top, Lifetime)
        BY <2>2 DEF DedupInv, Truthful, TypeOK, Dedup
      <3>2. f.n > dedup.top /\ WrappingSub(f.id, dedup.highest) = f.n - dedup.top
        <4> DEFINE p == nextN - f.n
                   q == nextN - dedup.top
        <4>1. p \in 1 .. HalfSpace /\ q \in 1 .. HalfSpace
          BY <1>1, <3>1 DEF Names, Msg
        <4>2. p < q /\ WrappingSub(f.id, dedup.highest) = q - p
          BY <1>1, <2>2, <3>1, <4>1, DistanceBetween DEF Names
        <4> QED BY <1>1, <3>1, <4>2 DEF Msg
      <3>3. /\ dedup'.highest = f.id /\ dedup'.top = f.n
            /\ dedup'.bitmap = Slide(dedup.bitmap, f.n - dedup.top)
            /\ IsNew(dedup, f.id)
        BY <2>2, <3>2 DEF Receive, Accept, TypeOK, Dedup, IsNew
      <3>4. Truthful(f.id, dedup.bitmap, f.n)'
        <4>1. \A d \in dedup'.bitmap : f.n - d \in Msg /\ delivered'[f.n - d] = 1
          <5> SUFFICES ASSUME NEW d \in dedup'.bitmap
                       PROVE  f.n - d \in Msg /\ delivered'[f.n - d] = 1
            OBVIOUS
          <5>1. d \in 1 .. AckWindow /\
                (d = f.n - dedup.top \/ d - (f.n - dedup.top) \in dedup.bitmap)
            BY <3>3 DEF Slide
          <5>2. CASE d = f.n - dedup.top
            BY <1>1, <1>2, <3>1, <5>2 DEF Truthful, Msg
          <5>3. CASE d - (f.n - dedup.top) \in dedup.bitmap
            <6> DEFINE e == d - (f.n - dedup.top)
            <6>1. dedup.top - e \in Msg /\ delivered[dedup.top - e] = 1
              BY <3>1, <5>3 DEF Truthful
            <6>2. dedup.top - e = f.n - d
              BY <1>1, <3>1, <5>1 DEF Msg
            <6> QED BY <1>2, <6>1, <6>2
          <5> QED BY <5>1, <5>2, <5>3
        <4> QED BY <1>1, <1>2, <1>3, <3>3, <4>1 DEF Truthful, Names
      <3>5. ASSUME NEW n \in Msg, delivered'[n] # 0
            PROVE  n <= f.n /\ (n = f.n \/ f.n - n > AckWindow \/ f.n - n \in dedup'.bitmap)
        <4>1. CASE n = f.n
          BY <1>1, <4>1 DEF Msg
        <4>2. CASE n # f.n
          <5>1. /\ n <= dedup.top
                /\ n = dedup.top \/ dedup.top - n > AckWindow \/ dedup.top - n \in dedup.bitmap
            BY <1>2, <3>5, <4>2 DEF DedupInv
          <5>2. n < f.n
            BY <1>1, <3>1, <3>2, <5>1 DEF Msg
          <5>3. ASSUME f.n - n <= AckWindow PROVE f.n - n \in dedup'.bitmap
            <6> DEFINE shift == f.n - dedup.top
            <6>1. f.n \in Nat /\ n \in Nat /\ dedup.top \in Nat
              BY <1>1, <3>1 DEF Msg
            <6>2. f.n - n \in 1 .. AckWindow /\ shift <= AckWindow
              BY <3>2, <5>1, <5>2, <5>3, <6>1
            <6>3. f.n - n = shift \/ (f.n - n) - shift \in dedup.bitmap
              <7>1. CASE n = dedup.top
                BY <7>1
              <7>2. CASE dedup.top - n \in dedup.bitmap
                <8>1. (f.n - n) - shift = dedup.top - n
                  BY <6>1
                <8> QED BY <7>2, <8>1
              <7> QED BY <3>2, <5>1, <5>3, <6>1, <7>1, <7>2
            <6> QED BY <3>3, <6>1, <6>2, <6>3 DEF Slide
          <5> QED BY <1>1, <5>2, <5>3 DEF Msg
        <4> QED BY <4>1, <4>2
      <3> QED BY <1>5, <3>3, <3>4, <3>5 DEF DedupInv, Truthful, Names
    <2>3. CASE dedup.started /\ ~IsNewer(f.id, dedup.highest) /\ IsNew(dedup, f.id)
      <3>1. /\ dedup.highest \in Id /\ dedup.top \in Msg
            /\ Truthful(dedup.highest, dedup.bitmap, dedup.top)
            /\ Names(dedup.highest, dedup.top, Lifetime)
        BY <2>3 DEF DedupInv, Truthful, TypeOK, Dedup
      <3>2. f.n < dedup.top /\ WrappingSub(dedup.highest, f.id) = dedup.top - f.n
        <4> DEFINE p == nextN - f.n
                   q == nextN - dedup.top
        <4>1. p \in 1 .. HalfSpace /\ q \in 1 .. HalfSpace
          BY <1>1, <3>1 DEF Names, Msg
        <4>2. ~(p < q) /\ f.id # dedup.highest /\ (f.id = dedup.highest <=> p = q)
          BY <1>1, <2>3, <3>1, <4>1, DistanceBetween DEF Names, IsNew
        <4>3. q < p /\ WrappingSub(dedup.highest, f.id) = p - q
          BY <1>1, <3>1, <4>1, <4>2, DistanceBetween DEF Names
        <4> QED BY <1>1, <3>1, <4>3 DEF Msg
      <3>3. /\ dedup'.highest = dedup.highest /\ dedup'.top = dedup.top
            /\ dedup'.bitmap = dedup.bitmap \cup {dedup.top - f.n}
        BY <2>3, <3>2 DEF Receive, Accept, TypeOK, Dedup
      <3>4. Truthful(dedup.highest, dedup.bitmap, dedup.top)'
        <4>1. dedup.top - (dedup.top - f.n) = f.n
          BY <1>1, <3>1 DEF Msg
        <4> QED BY <1>1, <1>2, <1>3, <2>3, <3>1, <3>3, <4>1 DEF Truthful, Names
      <3>5. ASSUME NEW n \in Msg, delivered'[n] # 0
            PROVE  /\ n <= dedup.top
                   /\ n = dedup.top \/ dedup.top - n > AckWindow \/ dedup.top - n \in dedup'.bitmap
        <4>1. CASE n = f.n
          BY <1>1, <3>1, <3>2, <3>3, <4>1 DEF Msg
        <4>2. CASE n # f.n
          BY <1>2, <3>3, <3>5, <4>2 DEF DedupInv
        <4> QED BY <4>1, <4>2
      <3> QED BY <1>5, <3>3, <3>4, <3>5 DEF DedupInv
    <2>4. CASE ~IsNew(dedup, f.id)
      <3>1. dedup' = dedup /\ delivered' = delivered /\ dedup.started
        BY <1>2, <2>4 DEF Receive, Accept, IsNew
      <3> QED BY <1>3, <3>1 DEF DedupInv, Truthful, Names
    <2> QED BY <2>1, <2>2, <2>3, <2>4
  <1>7. acks' \subseteq Ack /\ AcksInv'
    <2>1. ToAck(dedup') \in Ack
      BY <1>5, <1>6 DEF ToAck, Ack, Dedup, Truthful
    <2>2. acks' = acks \cup {ToAck(dedup')}
      BY DEF Receive
    <2> QED BY <1>4, <1>6, <2>1, <2>2 DEF AcksInv, TypeOK, ToAck
  <1>8. TypeOK'
    BY <1>2, <1>3, <1>5, <1>7 DEF TypeOK
  <1>9. SlotsInv' /\ StatusInv' /\ FramesInv'
    BY <1>3 DEF SlotsInv, StatusInv, FramesInv, Names
  <1>10. AtMostOnce' /\ AckedWasDelivered'
    BY <1>2, <1>3 DEF AtMostOnce, AckedWasDelivered
  <1> QED BY <1>6, <1>7, <1>8, <1>9, <1>10

\* What an acknowledgement covers, of the messages outstanding, was delivered.
LEMMA CoveredIsDelivered ==
    ASSUME IInv, NEW ack \in acks, NEW m \in slots, Covers(ack, m.id)
    PROVE  delivered[m.n] = 1
  <1> DEFINE p == nextN - ack.top
             q == nextN - m.n
  <1>1. /\ m.id \in Id /\ m.n \in Msg /\ Names(m.id, m.n, AckWindow)
        /\ ack.highest \in Id /\ ack.bitmap \in Bitmap /\ nextId \in Id /\ nextN \in Nat
        /\ Truthful(ack.highest, ack.bitmap, ack.top)
    BY DEF IInv, TypeOK, Slot, Ack, SlotsInv, AcksInv
  <1>2. ack.top \in Nat /\ m.n \in Nat /\ Names(ack.highest, ack.top, Lifetime)
    BY <1>1 DEF Truthful, Msg
  <1>3. p \in 1 .. HalfSpace /\ q \in 1 .. HalfSpace
    BY <1>1, <1>2, ConstantsAssumption DEF Names
  <1>4. /\ p <= q => WrappingSub(ack.highest, m.id) = q - p
        /\ q < p => WrappingSub(ack.highest, m.id) = q - p + IdSpace
        /\ ack.highest = m.id <=> p = q
    BY <1>1, <1>2, <1>3, DistanceBetween DEF Names
  <1>5. CASE m.id = ack.highest
    <2>1. m.n = ack.top
      BY <1>1, <1>2, <1>4, <1>5
    <2> QED BY <1>1, <2>1 DEF Truthful
  <1>6. CASE WrappingSub(ack.highest, m.id) \in ack.bitmap
    <2>1. p <= q
      <3>1. WrappingSub(ack.highest, m.id) \in 1 .. AckWindow
        BY <1>1, <1>6 DEF Bitmap
      <3>2. q - p + IdSpace > AckWindow
        BY <1>1, <1>2, <1>3, ConstantsAssumption DEF Names, IdSpace
      <3> HIDE DEF p, q
      <3> QED BY <1>3, <1>4, <3>1, <3>2, ConstantsAssumption
    <2>2. WrappingSub(ack.highest, m.id) = ack.top - m.n
      BY <1>1, <1>2, <1>4, <2>1
    <2>3. ack.top - (ack.top - m.n) = m.n
      BY <1>2
    <2> QED BY <1>1, <1>6, <2>2, <2>3 DEF Truthful
  <1> QED BY <1>5, <1>6 DEF Covers

\* An acknowledgement arriving, however late, preserves the invariant.
LEMMA OnAckIInv == ASSUME IInv, NEW ack \in acks, OnAck(ack) PROVE IInv'
  <1> DEFINE done == {m \in slots : Covers(ack, m.id)}
  <1> USE DEF IInv
  <1>1. /\ UNCHANGED <<nextId, nextN, maxRetries, dedup, frames, acks, delivered>>
        /\ slots' = slots \ done
        /\ status' = [n \in Msg |-> IF \E m \in done : m.n = n THEN "acked" ELSE status[n]]
    BY DEF OnAck
  <1>2. window' \in 1 .. MaxInFlight
    BY ConstantsAssumption DEF OnAck, TypeOK
  <1>3. TypeOK'
    BY <1>1, <1>2 DEF TypeOK, Statuses
  <1>4. \A m \in slots : m.n \in Msg
    BY DEF TypeOK, Slot
  <1>5. SlotsInv'
    <2>1. \A m \in slots' : m \in slots /\ ~ \E x \in done : x.n = m.n
      BY <1>1 DEF SlotsInv
    <2> HIDE DEF done
    <2> QED BY <1>1, <1>4, <2>1 DEF SlotsInv, Names
  <1>6. StatusInv'
    <2>1. \A m \in done : status[m.n] = "inflight"
      BY DEF SlotsInv
    <2> HIDE DEF done
    <2> QED BY <1>1, <2>1 DEF StatusInv
  <1>7. FramesInv' /\ AcksInv' /\ DedupInv' /\ AtMostOnce'
    BY <1>1 DEF FramesInv, AcksInv, DedupInv, AtMostOnce, Names, Truthful
  <1>8. AckedWasDelivered'
    <2>1. \A m \in done : delivered[m.n] = 1
      BY CoveredIsDelivered
    <2> HIDE DEF done
    <2> QED BY <1>1, <2>1 DEF AckedWasDelivered
  <1> QED BY <1>3, <1>5, <1>6, <1>7, <1>8

\* Retransmitting some messages and giving up on others preserves it.
LEMMA PollIInv == ASSUME IInv, NEW due \in SUBSET slots, Poll(due) PROVE IInv'
  <1> DEFINE lost == {m \in due : m.retries >= maxRetries}
             again == due \ lost
  <1> USE DEF IInv
  <1>1. /\ UNCHANGED <<nextId, nextN, maxRetries, dedup, acks, delivered>>
        /\ slots' = (slots \ due) \cup {[m EXCEPT !.retries = @ + 1] : m \in again}
        /\ frames' = frames \cup {[n |-> m.n, id |-> m.id] : m \in again}
        /\ status' = [n \in Msg |-> IF \E m \in lost : m.n = n THEN "abandoned" ELSE status[n]]
        /\ window' = IF again = {} THEN window ELSE MinCwnd
    BY DEF Poll
  <1>2. \A m \in slots : m \in Slot /\ m.n \in Msg /\ m.id \in Id /\ m.retries \in Retries
    BY DEF TypeOK, Slot
  <1>3. \A m \in again : m \in slots /\ m.retries < maxRetries /\ m.retries + 1 \in Retries
    BY <1>2, ConstantsAssumption DEF TypeOK, Retries
  <1> DEFINE From(s, m) == /\ s.n = m.n /\ s.id = m.id /\ s \in Slot
                           /\ m \notin lost
                           /\ \/ s = m /\ m \notin due
                              \/ s = [m EXCEPT !.retries = @ + 1] /\ m \in due
  <1>4. \A s \in slots' : \E m \in slots : From(s, m)
    <2> SUFFICES ASSUME NEW s \in slots' PROVE \E m \in slots : From(s, m)
      OBVIOUS
    <2>1. CASE s \in slots \ due
      BY <1>2, <2>1
    <2>2. CASE s \in {[m EXCEPT !.retries = @ + 1] : m \in again}
      <3>1. PICK m \in again : s = [m EXCEPT !.retries = @ + 1]
        BY <2>2
      <3>2. m \in slots /\ m \in due /\ m \notin lost /\ m \in Slot
        BY <1>2, <3>1
      <3>3. s.n = m.n /\ s.id = m.id /\ s \in Slot
        BY <1>3, <3>1, <3>2 DEF Slot
      <3> QED BY <3>1, <3>2, <3>3
    <2> QED BY <1>1, <2>1, <2>2
  <1> HIDE DEF lost, again
  <1>5. \A m \in lost : m \in slots
    BY DEF lost
  <1>6. TypeOK'
    <2>1. slots' \subseteq Slot
      BY <1>4
    <2>2. frames' \subseteq Frame
      BY <1>1, <1>2, <1>3 DEF TypeOK, Frame
    <2> QED BY <1>1, <2>1, <2>2, ConstantsAssumption DEF TypeOK, Statuses
  <1>7. SlotsInv'
    <2>1. \A s \in slots' : Names(s.id, s.n, AckWindow)' /\ status'[s.n] = "inflight"
      <3> SUFFICES ASSUME NEW s \in slots'
                   PROVE  Names(s.id, s.n, AckWindow)' /\ status'[s.n] = "inflight"
        OBVIOUS
      <3>1. PICK m \in slots : s.n = m.n /\ s.id = m.id /\ m \notin lost
        BY <1>4
      <3>2. ~ \E x \in lost : x.n = m.n
        BY <1>5, <3>1 DEF SlotsInv
      <3>3. status'[s.n] = "inflight"
        BY <1>1, <1>2, <3>1, <3>2 DEF SlotsInv
      <3> QED BY <1>1, <3>1, <3>3 DEF SlotsInv, Names
    <2>2. \A s1, s2 \in slots' : s1.n = s2.n => s1 = s2
      <3> SUFFICES ASSUME NEW s1 \in slots', NEW s2 \in slots', s1.n = s2.n PROVE s1 = s2
        OBVIOUS
      <3>1. PICK m1 \in slots : s1.n = m1.n /\
              (\/ s1 = m1 /\ m1 \notin due
               \/ s1 = [m1 EXCEPT !.retries = @ + 1] /\ m1 \in due)
        BY <1>4
      <3>2. PICK m2 \in slots : s2.n = m2.n /\
              (\/ s2 = m2 /\ m2 \notin due
               \/ s2 = [m2 EXCEPT !.retries = @ + 1] /\ m2 \in due)
        BY <1>4
      <3>3. m1 = m2
        BY <3>1, <3>2 DEF SlotsInv
      <3> QED BY <3>1, <3>2, <3>3
    <2> QED BY <2>1, <2>2 DEF SlotsInv
  <1>8. StatusInv'
    <2>1. \A m \in lost : status[m.n] = "inflight"
      BY <1>5 DEF SlotsInv
    <2> QED BY <1>1, <2>1 DEF StatusInv
  <1>9. FramesInv'
    <2>1. \A m \in again : Names(m.id, m.n, Lifetime)
      BY <1>2, <1>3, ConstantsAssumption DEF SlotsInv, Names, TypeOK, Msg
    <2> QED BY <1>1, <2>1 DEF FramesInv, Names
  <1>10. AcksInv' /\ DedupInv' /\ AtMostOnce' /\ AckedWasDelivered'
    BY <1>1 DEF AcksInv, DedupInv, AtMostOnce, AckedWasDelivered, Names, Truthful
  <1> QED BY <1>6, <1>7, <1>8, <1>9, <1>10

\* Every step preserves the invariant.
LEMMA NextIInv == IInv /\ [Next]_vars => IInv'
  <1> SUFFICES ASSUME IInv, [Next]_vars PROVE IInv'
    OBVIOUS
  <1>1. ASSUME NEW attempts \in 0 .. MaxAttempts, SetMaxRetries(attempts) PROVE IInv'
    BY <1>1, ConstantsAssumption
    DEF SetMaxRetries, IInv, TypeOK, SlotsInv, StatusInv, FramesInv, AcksInv, DedupInv,
        AtMostOnce, AckedWasDelivered, Names, Truthful
  <1>2. CASE ForgetPath
    BY <1>2, ConstantsAssumption
    DEF ForgetPath, IInv, TypeOK, SlotsInv, StatusInv, FramesInv, AcksInv, DedupInv,
        AtMostOnce, AckedWasDelivered, Names, Truthful
  <1>3. CASE UNCHANGED vars
    BY <1>3
    DEF vars, IInv, TypeOK, SlotsInv, StatusInv, FramesInv, AcksInv, DedupInv,
        AtMostOnce, AckedWasDelivered, Names, Truthful
  <1> QED BY <1>1, <1>2, <1>3, SendIInv, ReceiveIInv, OnAckIInv, PollIInv DEF Next

-----------------------------------------------------------------------------
(* The theorems.                                                           *)

\* The invariant holds in every reachable state of the queue, the window and
\* the path between them.
THEOREM Invariance == Spec => []IInv
  BY InitIInv, NextIInv, PTL DEF Spec

\* next_id, the slots, the window and the retry counts keep their ranges.
THEOREM TypeCorrect == Spec => []TypeOK
  <1>1. IInv => TypeOK
    BY DEF IInv
  <1> QED BY <1>1, Invariance, PTL

\* DedupWindow::accept hands no message on twice, also after identifiers wrap.
THEOREM DeliveredAtMostOnce == Spec => []AtMostOnce
  <1>1. IInv => AtMostOnce
    BY DEF IInv
  <1> QED BY <1>1, Invariance, PTL

\* on_ack takes nothing out of the queue that was not handed on by the peer.
THEOREM AckedOnlyIfDelivered == Spec => []AckedWasDelivered
  <1>1. IInv => AckedWasDelivered
    BY DEF IInv
  <1> QED BY <1>1, Invariance, PTL

\* An outstanding identifier is compared with the receiver's highest as the
\* numbers of their messages are.
LEMMA OutstandingDistance ==
    ASSUME IInv, dedup.started, NEW m \in slots
    PROVE  /\ m.n \in Msg /\ dedup.top \in Msg
           /\ IsNewer(m.id, dedup.highest) <=> m.n > dedup.top
           /\ m.id = dedup.highest <=> m.n = dedup.top
           /\ m.n < dedup.top => /\ WrappingSub(dedup.highest, m.id) = dedup.top - m.n
                                 /\ dedup.top - m.n < AckWindow
  <1> DEFINE p == nextN - dedup.top
             q == nextN - m.n
  <1>1. /\ m.id \in Id /\ m.n \in Msg /\ Names(m.id, m.n, AckWindow)
        /\ dedup.highest \in Id /\ nextId \in Id /\ nextN \in Nat
        /\ Truthful(dedup.highest, dedup.bitmap, dedup.top)
    BY DEF IInv, TypeOK, Slot, Dedup, SlotsInv, DedupInv
  <1>2. /\ dedup.top \in Nat /\ dedup.top \in Msg /\ m.n \in Nat
        /\ Names(dedup.highest, dedup.top, Lifetime)
    BY <1>1 DEF Truthful, Msg
  <1>3. p \in 1 .. HalfSpace /\ q \in 1 .. HalfSpace
    BY <1>1, <1>2, ConstantsAssumption DEF Names
  <1>4. /\ p <= q => WrappingSub(dedup.highest, m.id) = q - p
        /\ m.id = dedup.highest <=> p = q
        /\ IsNewer(m.id, dedup.highest) <=> q < p
    BY <1>1, <1>2, <1>3, DistanceBetween DEF Names
  <1> QED BY <1>1, <1>2, <1>4, ConstantsAssumption DEF Names

\* While register keeps outstanding identifiers within ACK_WINDOW of next_id,
\* the receiver's window never slides past one it has still to be given.
THEOREM NeverRefused == Spec => []OutstandingNotRefused
  <1>1. IInv => OutstandingNotRefused
    <2> SUFFICES ASSUME IInv, NEW m \in slots, delivered[m.n] = 0, dedup.started
                 PROVE  IsNew(dedup, m.id)
      BY DEF OutstandingNotRefused, IsNew
    <2>1. CASE m.n > dedup.top
      BY <2>1, OutstandingDistance DEF IsNew
    <2>2. CASE m.n = dedup.top
      BY <2>2 DEF IInv, DedupInv, Truthful
    <2>3. CASE m.n < dedup.top
      <3>1. /\ WrappingSub(dedup.highest, m.id) = dedup.top - m.n
            /\ dedup.top - m.n <= AckWindow /\ m.id # dedup.highest
            /\ m.n \in Nat /\ dedup.top \in Nat
        BY <2>3, OutstandingDistance, ConstantsAssumption DEF Msg
      <3>2. dedup.top - m.n \notin dedup.bitmap
        <4>1. dedup.top - (dedup.top - m.n) = m.n
          BY <3>1
        <4> QED BY <4>1 DEF IInv, DedupInv, Truthful
      <3> QED BY <3>1, <3>2 DEF IsNew
    <2>4. m.n \in Int /\ dedup.top \in Int
      BY OutstandingDistance DEF Msg
    <2> QED BY <2>1, <2>2, <2>3, <2>4
  <1> QED BY <1>1, Invariance, PTL

\* The acknowledgement of a message still outstanding has a bit to say so.
THEOREM AlwaysNameable == Spec => []OutstandingNameable
  <1>1. IInv => OutstandingNameable
    <2> SUFFICES ASSUME IInv, NEW m \in slots, delivered[m.n] > 0
                 PROVE  dedup.started /\ Covers(ToAck(dedup), m.id)
      BY DEF OutstandingNameable
    <2>1. m.n \in Msg /\ delivered[m.n] # 0
      BY DEF IInv, TypeOK, Slot
    <2>2. /\ dedup.started /\ m.n <= dedup.top
          /\ m.n = dedup.top \/ dedup.top - m.n > AckWindow \/ dedup.top - m.n \in dedup.bitmap
      BY <2>1 DEF IInv, DedupInv
    <2>3. CASE m.n = dedup.top
      BY <2>2, <2>3, OutstandingDistance DEF Covers, ToAck
    <2>4. CASE m.n < dedup.top
      <3>1. /\ WrappingSub(dedup.highest, m.id) = dedup.top - m.n
            /\ ~(dedup.top - m.n > AckWindow)
        BY <2>2, <2>4, OutstandingDistance, ConstantsAssumption DEF Msg
      <3>2. m.n # dedup.top
        BY <2>4, <2>2, OutstandingDistance DEF Msg
      <3> QED BY <2>2, <3>1, <3>2 DEF Covers, ToAck
    <2>5. m.n \in Int /\ dedup.top \in Int
      BY <2>2, OutstandingDistance DEF Msg
    <2> QED BY <2>2, <2>3, <2>4, <2>5
  <1> QED BY <1>1, Invariance, PTL

\* The queue and the window implement ReliableDelivery: every step either is
\* one of its steps or leaves the two histories alone.
THEOREM Refinement == Spec => ImplementsDelivery
  <1>1. Init => Delivery!Init
    BY DEF Init, Delivery!Init
  <1>2. IInv /\ [Next]_vars => [Delivery!Next]_(Delivery!vars)
    <2> SUFFICES ASSUME IInv, [Next]_vars PROVE [Delivery!Next]_(Delivery!vars)
      OBVIOUS
    <2> USE DEF Delivery!vars
    <2>1. CASE Send
      <3>1. nextN \in Msg /\ status[nextN] = "unsent"
        BY <2>1, ConstantsAssumption DEF Send, IInv, TypeOK, StatusInv, Msg
      <3>2. Delivery!Send(nextN)
        BY <2>1, <3>1 DEF Send, Delivery!Send
      <3> QED BY <3>1, <3>2 DEF Delivery!Next
    <2>2. ASSUME NEW f \in frames, Receive(f) PROVE [Delivery!Next]_(Delivery!vars)
      <3>1. CASE IsNew(dedup, f.id)
        <4>1. f.n \in Msg /\ delivered[f.n] = 0 /\ f.n < nextN
          BY <3>1, NewIsUndelivered DEF IInv, TypeOK, Frame, FramesInv, Names, Msg
        <4>2. status[f.n] # "unsent"
          BY <4>1 DEF IInv, StatusInv, TypeOK, Msg
        <4>3. Delivery!Deliver(f.n)
          BY <2>2, <3>1, <4>1, <4>2 DEF Receive, senderVars, Delivery!Deliver, IInv, TypeOK
        <4> QED BY <4>1, <4>3 DEF Delivery!Next
      <3>2. CASE ~IsNew(dedup, f.id)
        BY <2>2, <3>2 DEF Receive, senderVars
      <3> QED BY <3>1, <3>2
    <2>3. ASSUME NEW ack \in acks, OnAck(ack) PROVE Delivery!Next
      <3> DEFINE done == {m \in slots : Covers(ack, m.id)}
                 S == {n \in Msg : \E m \in done : m.n = n}
      <3>1. \A m \in done : status[m.n] = "inflight" /\ delivered[m.n] = 1
        BY CoveredIsDelivered DEF IInv, SlotsInv
      <3>2. status' = [n \in Msg |-> IF n \in S THEN "acked" ELSE status[n]]
        BY <2>3 DEF OnAck
      <3>3. Delivery!Acknowledge(S)
        BY <2>3, <3>1, <3>2 DEF OnAck, Delivery!Acknowledge
      <3>4. S \in SUBSET Msg
        OBVIOUS
      <3> HIDE DEF S
      <3> QED BY <3>3, <3>4 DEF Delivery!Next
    <2>4. ASSUME NEW due \in SUBSET slots, Poll(due) PROVE Delivery!Next
      <3> DEFINE lost == {m \in due : m.retries >= maxRetries}
                 S == {n \in Msg : \E m \in lost : m.n = n}
      <3>1. \A m \in lost : status[m.n] = "inflight"
        BY DEF IInv, SlotsInv
      <3>2. status' = [n \in Msg |-> IF n \in S THEN "abandoned" ELSE status[n]]
        BY <2>4 DEF Poll
      <3>3. Delivery!Abandon(S)
        BY <2>4, <3>1, <3>2 DEF Poll, Delivery!Abandon
      <3>4. S \in SUBSET Msg
        OBVIOUS
      <3> HIDE DEF S
      <3> QED BY <3>3, <3>4 DEF Delivery!Next
    <2>5. ASSUME NEW attempts \in 0 .. MaxAttempts, SetMaxRetries(attempts)
          PROVE  UNCHANGED <<status, delivered>>
      BY <2>5 DEF SetMaxRetries
    <2>6. CASE ForgetPath
      BY <2>6 DEF ForgetPath
    <2>7. CASE UNCHANGED vars
      BY <2>7 DEF vars
    <2> QED BY <2>1, <2>2, <2>3, <2>4, <2>5, <2>6, <2>7 DEF Next
  <1> QED BY <1>1, <1>2, Invariance, PTL DEF Spec, ImplementsDelivery, Delivery!Spec
=============================================================================

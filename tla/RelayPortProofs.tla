-------------------------- MODULE RelayPortProofs --------------------------
(***************************************************************************)
(* What a relay allocation guarantees whatever the addresses, the moves,   *)
(* the periods and what the network does with the datagrams.               *)
(***************************************************************************)
EXTENDS RelayPort, TLAPS

InKinds == {"Hello", "Bind", "Answer", "Proof", "Frame", "Wake"}
OutKinds == {"Check", "Frame"}

\* What a datagram in flight says of the past: a check names, in its nonce, the
\* address it was sent to; an answer carries the nonce of a check its party
\* received, hence an address the party has proved; a frame goes out only to
\* an address proved.
Honest(d) ==
  /\ d.port \in Sides
  /\ d.addr \in Addrs \/ d.kind = "Wake"
  /\ (d.way = "in" /\ d.kind \in InKinds) \/ (d.way = "out" /\ d.kind \in OutKinds)
  /\ d.kind = "Check" => d.nonce[1] = d.addr
  /\ d.kind \in {"Answer", "Proof"} => d.nonce[1] \in proved[d.port]
  /\ d.way = "out" /\ d.kind = "Frame" => d.addr \in proved[d.port]

IInv ==
  /\ world \in Worlds
  /\ TypeOK
  /\ proved \in [Sides -> SUBSET Addrs]
  /\ \A s \in Sides : party[s] # Nobody => party[s] \in proved[s]
  /\ \A d \in net : Honest(d)

\* The facts of the invariant the port's own steps use.
LEMMA Periods == ASSUME world \in Worlds PROVE world.periods \in Nat
  BY PortAssumption

\* An address recorded as proved stays so, hence so does all that was said of a
\* datagram.
LEMMA HonestStays ==
  ASSUME NEW d, Honest(d), \A s \in Sides : proved[s] \subseteq proved'[s]
  PROVE  Honest(d)'
  BY DEF Honest

\* A new allocation.
LEMMA InitIInv == Init => IInv
  <1> SUFFICES ASSUME Init PROVE IInv
    OBVIOUS
  <1>1. world.periods \in Nat
    BY Periods DEF Init
  <1>2. TypeOK
    <2>1. party \in [Sides -> Addrs \cup {Nobody}]
      BY DEF Init
    <2>2. epoch \in 0 .. world.periods /\ moves \in 0 .. MaxMoves
      BY <1>1, PortAssumption DEF Init
    <2> QED BY <2>1, <2>2 DEF Init, TypeOK
  <1>3. proved \in [Sides -> SUBSET Addrs]
    BY <1>2 DEF Init, TypeOK
  <1> QED BY <1>2, <1>3 DEF Init, IInv

\* A nonce a port takes for the address was derived from that address.
LEMMA SentNamesAddress ==
  ASSUME NEW a, NEW nonce, Sent(a, nonce) PROVE nonce[1] = a
  BY DEF Sent, Nonce

\* The two datagrams a port may send for one it has taken.
LEMMA CheckHonest ==
  ASSUME NEW s \in Sides, NEW a \in Addrs
  PROVE  Honest(Out(s, "Check", a, Nonce(a, epoch)))
  BY DEF Honest, Out, Nonce, OutKinds, InKinds

\* A thread takes a datagram: what it records was proved.
LEMMA TakeIInv ==
  ASSUME IInv, NEW d \in net, Take(d.port, d), UNCHANGED world
  PROVE  IInv'
  <1> DEFINE s == d.port
  <1>1. Honest(d) /\ s \in Sides
    BY DEF IInv, Honest
  <1>2. /\ TypeOK /\ proved \in [Sides -> SUBSET Addrs]
        /\ \A t \in Sides : party[t] # Nobody => party[t] \in proved[t]
    BY DEF IInv
  <1>3. /\ UNCHANGED <<stop, woken, at, legacy, checked, moves, epoch, proved>>
        /\ d.way = "in"
    BY DEF Take, parties
  <1> HIDE DEF s
  <1>4. pc' \in [Sides -> {"recv", "frame", "done"}]
    BY <1>1, <1>2 DEF Take, TypeOK, s
  <1>5. /\ party' \in [Sides -> Addrs \cup {Nobody}] /\ exposed' \in [Sides -> BOOLEAN]
        /\ \A t \in Sides : party'[t] # Nobody => party'[t] \in proved[t]
        /\ \A e \in net' : Honest(e)
    <2>1. CASE UNCHANGED <<party, exposed>> /\ net' \in Without(d)
      BY <1>2, <2>1 DEF IInv, TypeOK, Without
    <2>2. CASE Converse(s, d)
      <3>1. ASSUME d.kind \in {"Hello", "Bind"}
            PROVE  d.addr \in Addrs
        BY <1>1, <3>1 DEF Honest
      <3>2. ASSUME MayCheck(s, d), d.addr \in Addrs
            PROVE  \A e \in net' : Honest(e)
        <4>1. Honest(Out(s, "Check", d.addr, Nonce(d.addr, epoch)))
          BY <1>1, <3>2, CheckHonest
        <4>2. net' \subseteq net \cup {Out(s, "Check", d.addr, Nonce(d.addr, epoch))}
          BY <3>2 DEF MayCheck, Without
        <4> QED BY <4>1, <4>2 DEF IInv
      <3>3. ASSUME net' \in Without(d)
            PROVE  \A e \in net' : Honest(e)
        BY <3>3 DEF IInv, Without
      <3>4. ASSUME d.kind \in {"Answer", "Proof"}, Sent(d.addr, d.nonce), Record(s, d.addr)
            PROVE  /\ party' \in [Sides -> Addrs \cup {Nobody}]
                   /\ \A t \in Sides : party'[t] # Nobody => party'[t] \in proved[t]
        <4>1. d.addr \in proved[s]
          BY <1>1, <3>4, SentNamesAddress DEF Honest, s
        <4>2. d.addr \in Addrs
          BY <1>1, <1>2, <4>1
        <4> QED BY <1>1, <1>2, <3>4, <4>1, <4>2 DEF Record, TypeOK
      <3>5. CASE d.kind = "Hello"
        <4>1. UNCHANGED <<party, exposed>>
          BY <2>2, <3>5 DEF Converse
        <4>2. \A e \in net' : Honest(e)
          BY <2>2, <3>1, <3>2, <3>3, <3>5 DEF Converse
        <4> QED BY <1>2, <4>1, <4>2 DEF TypeOK
      <3>6. CASE d.kind \in {"Answer", "Proof"}
        <4>1. net' \in Without(d) /\ UNCHANGED exposed
          BY <2>2, <3>6 DEF Converse
        <4>2. UNCHANGED party \/ (Sent(d.addr, d.nonce) /\ Record(s, d.addr))
          BY <2>2, <3>6 DEF Converse
        <4> QED BY <1>2, <3>3, <3>4, <3>6, <4>1, <4>2 DEF TypeOK
      <3>7. CASE d.kind = "Bind"
        <4>1. /\ UNCHANGED party
              /\ UNCHANGED exposed \/ exposed' = [exposed EXCEPT ![s] = TRUE]
          BY <2>2, <3>7 DEF Converse
        <4>2. \A e \in net' : Honest(e)
          BY <2>2, <3>1, <3>2, <3>3, <3>7 DEF Converse
        <4> QED BY <1>2, <4>1, <4>2 DEF TypeOK
      <3> QED BY <2>2, <3>5, <3>6, <3>7 DEF Converse
    <2> QED BY <2>1, <2>2 DEF Take, s
  <1>6. \A e \in net' : Honest(e)'
    BY <1>3, <1>5, HonestStays
  <1>7. TypeOK'
    BY <1>2, <1>3, <1>4, <1>5, <1>6 DEF TypeOK, Honest
  <1> QED BY <1>2, <1>3, <1>5, <1>6, <1>7 DEF IInv

\* A check is answered: the answer carries the nonce of a check received at the
\* address it names, wherever the party is by then.
LEMMA AnswerIInv ==
  ASSUME IInv, NEW d \in net, Answer(d.port, d), UNCHANGED world
  PROVE  IInv'
  <1> DEFINE s == d.port
  <1>1. /\ Honest(d) /\ s \in Sides /\ TypeOK /\ proved \in [Sides -> SUBSET Addrs]
        /\ \A t \in Sides : party[t] # Nobody => party[t] \in proved[t]
    BY DEF IInv, Honest
  <1> HIDE DEF s
  <1>2. /\ UNCHANGED <<party, exposed, pc, stop, woken, legacy, epoch>>
        /\ d.kind = "Check" /\ d.addr = at[s]
        /\ checked' = checked \cup {s}
        /\ proved' = [proved EXCEPT ![s] = @ \cup {at[s]}]
    BY DEF Answer, ports, s
  <1>3. PICK from \in IF s \in Movers /\ moves < MaxMoves THEN Addrs ELSE {at[s]} :
           /\ at' = [at EXCEPT ![s] = from]
           /\ moves' = IF from = at[s] THEN moves ELSE moves + 1
           /\ \E rest \in Without(d) :
                net' = rest \cup {In(s, IF s \in legacy THEN "Proof" ELSE "Answer",
                                     from, d.nonce)}
    BY DEF Answer, s
  <1>4. at[s] \in Addrs /\ from \in Addrs
    BY <1>1, <1>3 DEF TypeOK
  <1>5. at' \in [Sides -> Addrs] /\ moves' \in 0 .. MaxMoves /\ checked' \subseteq Sides
    BY <1>1, <1>2, <1>3, <1>4, PortAssumption DEF TypeOK
  <1>6. /\ proved' \in [Sides -> SUBSET Addrs]
        /\ \A t \in Sides : proved[t] \subseteq proved'[t]
        /\ at[s] \in proved'[s]
    BY <1>1, <1>2, <1>4
  <1>7. \A e \in net' : Honest(e)'
    <2>1. d.nonce[1] = at[s]
      BY <1>1, <1>2 DEF Honest
    <2>2. ASSUME NEW kind \in {"Proof", "Answer"}
          PROVE  Honest(In(s, kind, from, d.nonce))'
      BY <1>1, <1>4, <1>6, <2>1 DEF Honest, In, InKinds, OutKinds, s
    <2>3. \A e \in net : Honest(e)'
      BY <1>6, HonestStays DEF IInv
    <2> QED BY <1>3, <2>2, <2>3 DEF Without
  <1>8. TypeOK'
    BY <1>1, <1>2, <1>5, <1>7 DEF TypeOK, Honest
  <1> QED BY <1>1, <1>2, <1>6, <1>7, <1>8 DEF IInv

\* The other threads' and parties' steps change no record, and what they send
\* is honest.
LEMMA ForwardIInv ==
  ASSUME IInv, NEW s \in Sides, Forward(s), UNCHANGED world
  PROVE  IInv'
  <1>1. /\ UNCHANGED <<party, exposed, stop, woken, at, legacy, checked, moves, epoch, proved>>
        /\ pc' = [pc EXCEPT ![s] = "recv"]
    BY DEF Forward, parties
  <1>2. \A e \in net' : Honest(e)'
    <2>1. 1 - s \in Sides
      BY DEF Sides
    <2>2. ASSUME NEW a \in {party[1 - s]} \ {Nobody}
          PROVE  Honest(Out(1 - s, "Frame", a, NoNonce))
      <3>1. a \in proved[1 - s] /\ a \in Addrs
        BY <2>1 DEF IInv
      <3> QED BY <2>1, <3>1 DEF Honest, Out, OutKinds
    <2>3. \A e \in net' : Honest(e)
      BY <2>2 DEF Forward, IInv
    <2> QED BY <1>1, <2>3, HonestStays
  <1> QED BY <1>1, <1>2 DEF IInv, TypeOK, Honest

\* A datagram a party sends of its own accord.
LEMMA SentHonest ==
  ASSUME NEW s \in Sides, NEW kind \in {"Hello", "Bind", "Frame"}, NEW a \in Addrs
  PROVE  Honest(In(s, kind, a, NoNonce))
  BY DEF Honest, In, InKinds

\* What a party does for itself: prove, fall back, send, move.
LEMMA PartyIInv ==
  ASSUME IInv, NEW s \in Sides, Prove(s) \/ FallBack(s) \/ SendFrame(s) \/ Move(s),
         UNCHANGED world
  PROVE  IInv'
  <1>1. UNCHANGED <<party, exposed, pc, stop, woken, epoch, proved, checked>>
    BY DEF Prove, FallBack, SendFrame, Move, ports, parties
  <1>2. at' \in [Sides -> Addrs] /\ legacy' \subseteq Sides /\ moves' \in 0 .. MaxMoves
    BY PortAssumption DEF Prove, FallBack, SendFrame, Move, parties, IInv, TypeOK
  <1>3. at[s] \in Addrs
    BY DEF IInv, TypeOK
  <1>4. \A e \in net' : Honest(e)
    <2>1. CASE Prove(s)
      BY <1>3, <2>1, SentHonest DEF Prove, IInv
    <2>2. CASE SendFrame(s)
      BY <1>3, <2>2, SentHonest DEF SendFrame, IInv
    <2>3. CASE FallBack(s) \/ Move(s)
      BY <2>3 DEF FallBack, Move, IInv
    <2> QED BY <2>1, <2>2, <2>3
  <1>5. \A e \in net' : Honest(e)'
    BY <1>1, <1>4, HonestStays
  <1> QED BY <1>1, <1>2, <1>5 DEF IInv, TypeOK, Honest

\* The release, the clock and the loss of a datagram.
LEMMA QuietIInv ==
  ASSUME IInv, Release \/ Tick \/ (\E d \in net : Gone(d)), UNCHANGED world
  PROVE  IInv'
  <1>1. /\ UNCHANGED <<party, exposed, pc, at, legacy, checked, moves, proved>>
        /\ stop' \in BOOLEAN /\ woken' \in BOOLEAN
    BY DEF Release, Tick, Gone, ports, parties, IInv, TypeOK
  <1>2. epoch' \in 0 .. world.periods
    <2>1. world.periods \in Nat
      BY Periods DEF IInv
    <2> QED BY <2>1 DEF Release, Tick, Gone, IInv, TypeOK
  <1>3. \A e \in net' : Honest(e)
    <2>1. \A s \in Sides : Honest(In(s, "Wake", Nobody, NoNonce))
      BY DEF Honest, In, InKinds
    <2>2. net' \subseteq net \cup {In(s, "Wake", Nobody, NoNonce) : s \in Sides}
      BY DEF Release, Tick, Gone
    <2> QED BY <2>1, <2>2 DEF IInv
  <1>4. \A e \in net' : Honest(e)'
    BY <1>1, <1>3, HonestStays
  <1> QED BY <1>1, <1>2, <1>4 DEF IInv, TypeOK, Honest

\* Every step keeps the invariant.
LEMMA NextIInv == IInv /\ [Next]_vars => IInv'
  <1> SUFFICES ASSUME IInv, [Next]_vars PROVE IInv'
    OBVIOUS
  <1>1. CASE UNCHANGED vars
    BY <1>1 DEF vars, moving, ports, parties, IInv, TypeOK, Honest
  <1>2. CASE Next
    <2>1. UNCHANGED world
      BY <1>2 DEF Next
    <2>2. CASE Release \/ Tick \/ (\E d \in net : Gone(d))
      BY <2>1, <2>2, QuietIInv
    <2>3. CASE \E d \in net : Take(d.port, d)
      BY <2>1, <2>3, TakeIInv
    <2>4. CASE \E d \in net : Answer(d.port, d)
      BY <2>1, <2>4, AnswerIInv
    <2>5. CASE \E s \in Sides : Forward(s)
      BY <2>1, <2>5, ForwardIInv
    <2>6. CASE \E s \in Sides : Prove(s) \/ FallBack(s) \/ SendFrame(s) \/ Move(s)
      BY <2>1, <2>6, PartyIInv
    <2> QED BY <1>2, <2>2, <2>3, <2>4, <2>5, <2>6 DEF Next
  <1> QED BY <1>1, <1>2

\* The invariant holds throughout.
LEMMA Inductive == Spec => []IInv
  BY InitIInv, NextIInv, PTL DEF Spec

\* What a port records of its parties, its threads and the parties keep their
\* ranges in every behaviour.
THEOREM TypeCorrect == Spec => []TypeOK
  <1>1. IInv => TypeOK
    BY DEF IInv
  <1> QED BY <1>1, Inductive, PTL

\* A port records only an address its party received a check at, and forwards
\* only to such addresses (serve_port's test of the nonce against the address
\* the answer came from), however often a party moves, whatever is lost,
\* repeated or late, and over any number of periods.
THEOREM RecordsOnlyProved == Spec => []ProvedFirst
  <1>1. IInv => ProvedFirst
    BY DEF IInv, ProvedFirst, Honest
  <1> QED BY <1>1, Inductive, PTL

\* Once a port has seen its token in the clear, the first address it records is
\* the last (serve_port's tests of exposed and of party), also with answers to
\* earlier checks still on their way.
THEOREM ExposedStays == Spec => ExposedIsFixed
  <1> DEFINE Fixed == \A s \in Sides : exposed[s] /\ party[s] # Nobody => party'[s] = party[s]
  <1>1. ASSUME IInv, Next PROVE Fixed
    <2>1. CASE \E d \in net : Take(d.port, d)
      <3>1. PICK d \in net : Take(d.port, d)
        BY <2>1
      <3>2. d.port \in Sides /\ party \in [Sides -> Addrs \cup {Nobody}]
        BY <1>1 DEF IInv, Honest, TypeOK
      <3>3. \/ UNCHANGED party
            \/ /\ party' = [party EXCEPT ![d.port] = d.addr]
               /\ ~exposed[d.port] \/ party[d.port] = Nobody
        BY <3>1 DEF Take, Converse, Record
      <3> QED BY <3>2, <3>3
    <2>2. CASE UNCHANGED party
      BY <2>2
    <2> QED BY <1>1, <2>1, <2>2 DEF Next, Release, Tick, Answer, Gone, Forward, Prove,
               FallBack, SendFrame, Move, ports
  <1>2. IInv /\ [Next]_vars => [Fixed]_vars
    BY <1>1
  <1>3. Spec => [][Fixed]_vars
    BY <1>2, Inductive, PTL DEF Spec
  <1> QED BY <1>3 DEF ExposedIsFixed
============================================================================

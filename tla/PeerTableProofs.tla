--------------------------- MODULE PeerTableProofs ---------------------------
(***************************************************************************)
(* PeerTable, for any handles, addresses, identifiers, tokens and limits:  *)
(* the table's indexes agree, a session is filed only at an address where  *)
(* it was reached, and a session that moves displaces no other.            *)
(*                                                                         *)
(* The three indexes are proved one table at a time: Filed(t, S) says that *)
(* t files exactly the sessions of S, and each operation on a table (drop, *)
(* evict, file, hear, settle) has a lemma that says which S it leaves.     *)
(* FiledWhereReached is not inductive by itself, since a session is filed  *)
(* anew for a token that comes back: Tokened says of a token on its way    *)
(* that it can only have come from the address being probed.               *)
(***************************************************************************)
EXTENDS PeerTable, FiniteSetTheorems, WellFoundedInduction, TLAPS

-----------------------------------------------------------------------------
(* Sequences.                                                              *)

\* Of a set of numbers there are, one is the smallest.
LEMMA MinNat ==
    ASSUME NEW S \in SUBSET Nat, S # {}
    PROVE  Min(S) \in S /\ \A y \in S : Min(S) <= y
    <1>1. PICK x \in S : \A y \in S : ~(<<y, x>> \in OpToRel(<, Nat))
      BY NatLessThanWellFounded, WFMin, Zenon
    <1>2. \A y \in S : ~(y < x)
      BY <1>1, Zenon DEF OpToRel
    <1>3. \A y \in S : x <= y
      BY <1>2, SMT
    <1> QED  BY <1>3, Zenon DEF Min

\* What Retain does with the n-th element.
Kept(s, gone, g, n) ==
    IF n = 0 THEN <<>>
    ELSE IF s[n] \in gone THEN g[n - 1] ELSE Append(g[n - 1], s[n])

\* The function Retain is defined by exists, as it refers to smaller arguments only.
LEMMA KeptExists ==
    ASSUME NEW s, NEW gone, Len(s) \in Nat
    PROVE  \E g : g = [n \in 0 .. Len(s) |-> Kept(s, gone, g, n)]
    <1> DEFINE Good(m) == \E g : g = [n \in 0 .. m |-> Kept(s, gone, g, n)]
               Bad == {m \in Nat : ~Good(m)}
    <1>1. SUFFICES Bad = {}
      OBVIOUS
    <1>2. SUFFICES ASSUME Bad # {} PROVE FALSE
      OBVIOUS
    <1> DEFINE m == Min(Bad)
    <1>3. m \in Bad /\ \A y \in Bad : m <= y
      BY <1>2, MinNat, Zenon
    <1> HIDE DEF m
    <1>4. m # 0
      <2> DEFINE g == [n \in 0 .. 0 |-> <<>>]
      <2>1. g = [n \in 0 .. 0 |-> Kept(s, gone, g, n)]
        BY DEF Kept
      <2>2. Good(0)
        BY <2>1
      <2> QED  BY <2>2, <1>3
    <1>5. m - 1 \in Nat /\ m - 1 \notin Bad
      BY <1>3, <1>4
    <1>6. PICK g : g = [n \in 0 .. m - 1 |-> Kept(s, gone, g, n)]
      BY <1>5
    <1> DEFINE h == [n \in 0 .. m |-> IF n = m THEN Kept(s, gone, g, m) ELSE g[n]]
    <1>7. ASSUME NEW n \in 0 .. m PROVE h[n] = Kept(s, gone, h, n)
      <2>1. n # 0 => h[n - 1] = g[n - 1]
        BY <1>3
      <2>2. Kept(s, gone, h, n) = Kept(s, gone, g, n)
        BY <2>1 DEF Kept
      <2>3. n # m => n \in 0 .. m - 1
        BY <1>3
      <2>4. n # m => g[n] = Kept(s, gone, g, n)
        BY <2>3, <1>6, Zenon
      <2> QED  BY <2>2, <2>4
    <1>8. h = [n \in 0 .. m |-> Kept(s, gone, h, n)]
      BY <1>7
    <1>9. Good(m)
      BY <1>8, Zenon
    <1> QED  BY <1>9, <1>3

\* A list without repetition stays one when something new is put at its end.
LEMMA Appended ==
    ASSUME NEW T, NEW q \in Seq(T), IsInjective(q), NEW x \in T, x \notin Range(q)
    PROVE  /\ Append(q, x) \in Seq(T) /\ IsInjective(Append(q, x))
           /\ Range(Append(q, x)) = Range(q) \cup {x}
    <1> DEFINE a == Append(q, x)
    <1>1. /\ Len(q) \in Nat /\ DOMAIN q = 1 .. Len(q)
          /\ a \in Seq(T) /\ DOMAIN a = 1 .. Len(q) + 1
          /\ a[Len(q) + 1] = x /\ \A k \in 1 .. Len(q) : a[k] = q[k]
      OBVIOUS
    <1> HIDE DEF a
    <1>2. \A k \in 1 .. Len(q) : a[k] # x
      BY <1>1 DEF Range
    <1>3. IsInjective(a)
      <2> SUFFICES ASSUME NEW i \in DOMAIN a, NEW j \in DOMAIN a, a[i] = a[j] PROVE i = j
        BY DEF IsInjective
      <2>1. i \in 1 .. Len(q) \/ i = Len(q) + 1
        BY <1>1
      <2>2. j \in 1 .. Len(q) \/ j = Len(q) + 1
        BY <1>1
      <2> QED  BY <2>1, <2>2, <1>1, <1>2 DEF IsInjective
    <1>4. Range(a) = Range(q) \cup {x}
      <2>1. \A y : y \in Range(a) => y \in Range(q) \cup {x}
        BY <1>1 DEF Range
      <2>2. \A y : y \in Range(q) => y \in Range(a)
        BY <1>1 DEF Range
      <2>3. x \in Range(a)
        BY <1>1 DEF Range
      <2> QED  BY <2>1, <2>2, <2>3
    <1> QED  BY <1>1, <1>3, <1>4 DEF a

\* A list without repetition loses what is gone, and nothing else.
LEMMA Retained ==
    ASSUME NEW T, NEW s \in Seq(T), IsInjective(s), NEW gone
    PROVE  /\ Retain(s, gone) \in Seq(T) /\ IsInjective(Retain(s, gone))
           /\ Range(Retain(s, gone)) = Range(s) \ gone
    <1> DEFINE kept == CHOOSE g : g = [n \in 0 .. Len(s) |-> Kept(s, gone, g, n)]
    <1>1. Len(s) \in Nat /\ DOMAIN s = 1 .. Len(s) /\ \A n \in 1 .. Len(s) : s[n] \in T
      OBVIOUS
    <1>2. kept = [n \in 0 .. Len(s) |-> Kept(s, gone, kept, n)]
      BY <1>1, KeptExists
    <1>3. Retain(s, gone) = kept[Len(s)]
      BY DEF Retain, Kept
    <1> HIDE DEF kept
    <1> DEFINE First(n) == {s[k] : k \in 1 .. n} \ gone
               Good(n) == kept[n] \in Seq(T) /\ IsInjective(kept[n]) /\ Range(kept[n]) = First(n)
               Bad == {n \in 0 .. Len(s) : ~Good(n)}
    <1>4. SUFFICES Bad = {}
      <2>1. Good(Len(s))
        <3>1. Len(s) \in 0 .. Len(s)
          BY <1>1
        <3> HIDE DEF Good
        <3> QED  BY <3>1, <1>4, Zenon
      <2>2. First(Len(s)) = Range(s) \ gone
        BY <1>1 DEF Range
      <2> QED  BY <2>1, <2>2, <1>3
    <1>5. SUFFICES ASSUME Bad # {} PROVE FALSE
      OBVIOUS
    <1> DEFINE m == Min(Bad)
    <1>6. Bad \in SUBSET Nat
      BY <1>1
    <1>7. m \in Bad /\ \A y \in Bad : m <= y
      BY <1>5, <1>6, MinNat, Zenon
    <1> HIDE DEF m
    <1>8. m \in 0 .. Len(s) /\ kept[m] = Kept(s, gone, kept, m)
      BY <1>2, <1>7
    <1>9. m # 0
      <2>1. Good(0)
        <3>1. kept[0] = <<>>
          BY <1>1, <1>2 DEF Kept
        <3> QED  BY <3>1 DEF IsInjective, Range
      <2> QED  BY <2>1, <1>7
    <1>10. m - 1 \in 0 .. Len(s) /\ m \in 1 .. Len(s)
      BY <1>1, <1>8, <1>9
    <1>11. Good(m - 1)
      <2>1. m - 1 \notin Bad
        <3> HIDE DEF Bad
        <3> QED  BY <1>7, <1>10
      <2> HIDE DEF Good
      <2> QED  BY <1>10, <2>1, Zenon
    <1>12. First(m) = (First(m - 1) \cup {s[m]}) \ gone
      BY <1>1, <1>10
    <1>13. CASE s[m] \in gone
      <2>1. kept[m] = kept[m - 1]
        BY <1>8, <1>9, <1>13 DEF Kept
      <2>2. First(m) = First(m - 1)
        BY <1>12, <1>13
      <2> QED  BY <2>1, <2>2, <1>11, <1>7
    <1>14. CASE s[m] \notin gone
      <2> DEFINE q == kept[m - 1]
      <2>1. kept[m] = Append(q, s[m])
        BY <1>8, <1>9, <1>14 DEF Kept
      <2>2. q \in Seq(T) /\ IsInjective(q) /\ Range(q) = First(m - 1) /\ s[m] \in T
        BY <1>1, <1>10, <1>11
      <2>3. s[m] \notin First(m - 1)
        BY <1>1, <1>10 DEF IsInjective
      <2>4. s[m] \notin Range(q)
        BY <2>2, <2>3
      <2> HIDE DEF q
      <2>5. Append(q, s[m]) \in Seq(T) /\ IsInjective(Append(q, s[m]))
            /\ Range(Append(q, s[m])) = Range(q) \cup {s[m]}
        BY <2>2, <2>4, Appended
      <2>6. First(m) = First(m - 1) \cup {s[m]}
        BY <1>12, <1>14
      <2>7. Good(m)
        BY <2>1, <2>2, <2>5, <2>6
      <2> QED  BY <2>7, <1>7
    <1> QED  BY <1>13, <1>14

-----------------------------------------------------------------------------
(* The table and its indexes.                                              *)

\* s lists S, each of its members once.
Listed(s, S) == s \in Seq(S) /\ IsInjective(s) /\ Range(s) = S

\* A list of a set without what is gone lists the rest (Vec::retain).
LEMMA ListedLess ==
    ASSUME NEW S, NEW s, Listed(s, S), NEW gone
    PROVE  Listed(Retain(s, gone), S \ gone)
    <1> DEFINE r == Retain(s, gone)
    <1>1. r \in Seq(S) /\ IsInjective(r) /\ Range(r) = S \ gone
      BY Retained DEF Listed
    <1> HIDE DEF r
    <1>2. \A k \in 1 .. Len(r) : r[k] \in S \ gone
      BY <1>1 DEF Range
    <1>3. r \in Seq(S \ gone)
      BY <1>1, <1>2
    <1> QED  BY <1>1, <1>3 DEF Listed, r

\* A list with an element pushed lists it too.
LEMMA ListedMore ==
    ASSUME NEW S, NEW s, Listed(s, S), NEW x, x \notin S
    PROVE  Listed(Append(s, x), S \cup {x})
    <1>1. s \in Seq(S \cup {x}) /\ IsInjective(s) /\ x \notin Range(s)
      BY DEF Listed
    <1> QED  BY <1>1, Appended DEF Listed

\* The table is a record of its fields.
IsTable(t) ==
    /\ t = [peers |-> t.peers, routes |-> t.routes, by_session |-> t.by_session,
            order |-> t.order, heard |-> t.heard]
    /\ t.by_session = [s \in Sids |-> t.by_session[s]]

\* An entry.  While its response may be had again, what has been sent of it and
\* what may still be add up.
Sound(e) == e \in Entry /\ (e.left >= 0 => e.left + e.resent = Replies)

\* The sessions S are on file in t: each is an entry, has its route and its place
\* under its identifier, and neither index names anything else.
Filed(t, S) ==
    /\ IsTable(t)
    /\ t.peers \in [S -> Entry]
    /\ \A i \in S :
          /\ Sound(t.peers[i])
          /\ RouteOf(t.peers[i]) \in DOMAIN t.routes
          /\ t.routes[RouteOf(t.peers[i])] = i
    /\ \A r \in DOMAIN t.routes : t.routes[r] \in S /\ r = RouteOf(t.peers[t.routes[r]])
    /\ \A s \in Sids : Listed(t.by_session[s], {i \in S : t.peers[i].sid = s})
    /\ Listed(t.order, S) /\ Listed(t.heard, S)

\* Sessions that are dropped leave nothing behind, and the others as they were.
LEMMA Dropped ==
    ASSUME NEW t, NEW S, Filed(t, S), NEW gone \in SUBSET S
    PROVE  /\ Filed(Drop(t, gone), S \ gone)
           /\ Drop(t, gone).peers = [i \in S \ gone |-> t.peers[i]]
           /\ DOMAIN Drop(t, gone).routes \subseteq DOMAIN t.routes
    <1> DEFINE d == Drop(t, gone)
               lost == {RouteOf(t.peers[i]) : i \in gone}
    <1>0. IsTable(t) /\ DOMAIN t.peers = S
      BY DEF Filed
    <1>1. /\ IsTable(d)
          /\ d.peers = Without(t.peers, gone) /\ d.routes = Without(t.routes, lost)
          /\ d.by_session = [s \in Sids |-> Retain(t.by_session[s], gone)]
          /\ d.order = Retain(t.order, gone) /\ d.heard = Retain(t.heard, gone)
      BY DEF IsTable, Drop
    <1> HIDE DEF d
    <1>2. d.peers = [i \in S \ gone |-> t.peers[i]]
      BY <1>0, <1>1 DEF Without
    <1>3. /\ DOMAIN d.routes = DOMAIN t.routes \ lost
          /\ \A r \in DOMAIN d.routes : d.routes[r] = t.routes[r]
      BY <1>1 DEF Without
    <1>4. d.peers \in [S \ gone -> Entry]
      BY <1>2 DEF Filed
    <1>5. ASSUME NEW i \in S \ gone
          PROVE  /\ Sound(d.peers[i])
                 /\ RouteOf(d.peers[i]) \in DOMAIN d.routes
                 /\ d.routes[RouteOf(d.peers[i])] = i
      <2>1. d.peers[i] = t.peers[i]
        BY <1>2
      <2>2. RouteOf(t.peers[i]) \notin lost
        BY DEF Filed
      <2> QED  BY <2>1, <2>2, <1>3 DEF Filed
    <1>6. ASSUME NEW r \in DOMAIN d.routes
          PROVE  d.routes[r] \in S \ gone /\ r = RouteOf(d.peers[d.routes[r]])
      <2>1. t.routes[r] \in S /\ r = RouteOf(t.peers[t.routes[r]])
        BY <1>3 DEF Filed
      <2>2. t.routes[r] \notin gone
        BY <2>1, <1>3
      <2> QED  BY <2>1, <2>2, <1>2, <1>3
    <1>7. ASSUME NEW s \in Sids
          PROVE  Listed(d.by_session[s], {i \in S \ gone : d.peers[i].sid = s})
      <2> DEFINE under == {i \in S : t.peers[i].sid = s}
      <2>1. Listed(t.by_session[s], under)
        BY DEF Filed
      <2>2. {i \in S \ gone : d.peers[i].sid = s} = under \ gone
        BY <1>2
      <2> HIDE DEF under
      <2>3. Listed(Retain(t.by_session[s], gone), under \ gone)
        BY <2>1, ListedLess
      <2> QED  BY <2>2, <2>3, <1>1, Zenon
    <1>8. Listed(d.order, S \ gone) /\ Listed(d.heard, S \ gone)
      BY <1>1, ListedLess DEF Filed
    <1> QED  BY <1>1, <1>2, <1>3, <1>4, <1>5, <1>6, <1>7, <1>8, Zenon DEF Filed, d

\* Whom make_room drops is on file.
LEMMA VictimFiled ==
    ASSUME NEW t, NEW S, Filed(t, S), S # {}
    PROVE  Victim(t) \in S
    <1>1. t.order \in Seq(S) /\ Range(t.order) = S
      BY DEF Filed, Listed
    <1>2. DOMAIN t.order \in SUBSET Nat /\ \A k \in DOMAIN t.order : t.order[k] \in S
      BY <1>1
    <1>3. 1 \in DOMAIN t.order
      BY <1>1, SMTT(30) DEF Range
    <1> DEFINE silent == {k \in DOMAIN t.order : ~t.peers[t.order[k]].spoke}
    <1>4. silent # {} => Min(silent) \in silent
      BY <1>2, MinNat
    <1> QED  BY <1>2, <1>3, <1>4, Zenon DEF Victim

\* make_room drops some of those on file, and leaves the others as they were.
LEMMA Roomy ==
    ASSUME NEW t, NEW S, Filed(t, S), IsFiniteSet(S), max_peers \in Nat \ {0}
    PROVE  \E gone \in SUBSET S :
              /\ Filed(MakeRoom(t), S \ gone)
              /\ MakeRoom(t).peers = [i \in S \ gone |-> t.peers[i]]
    <1>1. DOMAIN t.peers = S /\ t.peers = [i \in S |-> t.peers[i]]
      BY DEF Filed
    <1>2. CASE Cardinality(S) < max_peers
      <2>1. MakeRoom(t) = t /\ S \ {} = S
        BY <1>1, <1>2 DEF MakeRoom
      <2>2. Filed(MakeRoom(t), S \ {}) /\ MakeRoom(t).peers = [i \in S \ {} |-> t.peers[i]]
        BY <2>1, <1>1
      <2> QED  BY <2>2, Zenon
    <1>3. CASE ~(Cardinality(S) < max_peers)
      <2>1. S # {}
        BY <1>3, FS_EmptySet
      <2>2. {Victim(t)} \in SUBSET S
        BY <2>1, VictimFiled
      <2> DEFINE v == {Victim(t)}
      <2>3. MakeRoom(t) = Drop(t, v)
        BY <1>1, <1>3 DEF MakeRoom
      <2> HIDE DEF v
      <2>4. v \in SUBSET S
        BY <2>2 DEF v
      <2>5. Filed(Drop(t, v), S \ v) /\ Drop(t, v).peers = [i \in S \ v |-> t.peers[i]]
        BY <2>4, Dropped
      <2> QED  BY <2>3, <2>4, <2>5, Zenon
    <1> QED  BY <1>2, <1>3, Zenon

\* n is t with a session entered in the table and both indexes.
Enters(n, t, id, entry) ==
    /\ IsTable(n)
    /\ n.peers = With(t.peers, id, entry)
    /\ n.routes = With(t.routes, RouteOf(entry), id)
    /\ \A s \in Sids : n.by_session[s] = IF s = entry.sid THEN Append(t.by_session[s], id)
                                                         ELSE t.by_session[s]
    /\ n.order = Append(t.order, id) /\ n.heard = Append(t.heard, id)

\* A session is entered on a route nobody has.
LEMMA Entered ==
    ASSUME NEW t, NEW S, Filed(t, S), NEW id, id \notin S, NEW entry, Sound(entry),
           RouteOf(entry) \notin DOMAIN t.routes, NEW n, Enters(n, t, id, entry)
    PROVE  /\ Filed(n, S \cup {id})
           /\ n.peers[id] = entry /\ \A i \in S : n.peers[i] = t.peers[i]
    <1>0. t.peers \in [S -> Entry]
      BY DEF Filed
    <1> USE DEF Enters, Sound
    <1>3. /\ n.peers \in [S \cup {id} -> Entry]
          /\ n.peers[id] = entry /\ \A i \in S : n.peers[i] = t.peers[i]
      BY <1>0 DEF With
    <1>4. /\ DOMAIN n.routes = DOMAIN t.routes \cup {RouteOf(entry)}
          /\ n.routes[RouteOf(entry)] = id
          /\ \A r \in DOMAIN t.routes : n.routes[r] = t.routes[r]
      BY Zenon DEF With
    <1>5. ASSUME NEW i \in S \cup {id}
          PROVE  /\ Sound(n.peers[i])
                 /\ RouteOf(n.peers[i]) \in DOMAIN n.routes
                 /\ n.routes[RouteOf(n.peers[i])] = i
      BY <1>3, <1>4 DEF Filed
    <1>6. ASSUME NEW r \in DOMAIN n.routes
          PROVE  n.routes[r] \in S \cup {id} /\ r = RouteOf(n.peers[n.routes[r]])
      BY <1>3, <1>4 DEF Filed
    <1>7. ASSUME NEW s \in Sids
          PROVE  Listed(n.by_session[s], {i \in S \cup {id} : n.peers[i].sid = s})
      <2> DEFINE under == {i \in S : t.peers[i].sid = s}
      <2>1. Listed(t.by_session[s], under) /\ id \notin under
        BY Zenon DEF Filed
      <2>2. CASE s = entry.sid
        <3>1. n.by_session[s] = Append(t.by_session[s], id)
          BY <2>2, Zenon
        <3>2. {i \in S \cup {id} : n.peers[i].sid = s} = under \cup {id}
          BY <1>3, <2>2
        <3> HIDE DEF under
        <3>3. Listed(Append(t.by_session[s], id), under \cup {id})
          BY <2>1, ListedMore
        <3> QED  BY <3>1, <3>2, <3>3, Zenon
      <2>3. CASE s # entry.sid
        <3>1. n.by_session[s] = t.by_session[s]
          BY <2>3
        <3>2. {i \in S \cup {id} : n.peers[i].sid = s} = under
          BY <1>3, <2>3
        <3> QED  BY <3>1, <3>2, <2>1, Zenon
      <2> QED  BY <2>2, <2>3
    <1>8. Listed(n.order, S \cup {id}) /\ Listed(n.heard, S \cup {id})
      BY ListedMore DEF Filed
    <1> QED  BY <1>3, <1>5, <1>6, <1>7, <1>8, Zenon DEF Filed

\* n has the sessions S of t but those gone, as they were, and one more at addr.
Joined(n, t, S, gone, id, addr) ==
    /\ Filed(n, (S \ gone) \cup {id}) /\ n.peers[id].addr = addr
    /\ \A i \in S \ gone : n.peers[i] = t.peers[i]

\* file: the new session is on file, and those it made room among that are left
\* are as they were.
LEMMA FiledAnew ==
    ASSUME NEW t, NEW S, Filed(t, S), IsFiniteSet(S), max_peers \in Nat \ {0},
           NEW id, id \notin S, NEW addr \in Addrs, NEW sid \in Sids,
           NEW left \in {-1, Replies}
    PROVE  \E gone \in SUBSET S : Joined(File(t, id, addr, sid, left), t, S, gone, id, addr)
    <1> DEFINE roomy == MakeRoom(t)
               route == <<addr, sid>>
               clear == IF route \in DOMAIN roomy.routes
                        THEN Drop(roomy, {roomy.routes[route]}) ELSE roomy
               entry == [addr |-> addr, sid |-> sid, spoke |-> FALSE, budget |-> Rate,
                         left |-> left, resent |-> 0, probe |-> {}]
               n == [peers |-> With(clear.peers, id, entry),
                     routes |-> With(clear.routes, route, id),
                     by_session |-> [clear.by_session EXCEPT ![sid] = Append(@, id)],
                     order |-> Append(clear.order, id), heard |-> Append(clear.heard, id)]
    <1>1. File(t, id, addr, sid, left) = n
      BY DEF File
    <1>2. PICK gone \in SUBSET S : /\ Filed(roomy, S \ gone)
                                   /\ roomy.peers = [i \in S \ gone |-> t.peers[i]]
      BY Roomy, Zenon
    <1> HIDE DEF roomy
    <1>3. \E more \in SUBSET S : /\ Filed(clear, S \ more) /\ route \notin DOMAIN clear.routes
                                  /\ \A i \in S \ more : clear.peers[i] = t.peers[i]
      <2>1. CASE route \in DOMAIN roomy.routes
        <3> DEFINE other == roomy.routes[route]
        <3>1. other \in S \ gone /\ route = RouteOf(roomy.peers[other])
          BY <1>2, <2>1, Zenon DEF Filed
        <3> HIDE DEF other
        <3>2. clear = Drop(roomy, {other}) /\ {other} \in SUBSET (S \ gone)
          BY <2>1, <3>1 DEF other
        <3> HIDE DEF clear
        <3>3. /\ Filed(clear, (S \ gone) \ {other})
              /\ clear.peers = [i \in (S \ gone) \ {other} |-> roomy.peers[i]]
          BY <1>2, <3>2, Dropped, SMTT(30)
        <3>4. clear.routes = Without(roomy.routes, {RouteOf(roomy.peers[i]) : i \in {other}})
          BY <3>2 DEF Drop
        <3>5. route \notin DOMAIN clear.routes
          BY <3>1, <3>4 DEF Without
        <3>6. (S \ gone) \ {other} = S \ (gone \cup {other}) /\ gone \cup {other} \in SUBSET S
          BY <3>1
        <3> QED  BY <3>3, <3>5, <3>6, <1>2, Zenon
      <2>2. CASE route \notin DOMAIN roomy.routes
        <3>1. clear = roomy
          BY <2>2
        <3> QED  BY <3>1, <2>2, <1>2, Zenon
      <2> QED  BY <2>1, <2>2, Zenon
    <1> HIDE DEF clear
    <1>4. PICK more \in SUBSET S : /\ Filed(clear, S \ more) /\ route \notin DOMAIN clear.routes
                                   /\ \A i \in S \ more : clear.peers[i] = t.peers[i]
      BY <1>3, Zenon
    <1>5. Sound(entry) /\ RouteOf(entry) = route /\ entry.sid = sid
      BY TableAssumption DEF Sound, Entry, RouteOf
    <1>6. Enters(n, clear, id, entry)
      <2>1. DOMAIN clear.by_session = Sids
        BY <1>4, Zenon DEF Filed, IsTable
      <2>2. /\ n.peers = With(clear.peers, id, entry) /\ n.routes = With(clear.routes, route, id)
            /\ n.by_session = [clear.by_session EXCEPT ![sid] = Append(@, id)]
            /\ n.order = Append(clear.order, id) /\ n.heard = Append(clear.heard, id)
        BY ZenonT(30)
      <2>3. IsTable(n)
        BY <2>1 DEF IsTable
      <2> HIDE DEF entry, n
      <2> QED  BY <1>5, <2>1, <2>2, <2>3 DEF Enters
    <1>7. entry.addr = addr
      OBVIOUS
    <1> HIDE DEF entry, n
    <1>8. /\ Filed(n, (S \ more) \cup {id})
          /\ n.peers[id] = entry /\ \A i \in S \ more : n.peers[i] = clear.peers[i]
      <2> DEFINE U == S \ more
      <2>1. id \notin U /\ Filed(clear, U) /\ RouteOf(entry) \notin DOMAIN clear.routes
        BY <1>4, <1>5
      <2> HIDE DEF U
      <2>2. Filed(n, U \cup {id}) /\ n.peers[id] = entry /\ \A i \in U : n.peers[i] = clear.peers[i]
        BY <2>1, <1>5, <1>6, Entered, SMTT(30)
      <2> QED  BY <2>2 DEF U
    <1>9. Joined(n, t, S, more, id, addr)
      BY <1>4, <1>7, <1>8 DEF Joined
    <1> QED  BY <1>1, <1>9, ZenonT(30)

\* t with other entries, which keep their address and identifier.
Renew(t, entries) == [t EXCEPT !.peers = entries]
Alike(t, S, entries) ==
    /\ entries \in [S -> Entry]
    /\ \A i \in S : RouteOf(entries[i]) = RouteOf(t.peers[i]) /\ Sound(entries[i])

\* Such entries leave the indexes right.
LEMMA Updated ==
    ASSUME NEW t, NEW S, Filed(t, S), NEW entries, Alike(t, S, entries)
    PROVE  /\ Filed(Renew(t, entries), S) /\ Renew(t, entries).peers = entries
           /\ Renew(t, entries).routes = t.routes
    <1> DEFINE n == Renew(t, entries)
    <1> USE DEF Alike, Renew
    <1>1. /\ n.peers = entries /\ n.routes = t.routes /\ n.by_session = t.by_session
          /\ n.order = t.order /\ n.heard = t.heard
      BY DEF Filed, IsTable
    <1>2. IsTable(n)
      BY <1>1 DEF Filed, IsTable
    <1>3. \A i \in S : entries[i].sid = t.peers[i].sid
      BY DEF RouteOf
    <1>4. ASSUME NEW s \in Sids
          PROVE  Listed(n.by_session[s], {i \in S : n.peers[i].sid = s})
      <2>1. {i \in S : n.peers[i].sid = s} = {i \in S : t.peers[i].sid = s}
        BY <1>1, <1>3
      <2> QED  BY <2>1, <1>1, Zenon DEF Filed
    <1> HIDE DEF n
    <1>5. Filed(n, S)
      BY <1>1, <1>2, <1>4, Zenon DEF Filed
    <1> QED  BY <1>1, <1>5 DEF n

\* A frame that opens leaves a session's route, probe and budget as they were (deliver).
LEMMA SpokenSound ==
    ASSUME NEW e \in Entry
    PROVE  /\ Sound(Spoken(e)) /\ RouteOf(Spoken(e)) = RouteOf(e)
           /\ Spoken(e).addr = e.addr /\ Spoken(e).sid = e.sid
           /\ Spoken(e).probe = e.probe /\ Spoken(e).budget = e.budget
    <1> DEFINE x == Spoken(e)
    <1>1. /\ x.left = -1 /\ x.addr = e.addr /\ x.sid = e.sid /\ x.probe = e.probe
          /\ x.budget = e.budget
      BY DEF Spoken, Entry
    <1>2. -1 \in -1 .. Replies
      BY TableAssumption
    <1>3. x \in Entry
      BY <1>2, Zenon DEF Spoken, Entry
    <1> HIDE DEF x
    <1>4. Sound(x)
      BY <1>1, <1>3 DEF Sound
    <1> QED  BY <1>1, <1>4 DEF x, RouteOf

\* A peer that is heard keeps its place.
LEMMA Hearing ==
    ASSUME NEW t, NEW S, Filed(t, S), NEW id \in S
    PROVE  /\ Filed(Hear(t, id), S) /\ Hear(t, id).routes = t.routes
           /\ Hear(t, id).peers = [t.peers EXCEPT ![id] = Spoken(t.peers[id])]
    <1> DEFINE e == Spoken(t.peers[id])
               n == Hear(t, id)
    <1>1. IsTable(t) /\ t.peers \in [S -> Entry] /\ t.peers[id] \in Entry
      BY DEF Filed
    <1>2. Sound(e) /\ RouteOf(e) = RouteOf(t.peers[id]) /\ e.sid = t.peers[id].sid
      BY <1>1, SpokenSound
    <1> HIDE DEF e
    <1>3. /\ n.peers = [t.peers EXCEPT ![id] = e] /\ n.routes = t.routes
          /\ n.by_session = t.by_session /\ n.order = t.order
          /\ n.heard = Append(Retain(t.heard, {id}), id) /\ IsTable(n)
      <2> DEFINE h == Append(Retain(t.heard, {id}), id)
      <2>1. n = [t EXCEPT !.peers[id] = e, !.heard = h]
        BY DEF Hear, e
      <2> HIDE DEF h, n
      <2>2. /\ n.peers = [t.peers EXCEPT ![id] = e] /\ n.routes = t.routes
            /\ n.by_session = t.by_session /\ n.order = t.order /\ n.heard = h
        BY <1>1, <2>1 DEF IsTable
      <2>3. IsTable(n)
        BY <1>1, <2>1, <2>2, Zenon DEF IsTable
      <2> QED  BY <2>2, <2>3 DEF h
    <1> HIDE DEF n
    <1>4. n.peers \in [S -> Entry] /\ n.peers[id] = e /\ \A i \in S \ {id} : n.peers[i] = t.peers[i]
      BY <1>1, <1>2, <1>3, Zenon DEF Sound
    <1>5. \A i \in S : /\ Sound(n.peers[i]) /\ RouteOf(n.peers[i]) = RouteOf(t.peers[i])
                       /\ n.peers[i].sid = t.peers[i].sid
      BY <1>2, <1>4 DEF Filed
    <1>6. ASSUME NEW s \in Sids
          PROVE  Listed(n.by_session[s], {i \in S : n.peers[i].sid = s})
      <2>1. {i \in S : n.peers[i].sid = s} = {i \in S : t.peers[i].sid = s}
        BY <1>5
      <2> QED  BY <2>1, <1>3, Zenon DEF Filed
    <1>7. Listed(n.heard, S)
      <2> DEFINE r == Retain(t.heard, {id})
      <2>1. Listed(r, S \ {id})
        BY ListedLess DEF Filed
      <2> HIDE DEF r
      <2>2. Listed(Append(r, id), (S \ {id}) \cup {id})
        BY <2>1, ListedMore
      <2>3. (S \ {id}) \cup {id} = S
        OBVIOUS
      <2> QED  BY <2>2, <2>3, <1>3, Zenon DEF r
    <1>8. \A i \in S : /\ RouteOf(n.peers[i]) \in DOMAIN n.routes
                       /\ n.routes[RouteOf(n.peers[i])] = i
      BY <1>3, <1>5 DEF Filed
    <1>9. \A r \in DOMAIN n.routes : n.routes[r] \in S /\ r = RouteOf(n.peers[n.routes[r]])
      BY <1>3, <1>5 DEF Filed
    <1>10. Listed(n.order, S)
      BY <1>3 DEF Filed
    <1>11. Filed(n, S)
      BY <1>3, <1>4, <1>5, <1>6, <1>7, <1>8, <1>9, <1>10, Zenon DEF Filed
    <1> QED  BY <1>3, <1>11 DEF e, n

\* A table n that files what t does, with one session moved.
MovedTo(n, t, S, id, addr) ==
    /\ Filed(n, S) /\ n.peers[id].addr = addr /\ n.peers[id].probe = {}
    /\ \A i \in S \ {id} : n.peers[i] = t.peers[i]

\* A session that moves to a route nobody has keeps its place under its
\* identifier, and leaves its old route.
LEMMA Settled ==
    ASSUME NEW t, NEW S, Filed(t, S), NEW id \in S, NEW addr \in Addrs,
           <<addr, t.peers[id].sid>> \notin DOMAIN t.routes
    PROVE  MovedTo(Settle(t, id, addr), t, S, id, addr)
    <1> DEFINE d == Drop(t, {})
               e == t.peers[id]
               moved == [e EXCEPT !.addr = addr, !.probe = {}]
               route == <<addr, e.sid>>
               n == Settle(t, id, addr)
    <1>1. n = [d EXCEPT !.peers[id] = moved,
                        !.routes = With(Without(@, {RouteOf(e)}), route, id)]
      BY DEF Settle
    <1>2. S \ {} = S /\ {} \in SUBSET S
      OBVIOUS
    <1>3. /\ Filed(d, S) /\ d.peers = [i \in S |-> t.peers[i]]
          /\ route \notin DOMAIN d.routes
      <2>1. /\ Filed(d, S \ {}) /\ d.peers = [i \in S \ {} |-> t.peers[i]]
            /\ DOMAIN d.routes \subseteq DOMAIN t.routes
        BY <1>2, Dropped, Zenon
      <2> HIDE DEF d
      <2> QED  BY <2>1, <1>2
    <1> HIDE DEF d
    <1>4. IsTable(d) /\ e \in Entry /\ Sound(e)
      BY <1>3 DEF Filed
    <1>5. /\ Sound(moved) /\ RouteOf(moved) = route /\ moved.sid = e.sid
          /\ moved.addr = addr /\ moved.probe = {}
      BY <1>4, Zenon DEF Sound, Entry, RouteOf
    <1> HIDE DEF moved, n
    <1>6. /\ n.peers = [d.peers EXCEPT ![id] = moved]
          /\ n.routes = With(Without(d.routes, {RouteOf(e)}), route, id)
          /\ n.by_session = d.by_session /\ n.order = d.order /\ n.heard = d.heard
          /\ IsTable(n)
      BY <1>1, <1>4, Zenon DEF IsTable
    <1>7. n.peers \in [S -> Entry] /\ n.peers[id] = moved /\ \A i \in S \ {id} : n.peers[i] = t.peers[i]
      BY <1>3, <1>5, <1>6, SMTT(30) DEF Sound, Filed
    <1>8. /\ DOMAIN n.routes = (DOMAIN d.routes \ {RouteOf(e)}) \cup {route}
          /\ n.routes[route] = id
          /\ \A r \in DOMAIN d.routes \ {RouteOf(e)} : n.routes[r] = d.routes[r]
      BY <1>3, <1>6 DEF With, Without
    <1>9. ASSUME NEW i \in S
          PROVE  /\ Sound(n.peers[i])
                 /\ RouteOf(n.peers[i]) \in DOMAIN n.routes
                 /\ n.routes[RouteOf(n.peers[i])] = i
      <2>1. CASE i = id
        BY <2>1, <1>5, <1>7, <1>8
      <2>2. CASE i # id
        <3>1. n.peers[i] = d.peers[i]
          BY <2>2, <1>3, <1>7, Zenon
        <3>2. Sound(d.peers[i]) /\ RouteOf(d.peers[i]) \in DOMAIN d.routes
              /\ d.routes[RouteOf(d.peers[i])] = i /\ d.routes[RouteOf(e)] = id
          BY <1>3 DEF Filed
        <3> QED  BY <2>2, <3>1, <3>2, <1>8
      <2> QED  BY <2>1, <2>2
    <1>10. ASSUME NEW r \in DOMAIN n.routes
           PROVE  n.routes[r] \in S /\ r = RouteOf(n.peers[n.routes[r]])
      <2>1. CASE r = route
        BY <2>1, <1>5, <1>7, <1>8, Zenon
      <2>2. CASE r # route
        <3>1. r \in DOMAIN d.routes /\ r # RouteOf(e) /\ n.routes[r] = d.routes[r]
          BY <2>2, <1>8, ZenonT(30)
        <3>2. d.routes[r] \in S /\ r = RouteOf(d.peers[d.routes[r]])
          BY <3>1, <1>3 DEF Filed
        <3>3. d.routes[r] # id
          BY <3>1, <3>2, <1>3
        <3> QED  BY <3>1, <3>2, <3>3, <1>3, <1>7
      <2> QED  BY <2>1, <2>2
    <1>11. ASSUME NEW s \in Sids
           PROVE  Listed(n.by_session[s], {i \in S : n.peers[i].sid = s})
      <2>1. {i \in S : n.peers[i].sid = s} = {i \in S : d.peers[i].sid = s}
        BY <1>3, <1>5, <1>7, ZenonT(30)
      <2> QED  BY <2>1, <1>3, <1>6, Zenon DEF Filed
    <1>12. Listed(n.order, S) /\ Listed(n.heard, S)
      BY <1>3, <1>6 DEF Filed
    <1>13. Filed(n, S)
      BY <1>6, <1>7, <1>9, <1>10, <1>11, <1>12, Zenon DEF Filed
    <1>14. MovedTo(n, t, S, id, addr)
      BY <1>5, <1>7, <1>13, Zenon DEF MovedTo
    <1> QED  BY <1>14 DEF n

-----------------------------------------------------------------------------
(* The inductive invariant.                                                *)

\* Handles are given out in turn, and each belongs to a session or a handshake.
Handles ==
    /\ \E n \in Nat : used = 1 .. n
    /\ used \subseteq Ids /\ Held \subseteq used /\ DOMAIN outbound \subseteq used
    /\ Held \cap DOMAIN outbound = {}
    /\ \A i \in DOMAIN outbound : outbound[i] \in Addrs \X Sids
    /\ max_peers \in 1 .. MaxPeers /\ world \in Worlds

\* A token on its way that is the one of a session's probe: in an answer, the
\* session was reached at the address probed; in a challenge, it goes there.
Tokened ==
    /\ \A f \in net \cap Frame : \A p \in Peers[f.id].probe :
          f.token = p.token => <<f.id, p.addr>> \in reached
    /\ \A c \in net \cap Challenge : \A p \in Peers[c.id].probe :
          c.token = p.token => p.addr = c.dst

\* Where peers are, and what is on its way, are of sessions the table holds.
OnTheWay ==
    /\ where \in [Held -> Addrs]
    /\ net \subseteq Frame \cup Challenge /\ \A m \in net : m.id \in Held
    /\ reached \subseteq Ids \X Addrs

\* The table files what it holds, and what can still change it is accounted for.
IInv ==
    Filed(table, Held) /\ Handles /\ OnTheWay /\ Tokened /\ FiledWhereReached

\* What MovesDisplaceNobody says of a step.
Undisplaced ==
    \A i \in Held : i \in DOMAIN table'.peers /\ table'.peers[i].addr # Peers[i].addr
                     => DOMAIN table'.peers = Held

\* The table is finite, and the next handle is one that was never given out.
LEMMA HeldFinite ==
    ASSUME Handles
    PROVE  /\ IsFiniteSet(Held) /\ NextId \notin used /\ max_peers \in Nat \ {0}
           /\ \E n \in Nat : used \cup {NextId} = 1 .. n
    <1>1. PICK n \in Nat : used = 1 .. n
      BY DEF Handles
    <1>2. IsFiniteSet(used) /\ Cardinality(used) = n
      BY <1>1, FS_Interval
    <1>3. NextId = n + 1
      BY <1>2 DEF NextId
    <1>4. IsFiniteSet(Held)
      BY <1>2, FS_Subset, Zenon DEF Handles
    <1>5. used \cup {NextId} = 1 .. n + 1 /\ NextId \notin used
      BY <1>1, <1>3
    <1> QED  BY <1>4, <1>5, TableAssumption DEF Handles

\* An endpoint begins with an empty table.
LEMMA InitIInv ==
    ASSUME Init PROVE IInv
    <1> USE DEF Init
    <1>1. Held = {} /\ DOMAIN table.routes = {} /\ table.order = <<>> /\ table.heard = <<>>
          /\ \A s \in Sids : table.by_session[s] = <<>>
      BY DEF Held, Peers
    <1>2. Listed(<<>>, {})
      BY DEF Listed, Range, IsInjective
    <1>3. IsTable(table)
      BY DEF IsTable
    <1>4. Filed(table, Held)
      <2>1. table.peers \in [Held -> Entry]
        BY <1>1 DEF Held, Peers
      <2>2. \A s \in Sids : {i \in Held : table.peers[i].sid = s} = {}
        BY <1>1
      <2> QED  BY <1>1, <1>2, <1>3, <2>1, <2>2 DEF Filed
    <1>5. Handles
      <2>1. world.gone \in Ids \cup {0}
        BY TableAssumption
      <2>2. Cardinality(Ids) \in Nat
        BY TableAssumption, FS_CardinalityType
      <2>3. world.gone \in Nat /\ 1 .. world.gone \subseteq Ids
        BY <2>1, <2>2, TableAssumption
      <2>4. MaxPeers \in 1 .. MaxPeers
        BY TableAssumption
      <2> QED  BY <1>1, <2>3, <2>4 DEF Handles
    <1>6. OnTheWay /\ Tokened /\ FiledWhereReached
      BY <1>1 DEF OnTheWay, Tokened, FiledWhereReached
    <1> QED  BY <1>4, <1>5, <1>6 DEF IInv

-----------------------------------------------------------------------------
(* Sessions come and go.                                                   *)

\* When sessions have come or gone: what is left of the sessions is as it was,
\* and one that has come is where its peer is.
LEMMA PeopledKeeps ==
    ASSUME IInv, NEW known, Peopled(known), Filed(table', Held'), Handles',
           \A i \in Held' : known[i] \in Addrs,
           \A i \in Held' \cap Held : Peers'[i] = Peers[i],
           \A i \in Held' \ Held : Peers'[i].addr = known[i]
    PROVE  IInv' /\ Undisplaced
    <1>1. /\ net' = {m \in net : m.id \in Held'}
          /\ where' = [i \in Held' |-> known[i]]
          /\ reached' = {<<i, known[i]>> : i \in Held' \ Held} \cup {r \in reached : r[1] \in Held'}
      BY DEF Peopled, Held, Peers
    <1>2. \A m \in net' : m \in net /\ m.id \in Held /\ m.id \in Held' /\ Peers'[m.id] = Peers[m.id]
      BY <1>1 DEF IInv, OnTheWay
    <1>3. \A i \in Held : \A a : i \in Held' /\ <<i, a>> \in reached => <<i, a>> \in reached'
      BY <1>1
    <1>4. OnTheWay'
      <2>1. Held' \subseteq Ids
        BY DEF Handles
      <2> QED  BY <1>1, <1>2, <2>1 DEF IInv, OnTheWay
    <1>5. FiledWhereReached'
      <2> SUFFICES ASSUME NEW i \in Held' PROVE <<i, Peers'[i].addr>> \in reached'
        BY Zenon DEF FiledWhereReached
      <2>1. CASE i \in Held
        BY <2>1, <1>3 DEF IInv, FiledWhereReached
      <2>2. CASE i \notin Held
        BY <2>2, <1>1
      <2> QED  BY <2>1, <2>2
    <1>6. Tokened'
      <2>1. ASSUME NEW m \in net' \cap Frame, NEW p \in Peers'[m.id].probe, m.token = p.token
            PROVE  <<m.id, p.addr>> \in reached'
        BY <2>1, <1>2, <1>3 DEF IInv, Tokened
      <2>2. ASSUME NEW m \in net' \cap Challenge, NEW p \in Peers'[m.id].probe, m.token = p.token
            PROVE  p.addr = m.dst
        BY <2>2, <1>2 DEF IInv, Tokened
      <2> QED  BY <2>1, <2>2 DEF Tokened
    <1>7. Undisplaced
      BY ZenonT(30) DEF Undisplaced, Held, Peers
    <1> QED  BY <1>4, <1>5, <1>6, <1>7, Zenon DEF IInv

\* A session is filed, by Accept or Complete.
LEMMA Arrives ==
    ASSUME IInv, NEW id, id \notin Held, NEW addr \in Addrs, NEW sid \in Sids,
           NEW left \in {-1, Replies}, table' = File(table, id, addr, sid, left),
           Peopled(With(where, id, addr)),
           (\A S \in SUBSET Held : Held' = S \cup {id} => Handles')
    PROVE  IInv' /\ Undisplaced
    <1>1. PICK gone \in SUBSET Held :
              /\ Filed(table', (Held \ gone) \cup {id})
              /\ table'.peers[id].addr = addr
              /\ \A i \in Held \ gone : table'.peers[i] = table.peers[i]
      <2>1. Filed(table, Held) /\ IsFiniteSet(Held) /\ max_peers \in Nat \ {0}
        BY HeldFinite DEF IInv
      <2>2. \E gone \in SUBSET Held :
               Joined(File(table, id, addr, sid, left), table, Held, gone, id, addr)
        BY <2>1, FiledAnew, ZenonT(30)
      <2> QED  BY <2>2, Zenon DEF Joined
    <1>2. Held' = (Held \ gone) \cup {id}
      BY <1>1 DEF Filed, Held, Peers
    <1>3. Handles' /\ Filed(table', Held')
      BY <1>1, <1>2, Zenon
    <1> DEFINE known == With(where, id, addr)
    <1>4. known[id] = addr /\ \A i \in Held : known[i] = where[i] /\ where[i] \in Addrs
      BY DEF With, IInv, OnTheWay
    <1> HIDE DEF known
    <1>5. /\ \A i \in Held' : known[i] \in Addrs
          /\ \A i \in Held' \cap Held : Peers'[i] = Peers[i]
          /\ \A i \in Held' \ Held : Peers'[i].addr = known[i]
      BY <1>1, <1>2, <1>4, Zenon DEF Peers
    <1> QED  BY <1>3, <1>5, PeopledKeeps DEF known

\* Sessions are dropped, by PeerLost or Disconnect.
LEMMA Leave ==
    ASSUME IInv, NEW gone \in SUBSET Held, table' = Drop(table, gone), Peopled(where),
           UNCHANGED <<outbound, max_peers, used, world>>
    PROVE  IInv' /\ Undisplaced
    <1>1. /\ Filed(table', Held \ gone)
          /\ table'.peers = [i \in Held \ gone |-> table.peers[i]]
      BY Dropped DEF IInv
    <1>2. Held' = Held \ gone /\ \A i \in Held' : Peers'[i] = Peers[i]
      BY <1>1 DEF Held, Peers
    <1>3. Handles'
      <2>1. Held' \subseteq Held
        BY <1>2
      <2> QED  BY <2>1 DEF IInv, Handles
    <1>4. \A i \in Held' : i \in Held /\ where[i] \in Addrs
      BY <1>2 DEF IInv, OnTheWay
    <1> QED  BY <1>1, <1>2, <1>3, <1>4, PeopledKeeps, Zenon

\* A peer whose handshake is accepted is filed where it wrote from.
LEMMA AcceptStep ==
    ASSUME IInv, NEW id \in Ids, NEW addr \in Addrs, NEW sid \in Sids, Accept(id, addr, sid)
    PROVE  IInv' /\ Undisplaced
    <1>1. id = NextId /\ id \notin used /\ id \notin Held
      BY HeldFinite DEF Accept, IInv, Handles
    <1>2. \A S \in SUBSET Held : Held' = S \cup {id} => Handles'
      <2> SUFFICES ASSUME NEW S \in SUBSET Held, Held' = S \cup {id} PROVE Handles'
        BY Zenon
      <2>1. \E n \in Nat : used' = 1 .. n
        BY <1>1, HeldFinite, Zenon DEF IInv, Accept
      <2>2. /\ used' = used \cup {id}
            /\ outbound' = outbound /\ max_peers' = max_peers /\ world' = world
        BY DEF Accept
      <2> QED  BY <1>1, <2>1, <2>2 DEF IInv, Handles
    <1>3. /\ table' = File(table, id, addr, sid, Replies) /\ Peopled(With(where, id, addr))
          /\ Replies \in {-1, Replies}
      BY DEF Accept
    <1> QED  BY <1>1, <1>2, <1>3, Arrives, Zenon

\* A connect that completes is filed where it was addressed.
LEMMA CompleteStep ==
    ASSUME IInv, NEW id \in DOMAIN outbound, Complete(id)
    PROVE  IInv' /\ Undisplaced
    <1> DEFINE addr == outbound[id][1]
               sid == outbound[id][2]
    <1>1. id \notin Held /\ id \in used /\ addr \in Addrs /\ sid \in Sids
      BY DEF IInv, Handles
    <1>2. /\ table' = File(table, id, addr, sid, -1) /\ Peopled(With(where, id, addr))
          /\ -1 \in {-1, Replies}
      BY DEF Complete
    <1>3. \A S \in SUBSET Held : Held' = S \cup {id} => Handles'
      <2> SUFFICES ASSUME NEW S \in SUBSET Held, Held' = S \cup {id} PROVE Handles'
        OBVIOUS
      <2>1. /\ DOMAIN outbound' = DOMAIN outbound \ {id}
            /\ \A i \in DOMAIN outbound' : outbound'[i] = outbound[i]
            /\ used' = used /\ max_peers' = max_peers /\ world' = world
        BY DEF Complete, Without
      <2> QED  BY <1>1, <2>1, Zenon DEF IInv, Handles
    <1> HIDE DEF addr, sid
    <1> QED  BY <1>1, <1>2, <1>3, Arrives

\* Those that fell silent are dropped, the longest silent first.
LEMMA PeerLostStep ==
    ASSUME IInv, PeerLost
    PROVE  IInv' /\ Undisplaced
    <1>1. PICK n \in 1 .. Len(table.heard) :
              table' = Drop(table, {table.heard[k] : k \in 1 .. n})
      BY Zenon DEF PeerLost
    <1> DEFINE gone == {table.heard[k] : k \in 1 .. n}
    <1>2. gone \in SUBSET Held
      <2>1. table.heard \in Seq(Held)
        BY DEF IInv, Filed, Listed
      <2> QED  BY <2>1, SMTT(30)
    <1> HIDE DEF gone
    <1>3. table' = Drop(table, gone)
      BY <1>1 DEF gone
    <1> QED  BY <1>2, <1>3, Leave, Zenon DEF PeerLost

\* The table stays as it is, and so do the peers and the network.
LEMMA NothingMoves ==
    ASSUME IInv, Handles', UNCHANGED <<table, where, net, reached>>
    PROVE  IInv' /\ Undisplaced
    <1>1. Held' = Held /\ Peers' = Peers
      BY DEF Held, Peers
    <1>2. Filed(table', Held')
      BY <1>1, Zenon DEF IInv
    <1>3. OnTheWay' /\ Tokened' /\ FiledWhereReached'
      BY <1>1 DEF IInv, OnTheWay, Tokened, FiledWhereReached
    <1> QED  BY <1>2, <1>3 DEF IInv, Undisplaced, Peers

\* The application drops a session, or gives up a handshake.
LEMMA DisconnectStep ==
    ASSUME IInv, NEW id \in Ids, Disconnect(id)
    PROVE  IInv' /\ Undisplaced
    <1>1. CASE id \in Held /\ table' = Drop(table, {id}) /\ UNCHANGED outbound
      <2> DEFINE gone == {id}
      <2>1. gone \in SUBSET Held /\ table' = Drop(table, gone)
        BY <1>1
      <2> HIDE DEF gone
      <2> QED  BY <1>1, <2>1, Leave DEF Disconnect
    <1>2. CASE id \in DOMAIN outbound /\ outbound' = Without(outbound, {id}) /\ UNCHANGED table
      <2>1. Held' = Held /\ Peers' = Peers
        BY <1>2 DEF Held, Peers
      <2>2. Handles'
        <3>1. /\ DOMAIN outbound' \subseteq DOMAIN outbound
              /\ \A i \in DOMAIN outbound' : outbound'[i] = outbound[i]
              /\ used' = used /\ max_peers' = max_peers /\ world' = world
          BY <1>2 DEF Disconnect, Without
        <3> QED  BY <2>1, <3>1 DEF IInv, Handles
      <2>3. Filed(table', Held')
        BY <1>2, <2>1 DEF IInv
      <2>4. \A i \in Held' : where[i] \in Addrs
        BY <2>1 DEF IInv, OnTheWay
      <2> QED  BY <2>1, <2>2, <2>3, <2>4, PeopledKeeps DEF Disconnect
    <1> QED  BY <1>1, <1>2, Zenon DEF Disconnect

\* A connect takes the next handle, and files nothing yet.
LEMMA ConnectStep ==
    ASSUME IInv, NEW id \in Ids, NEW addr \in Addrs, NEW sid \in Sids, Connect(id, addr, sid)
    PROVE  IInv' /\ Undisplaced
    <1>1. id = NextId /\ id \notin used
      BY HeldFinite DEF Connect, IInv
    <1>2. Held' = Held
      BY DEF Connect, Held, Peers
    <1>3. /\ DOMAIN outbound' = DOMAIN outbound \cup {id}
          /\ outbound'[id] = <<addr, sid>>
          /\ \A i \in DOMAIN outbound : i # id => outbound'[i] = outbound[i]
          /\ used' = used \cup {id} /\ max_peers' = max_peers /\ world' = world
      BY Zenon DEF Connect, With
    <1>4. \E n \in Nat : used' = 1 .. n
      BY <1>1, <1>3, HeldFinite DEF IInv
    <1>5. Handles'
      <2>1. ASSUME NEW i \in DOMAIN outbound' PROVE outbound'[i] \in Addrs \X Sids
        <3>1. CASE i = id
          BY <1>3, <3>1
        <3>2. CASE i # id
          <4>1. i \in DOMAIN outbound /\ outbound'[i] = outbound[i]
            BY <1>3, <3>2
          <4> QED  BY <4>1 DEF IInv, Handles
        <3> QED  BY <3>1, <3>2
      <2>2. used' \subseteq Ids /\ Held' \subseteq used' /\ DOMAIN outbound' \subseteq used'
        BY <1>2, <1>3 DEF IInv, Handles
      <2>3. Held' \cap DOMAIN outbound' = {}
        BY <1>1, <1>2, <1>3 DEF IInv, Handles
      <2>4. max_peers' \in 1 .. MaxPeers /\ world' \in Worlds
        BY <1>3 DEF IInv, Handles
      <2> QED  BY <1>4, <2>1, <2>2, <2>3, <2>4 DEF Handles
    <1> QED  BY <1>5, NothingMoves DEF Connect

\* A connect that fails leaves the table alone.
LEMMA ConnectFailsStep ==
    ASSUME IInv, NEW id \in DOMAIN outbound, ConnectFails(id)
    PROVE  IInv' /\ Undisplaced
    <1>1. Held' = Held
      BY DEF ConnectFails, Held, Peers
    <1>2. /\ DOMAIN outbound' \subseteq DOMAIN outbound
          /\ \A i \in DOMAIN outbound' : outbound'[i] = outbound[i]
          /\ used' = used /\ max_peers' = max_peers /\ world' = world
      BY DEF ConnectFails, Without
    <1>3. Handles'
      BY <1>1, <1>2 DEF IInv, Handles
    <1> QED  BY <1>3, NothingMoves DEF ConnectFails

\* A smaller limit evicts no one by itself.
LEMMA SetMaxPeersStep ==
    ASSUME IInv, NEW limit \in 0 .. MaxPeers, SetMaxPeers(limit)
    PROVE  IInv' /\ Undisplaced
    <1>1. Held' = Held
      BY DEF SetMaxPeers, Held, Peers
    <1>2. max_peers' \in 1 .. MaxPeers
      BY TableAssumption DEF SetMaxPeers
    <1>3. Handles'
      BY <1>1, <1>2 DEF IInv, Handles, SetMaxPeers
    <1> QED  BY <1>3, NothingMoves DEF SetMaxPeers

-----------------------------------------------------------------------------
(* What changes no session's place.                                        *)

\* An entry changes, but not where it is filed, and its probe stays the probe
\* of the same address with the same token.
LEMMA EntryChanges ==
    ASSUME IInv, NEW id \in Held, NEW e, Sound(e), RouteOf(e) = RouteOf(Peers[id]),
           e.addr = Peers[id].addr,
           \A p \in e.probe : \E q \in Peers[id].probe : p.addr = q.addr /\ p.token = q.token,
           table' = [table EXCEPT !.peers = [Peers EXCEPT ![id] = e]],
           UNCHANGED <<outbound, max_peers, used, where, net, reached, world>>
    PROVE  IInv' /\ Undisplaced
    <1> DEFINE entries == [Peers EXCEPT ![id] = e]
    <1>1. Peers \in [Held -> Entry] /\ \A i \in Held : Sound(Peers[i])
      BY DEF IInv, Filed, Peers
    <1>2. /\ entries \in [Held -> Entry] /\ entries[id] = e
          /\ \A i \in Held : i # id => entries[i] = Peers[i]
      BY <1>1 DEF Sound
    <1>3. \A i \in Held : RouteOf(entries[i]) = RouteOf(Peers[i]) /\ Sound(entries[i])
      BY <1>1, <1>2
    <1>4. table' = Renew(table, entries)
      BY DEF Renew
    <1> HIDE DEF entries
    <1>5. Filed(table', Held) /\ table'.peers = entries
      <2>1. Filed(table, Held)
        BY DEF IInv
      <2>2. Alike(table, Held, entries)
        BY <1>2, <1>3 DEF Alike, Peers
      <2>3. Filed(Renew(table, entries), Held) /\ Renew(table, entries).peers = entries
        BY <2>1, <2>2, Updated
      <2> QED  BY <1>4, <2>3, Zenon
    <1>6. Held' = Held /\ Peers' = entries
      BY <1>2, <1>5 DEF Held, Peers
    <1>7. \A i \in Held : Peers'[i].addr = Peers[i].addr
      BY <1>2, <1>6
    <1>8. \A i \in Held : \A p \in Peers'[i].probe :
              \E q \in Peers[i].probe : p.addr = q.addr /\ p.token = q.token
      BY <1>2, <1>6
    <1>9. Handles' /\ OnTheWay' /\ FiledWhereReached'
      BY <1>6, <1>7 DEF IInv, Handles, OnTheWay, FiledWhereReached
    <1>10. \A m \in net : m.id \in Held
      BY DEF IInv, OnTheWay
    <1>11. Tokened'
      BY <1>8, <1>10 DEF IInv, Tokened
    <1> QED  BY <1>5, <1>6, <1>7, <1>9, <1>11 DEF IInv, Undisplaced, Peers

\* A handshake that comes again is answered again, and nothing is filed twice.
LEMMA RepeatHandshakeStep ==
    ASSUME IInv, NEW id \in Held, RepeatHandshake(id)
    PROVE  IInv' /\ Undisplaced
    <1> DEFINE x == Peers[id]
               e == [x EXCEPT !.left = @ - 1, !.resent = @ + 1]
    <1>1. Sound(x) /\ x \in Entry /\ x.left >= 0
      BY DEF IInv, Filed, Peers, Sound, RepeatHandshake
    <1>2. table' = [table EXCEPT !.peers = [Peers EXCEPT ![id] = e]]
      BY Zenon DEF RepeatHandshake, Peers
    <1>3. /\ e.left = x.left - 1 /\ e.resent = x.resent + 1
          /\ e.addr = x.addr /\ e.sid = x.sid /\ e.probe = x.probe
      BY <1>1 DEF Entry
    <1>4. x.left - 1 \in -1 .. Replies /\ x.resent + 1 \in 0 .. Replies + 1
      BY <1>1, TableAssumption, SMTT(30) DEF Sound, Entry
    <1>5. e \in Entry
      BY <1>1, <1>4, Zenon DEF Entry
    <1>6. x.left \in Int /\ x.resent \in Int /\ Replies \in Int
      BY <1>1, TableAssumption DEF Entry
    <1> HIDE DEF e, x
    <1>7. Sound(e)
      BY <1>1, <1>3, <1>5, <1>6 DEF Sound
    <1>8. RouteOf(e) = RouteOf(x)
      BY <1>3 DEF RouteOf
    <1> QED  BY <1>2, <1>3, <1>7, <1>8, EntryChanges, Zenon DEF RepeatHandshake, x

\* The budget of attempts to follow a session is filled up.
LEMMA RefillsStep ==
    ASSUME IInv, NEW id \in Held, Refills(id)
    PROVE  IInv' /\ Undisplaced
    <1> DEFINE x == Peers[id]
               e == [x EXCEPT !.budget = Rate]
    <1>1. Sound(x) /\ x \in Entry
      BY DEF IInv, Filed, Peers, Sound
    <1>2. table' = [table EXCEPT !.peers = [Peers EXCEPT ![id] = e]]
      BY DEF Refills, Peers
    <1>3. /\ e.left = x.left /\ e.resent = x.resent
          /\ e.addr = x.addr /\ e.sid = x.sid /\ e.probe = x.probe
      BY <1>1 DEF Entry
    <1>4. e \in Entry
      BY <1>1, TableAssumption, SMTT(30) DEF Entry
    <1> HIDE DEF e, x
    <1>5. Sound(e) /\ RouteOf(e) = RouteOf(x)
      BY <1>1, <1>3, <1>4 DEF Sound, RouteOf
    <1> QED  BY <1>2, <1>3, <1>5, EntryChanges, Zenon DEF Refills, x

\* A probe cools, and is given up when old.
LEMMA ProbeAgesStep ==
    ASSUME IInv, NEW id \in Held, ProbeAges(id)
    PROVE  IInv' /\ Undisplaced
    <1> DEFINE x == Peers[id]
    <1>1. Sound(x) /\ x \in Entry
      BY DEF IInv, Filed, Peers, Sound
    <1>2. PICK p \in x.probe :
              table' = [table EXCEPT !.peers[id].probe =
                          {[p EXCEPT !.age = IF @ = "hot" THEN "cool" ELSE "old"]}]
      BY Zenon DEF ProbeAges
    <1> DEFINE q == [p EXCEPT !.age = IF @ = "hot" THEN "cool" ELSE "old"]
               e == [x EXCEPT !.probe = {q}]
    <1>3. table' = [table EXCEPT !.peers = [Peers EXCEPT ![id] = e]]
      BY <1>2 DEF Peers
    <1>4. p \in Probe
      BY <1>1 DEF Entry
    <1>5. q \in Probe /\ q.addr = p.addr /\ q.token = p.token
      BY <1>4 DEF Probe
    <1> HIDE DEF q
    <1>6. {q} \in {{}} \cup {{r} : r \in Probe}
      BY <1>5
    <1>7. /\ e.left = x.left /\ e.resent = x.resent
          /\ e.addr = x.addr /\ e.sid = x.sid /\ e.probe = {q}
      BY <1>1 DEF Entry
    <1>8. e \in Entry
      BY <1>1, <1>6 DEF Entry
    <1> HIDE DEF e, x
    <1>9. Sound(e) /\ RouteOf(e) = RouteOf(x)
      BY <1>1, <1>7, <1>8 DEF Sound, RouteOf
    <1>10. \A r \in e.probe : \E o \in x.probe : r.addr = o.addr /\ r.token = o.token
      BY <1>2, <1>5, <1>7
    <1> QED  BY <1>3, <1>7, <1>9, <1>10, EntryChanges, Zenon DEF ProbeAges, x

-----------------------------------------------------------------------------
(* The peers and the network.                                              *)

\* The addresses of an instance are addresses.
LEMMA WorldAddrs ==
    ASSUME Handles PROVE world.addrs \subseteq Addrs
    BY TableAssumption DEF Handles

\* Nothing happens at the endpoint.
LEMMA Outside ==
    ASSUME IInv, UNCHANGED <<table, outbound, max_peers, used, world>>,
           OnTheWay', Tokened', FiledWhereReached'
    PROVE  IInv' /\ Undisplaced
    <1>1. Held' = Held /\ Peers' = Peers
      BY DEF Held, Peers
    <1>2. Filed(table', Held') /\ Handles'
      BY <1>1 DEF IInv, Handles
    <1> QED  BY <1>2 DEF IInv, Undisplaced, Peers

\* A peer that moves tells nobody.
LEMMA PeerMovesStep ==
    ASSUME IInv, NEW id \in Held, NEW addr \in Addrs, PeerMoves(id, addr)
    PROVE  IInv' /\ Undisplaced
    <1>1. Held' = Held /\ Peers' = Peers
      BY ZenonT(30) DEF PeerMoves, Held, Peers
    <1>2. OnTheWay' /\ Tokened' /\ FiledWhereReached'
      BY <1>1 DEF IInv, OnTheWay, Tokened, FiledWhereReached, PeerMoves
    <1> QED  BY <1>2, Outside DEF PeerMoves

\* A peer's frame carries no token, and proves nothing.
LEMMA PeerSendsStep ==
    ASSUME IInv, NEW id \in Held, PeerSends(id)
    PROVE  IInv' /\ Undisplaced
    <1> DEFINE m == [id |-> id, src |-> where[id], token |-> NoToken]
    <1>1. Held' = Held /\ Peers' = Peers /\ net' = net \cup {m} /\ where' = where /\ reached' = reached
      BY DEF PeerSends, Held, Peers
    <1>2. where[id] \in Addrs /\ id \in Ids
      BY DEF IInv, OnTheWay, Handles
    <1>3. m \in Frame /\ m.id = id /\ m.token = NoToken
      BY <1>2 DEF Frame
    <1>4. m \notin Challenge
      BY SMTT(30) DEF Challenge
    <1> HIDE DEF m
    <1>5. OnTheWay' /\ FiledWhereReached'
      BY <1>1, <1>3, Zenon DEF IInv, OnTheWay, FiledWhereReached
    <1>6. \A p \in Peers[id].probe : p.token # NoToken
      <2>1. Peers[id] \in Entry
        BY DEF IInv, Filed, Peers
      <2>2. \A p \in Peers[id].probe : p \in Probe
        BY <2>1, ZenonT(30) DEF Entry
      <2> QED  BY <2>2, TableAssumption, ZenonT(30) DEF Probe
    <1>7. Tokened'
      BY <1>1, <1>3, <1>4, <1>6 DEF IInv, Tokened
    <1> QED  BY <1>5, <1>7, Outside, ZenonT(30) DEF PeerSends

\* A datagram lost.
LEMMA LoseStep ==
    ASSUME IInv, NEW m \in net, Lose(m)
    PROVE  IInv' /\ Undisplaced
    <1>1. Held' = Held /\ Peers' = Peers
      BY ZenonT(30) DEF Lose, Held, Peers
    <1>2. OnTheWay' /\ Tokened' /\ FiledWhereReached'
      BY <1>1 DEF IInv, OnTheWay, Tokened, FiledWhereReached, Lose
    <1> QED  BY <1>2, Outside DEF Lose

\* A peer answers a challenge where it receives it, and so was reached there.
LEMMA PeerAnswersStep ==
    ASSUME IInv, NEW c \in net, NEW src \in Addrs, PeerAnswers(c, src)
    PROVE  IInv' /\ Undisplaced
    <1> DEFINE m == [id |-> c.id, src |-> src, token |-> c.token]
    <1>1. /\ Held' = Held /\ Peers' = Peers /\ net' = (net \ {c}) \cup {m}
          /\ where' = [where EXCEPT ![c.id] = src]
          /\ reached' = reached \cup {<<c.id, c.dst>>}
      BY DEF PeerAnswers, Held, Peers
    <1>2. c \in Challenge /\ c.id \in Held
      BY DEF PeerAnswers, IInv, OnTheWay
    <1>3. c.id \in Ids /\ c.dst \in Addrs /\ c.token \in Tokens
      BY <1>2 DEF Challenge
    <1>4. m \in Frame /\ m.id = c.id /\ m.token = c.token
      BY <1>3, Zenon DEF Frame
    <1>5. m \notin Challenge
      BY SMTT(30) DEF Challenge
    <1> HIDE DEF m
    <1>6. OnTheWay' /\ FiledWhereReached'
      BY <1>1, <1>2, <1>3, <1>4 DEF IInv, OnTheWay, FiledWhereReached
    <1>7. ASSUME NEW f \in net' \cap Frame, NEW p \in Peers'[f.id].probe, f.token = p.token
          PROVE  <<f.id, p.addr>> \in reached'
      <2>1. CASE f = m
        <3>1. p.addr = c.dst
          BY <1>1, <1>2, <1>4, <1>7, <2>1, Zenon DEF IInv, Tokened
        <3> QED  BY <3>1, <2>1, <1>1, <1>4, Zenon
      <2>2. CASE f # m
        BY <1>1, <1>7, <2>2, SMTT(30) DEF IInv, Tokened
      <2> QED  BY <2>1, <2>2
    <1>8. ASSUME NEW d \in net' \cap Challenge, NEW p \in Peers'[d.id].probe, d.token = p.token
          PROVE  p.addr = d.dst
      BY <1>1, <1>5, <1>8 DEF IInv, Tokened
    <1>9. Tokened'
      BY <1>7, <1>8, ZenonT(30) DEF Tokened
    <1> QED  BY <1>6, <1>9, Outside, ZenonT(30) DEF PeerAnswers

-----------------------------------------------------------------------------
(* A frame finds its session.                                              *)

\* What start_probe leaves: a probe of the address the frame came from, with the
\* new token or with the one it had.
LEMMA Probing ==
    ASSUME NEW e \in Entry, NEW addr \in Addrs, NEW token \in Tokens
    PROVE  /\ StartProbe(e, addr, token) \in {{}} \cup {{p} : p \in Probe}
           /\ \A p \in StartProbe(e, addr, token) :
                 /\ p.addr = addr /\ p.token \in Tokens
                 /\ p.token = token \/ \E q \in e.probe : q.addr = addr /\ q.token = p.token
    <1> DEFINE same == {p \in e.probe : p.addr = addr /\ p.age # "old"}
               Again(p) == IF p.sent < PathProbes /\ p.age = "cool"
                           THEN [p EXCEPT !.sent = @ + 1, !.age = "hot"] ELSE p
    <1>1. CASE same = {}
      <2> DEFINE p == [addr |-> addr, token |-> token, sent |-> 1, age |-> "hot"]
      <2>1. p \in Probe /\ p.addr = addr /\ p.token = token
        BY TableAssumption DEF Probe
      <2>2. StartProbe(e, addr, token) = {p}
        BY <1>1, Zenon DEF StartProbe
      <2> HIDE DEF p
      <2> QED  BY <2>1, <2>2, ZenonT(30)
    <1>2. CASE same # {}
      <2>1. PICK q \in e.probe : q.addr = addr /\ q \in same
        BY <1>2
      <2>2. q \in Probe /\ e.probe = {q}
        BY DEF Entry
      <2>3. StartProbe(e, addr, token) = {Again(p) : p \in same}
        BY <1>2, Zenon DEF StartProbe
      <2>4. same = {q}
        BY <2>1, <2>2
      <2>5. StartProbe(e, addr, token) = {Again(q)}
        BY <2>3, <2>4, Zenon
      <2>6. Again(q) \in Probe /\ Again(q).addr = addr /\ Again(q).token = q.token
        <3>1. CASE q.sent < PathProbes /\ q.age = "cool"
          <4>1. q.sent + 1 \in 1 .. PathProbes
            BY <2>2, <3>1, TableAssumption DEF Probe
          <4> QED  BY <2>1, <2>2, <3>1, <4>1, ZenonT(30) DEF Probe
        <3>2. CASE ~(q.sent < PathProbes /\ q.age = "cool")
          BY <2>1, <2>2, <3>2
        <3> QED  BY <3>1, <3>2
      <2>7. Again(q).token \in Tokens
        BY <2>2, <2>6, Zenon DEF Probe
      <2> HIDE DEF Again
      <2> QED  BY <2>1, <2>5, <2>6, <2>7, Zenon
    <1> QED  BY <1>1, <1>2

\* What the tries cost.
Spent(f) ==
    [i \in Held |-> IF i \in Tried(f, Sid(f)) /\ Peers[i].addr # f.src
                    THEN [Peers[i] EXCEPT !.budget = @ - 1] ELSE Peers[i]]

\* The tries cost budget that there is, and nothing else.
LEMMA Spending ==
    ASSUME IInv, NEW f
    PROVE  /\ Filed(Renew(table, Spent(f)), Held)
           /\ Renew(table, Spent(f)).peers = Spent(f)
           /\ Renew(table, Spent(f)).routes = table.routes
           /\ \A i \in Held : /\ Spent(f)[i] \in Entry /\ Spent(f)[i].addr = Peers[i].addr
                              /\ Spent(f)[i].sid = Peers[i].sid /\ Spent(f)[i].probe = Peers[i].probe
    <1>1. ASSUME NEW i \in Held
          PROVE  /\ Sound(Spent(f)[i]) /\ RouteOf(Spent(f)[i]) = RouteOf(Peers[i])
                 /\ Spent(f)[i] \in Entry /\ Spent(f)[i].addr = Peers[i].addr
                 /\ Spent(f)[i].sid = Peers[i].sid /\ Spent(f)[i].probe = Peers[i].probe
      <2>1. Sound(Peers[i]) /\ Peers[i] \in Entry
        BY Zenon DEF IInv, Filed, Peers, Sound
      <2>2. CASE i \in Tried(f, Sid(f)) /\ Peers[i].addr # f.src
        <3> DEFINE x == Peers[i]
                   e == [x EXCEPT !.budget = @ - 1]
        <3>1. MayTry(i, f.src)
          BY <2>2 DEF Tried
        <3>2. x.budget > 0
          BY <2>2, <3>1 DEF MayTry
        <3>3. x.budget - 1 \in 0 .. Rate
          BY <2>1, <3>2, TableAssumption DEF Entry
        <3>4. e \in Entry
          BY <2>1, <3>3 DEF Entry
        <3>5. /\ e.addr = x.addr /\ e.sid = x.sid /\ e.probe = x.probe
              /\ e.left = x.left /\ e.resent = x.resent
          BY <2>1 DEF Entry
        <3>6. Spent(f)[i] = e
          BY <2>2 DEF Spent
        <3> HIDE DEF e, x
        <3>7. Sound(e) /\ RouteOf(e) = RouteOf(x)
          BY <2>1, <3>4, <3>5, ZenonT(30) DEF Sound, RouteOf, x
        <3> QED  BY <3>4, <3>5, <3>6, <3>7, Zenon DEF x
      <2>3. CASE ~(i \in Tried(f, Sid(f)) /\ Peers[i].addr # f.src)
        <3>1. Spent(f)[i] = Peers[i]
          BY <2>3, ZenonT(30) DEF Spent
        <3> QED  BY <2>1, <3>1
      <2> QED  BY <2>2, <2>3, Zenon
    <1>2. Alike(table, Held, Spent(f))
      <2>1. Spent(f) = [i \in Held |-> Spent(f)[i]]
        BY DEF Spent
      <2>2. Spent(f) \in [Held -> Entry]
        BY <1>1, <2>1
      <2> QED  BY <1>1, <2>2 DEF Alike, Peers
    <1> QED  BY <1>1, <1>2, Updated, SMTT(30) DEF IInv

\* A frame that reaches a session from an address that is not its own comes from
\* one where no session of its identifier is filed: where there is one, it is
\* tried on that one alone.
LEMMA NobodyThere ==
    ASSUME IInv, NEW f, f.id \in Held, f.id \in Tried(f, Sid(f)), f.src # Peers[f.id].addr
    PROVE  <<f.src, Peers[f.id].sid>> \notin DOMAIN table.routes
    <1> DEFINE route == <<f.src, Peers[f.id].sid>>
    <1>1. SUFFICES ASSUME route \in DOMAIN table.routes PROVE FALSE
      OBVIOUS
    <1>2. Candidates(f, Sid(f)) = <<table.routes[route]>>
      BY <1>1, Zenon DEF Candidates, Sid
    <1>3. f.id = table.routes[route]
      BY <1>2, SMTT(30) DEF Tried
    <1>4. route = RouteOf(Peers[f.id])
      BY <1>1, <1>3, Zenon DEF IInv, Filed, Peers
    <1> QED  BY <1>4 DEF RouteOf

\* Sessions keep their handles when a frame is handled.  n is the table, with the
\* entries of all but id's probe and address as they were.
LEMMA Handled ==
    ASSUME IInv, NEW f \in net, f.id \in Held, Filed(table', Held),
           UNCHANGED <<outbound, max_peers, used, where, reached, world>>,
           NEW sent \in SUBSET Challenge, net' = (net \ {f}) \cup sent,
           \A c \in sent : c.id = f.id /\ \A p \in table'.peers[f.id].probe : p.addr = c.dst,
           <<f.id, table'.peers[f.id].addr>> \in reached,
           \A p \in table'.peers[f.id].probe :
              (\A m \in net : m.token # p.token)
              \/ \E q \in Peers[f.id].probe : q.addr = p.addr /\ q.token = p.token,
           \A i \in Held \ {f.id} : /\ table'.peers[i].addr = Peers[i].addr
                                     /\ table'.peers[i].probe = Peers[i].probe
    PROVE  IInv' /\ Undisplaced
    <1>1. Held' = Held /\ Peers' = table'.peers
      BY Zenon DEF Filed, Held, Peers
    <1>2. Handles' /\ OnTheWay'
      <2>1. Handles'
        BY <1>1, Zenon DEF IInv, Handles
      <2>2. net' \subseteq Frame \cup Challenge /\ \A m \in net' : m.id \in Held
        BY Zenon DEF IInv, OnTheWay
      <2> QED  BY <1>1, <2>1, <2>2, Zenon DEF IInv, OnTheWay
    <1>3. FiledWhereReached'
      <2> SUFFICES ASSUME NEW i \in Held PROVE <<i, Peers'[i].addr>> \in reached
        BY <1>1, Zenon DEF FiledWhereReached
      <2>1. CASE i = f.id
        BY <2>1, <1>1, Zenon
      <2>2. CASE i # f.id
        BY <2>2, <1>1, Zenon DEF IInv, FiledWhereReached
      <2> QED  BY <2>1, <2>2
    <1>4. ASSUME NEW m \in net, NEW p \in Peers'[m.id].probe, m.token = p.token
          PROVE  \E q \in Peers[m.id].probe : q.addr = p.addr /\ q.token = p.token
      <2>1. m.id \in Held
        BY Zenon DEF IInv, OnTheWay
      <2>2. CASE m.id = f.id
        BY <2>2, <1>1, <1>4, Zenon
      <2>3. CASE m.id # f.id
        BY <2>1, <2>3, <1>1, Zenon
      <2> QED  BY <2>2, <2>3, Zenon
    <1>5. ASSUME NEW m \in net' \cap Frame, NEW p \in Peers'[m.id].probe, m.token = p.token
          PROVE  <<m.id, p.addr>> \in reached'
      <2>1. m \in net
        <3>1. \A c \in Challenge : c \notin Frame
          BY SMTT(30) DEF Challenge, Frame
        <3> QED  BY <3>1, Zenon
      <2>2. PICK q \in Peers[m.id].probe : q.addr = p.addr /\ q.token = p.token
        BY <1>4, <1>5, <2>1, Zenon
      <2> QED  BY <2>1, <2>2, <1>5, SMTT(30) DEF IInv, Tokened
    <1>6. ASSUME NEW c \in net' \cap Challenge, NEW p \in Peers'[c.id].probe, c.token = p.token
          PROVE  p.addr = c.dst
      <2>1. CASE c \in sent
        BY <2>1, <1>1, Zenon
      <2>2. CASE c \notin sent
        <3>1. c \in net
          BY <2>2, Zenon
        <3>2. PICK q \in Peers[c.id].probe : q.addr = p.addr /\ q.token = p.token
          BY <1>4, <1>6, <3>1, Zenon
        <3> QED  BY <3>1, <3>2, <1>6, ZenonT(30) DEF IInv, Tokened
      <2> QED  BY <2>1, <2>2, Zenon
    <1>7. Tokened'
      BY <1>5, <1>6, Zenon DEF Tokened
    <1>8. Undisplaced
      BY <1>1 DEF Undisplaced, Held, Peers
    <1> QED  BY <1>1, <1>2, <1>3, <1>7, <1>8, Zenon DEF IInv

\* A frame of a session, from where it is filed or from elsewhere: the one step that
\* may file a session at another address, and does so only for an answered probe.
LEMMA RouteStep ==
    ASSUME IInv, NEW f \in net, Route(f)
    PROVE  IInv' /\ Undisplaced
    <1> DEFINE tried == Tried(f, Sid(f))
               spent == Renew(table, Spent(f))
               heard == Hear(spent, f.id)
    <1>1. f \in Frame /\ f.id \in Held /\ f.src \in Addrs
      BY Zenon DEF Route, Frame
    <1>2. /\ Filed(spent, Held) /\ spent.peers = Spent(f) /\ spent.routes = table.routes
          /\ \A i \in Held : /\ Spent(f)[i] \in Entry /\ Spent(f)[i].addr = Peers[i].addr
                             /\ Spent(f)[i].sid = Peers[i].sid /\ Spent(f)[i].probe = Peers[i].probe
      BY Spending
    <1>3. UNCHANGED <<outbound, max_peers, used, where, reached, world>>
      BY ZenonT(30) DEF Route
    <1>4. \/ f.id \notin tried /\ table' = spent /\ net' = net \ {f}
          \/ f.id \in tried /\ f.src = Peers[f.id].addr /\ table' = heard /\ net' = net \ {f}
          \/ /\ f.id \in tried /\ f.src # Peers[f.id].addr /\ f.token # NoToken
             /\ table' = IF Answered(Peers[f.id], f) THEN Settle(heard, f.id, f.src) ELSE heard
             /\ net' = net \ {f}
          \/ /\ f.id \in tried /\ f.src # Peers[f.id].addr /\ f.token = NoToken
             /\ \E token \in Tokens : Fresh(token)
             /\ LET token == CHOOSE t \in Tokens : Fresh(t)
                    probe == StartProbe(Peers[f.id], f.src, token)
                IN /\ table' = [heard EXCEPT !.peers[f.id].probe = probe]
                   /\ net' = (net \ {f}) \cup
                             {[id |-> f.id, dst |-> f.src, token |-> p.token]
                                : p \in {q \in probe : q \notin Peers[f.id].probe}}
      BY ZenonT(30) DEF Route, Renew, Spent
    <1> HIDE DEF spent, tried
    <1>5. /\ Filed(heard, Held) /\ heard.routes = table.routes
          /\ DOMAIN heard.peers = Held /\ heard.peers[f.id] \in Entry /\ Sound(heard.peers[f.id])
          /\ \A i \in Held : /\ heard.peers[i].addr = Peers[i].addr
                             /\ heard.peers[i].sid = Peers[i].sid
                             /\ heard.peers[i].probe = Peers[i].probe
      <2>1. /\ Filed(heard, Held) /\ heard.routes = spent.routes
            /\ heard.peers = [spent.peers EXCEPT ![f.id] = Spoken(spent.peers[f.id])]
        BY <1>1, <1>2, Hearing, SMTT(30)
      <2> HIDE DEF heard
      <2>2. DOMAIN heard.peers = Held /\ heard.peers[f.id] \in Entry /\ Sound(heard.peers[f.id])
        BY <1>1, <2>1, Zenon DEF Filed
      <2> DEFINE x == Spent(f)[f.id]
      <2>3. x \in Entry
        BY <1>1, <1>2, ZenonT(30)
      <2>4. Spoken(x).addr = x.addr /\ Spoken(x).sid = x.sid /\ Spoken(x).probe = x.probe
        BY <2>3, SpokenSound
      <2>5. DOMAIN Spent(f) = Held
        BY Zenon DEF Spent
      <2>6. heard.peers[f.id] = Spoken(x) /\ \A i \in Held \ {f.id} : heard.peers[i] = Spent(f)[i]
        BY <1>1, <1>2, <2>1, <2>5
      <2> QED  BY <1>2, <2>1, <2>2, <2>4, <2>6, SMTT(30)
    <1> HIDE DEF heard
    <1>6. \A i \in Held : <<i, Peers[i].addr>> \in reached
      BY DEF IInv, FiledWhereReached
    <1>7. {} \in SUBSET Challenge /\ net \ {f} = (net \ {f}) \cup {}
      OBVIOUS
    <1>8. ASSUME table' = spent, net' = net \ {f} PROVE IInv' /\ Undisplaced
      <2>1. \A i \in Held : /\ table'.peers[i].addr = Peers[i].addr
                           /\ table'.peers[i].probe = Peers[i].probe
        BY <1>2, <1>8
      <2> QED  BY <1>1, <1>2, <1>3, <1>6, <1>7, <1>8, <2>1, Handled, ZenonT(30)
    <1>9. ASSUME table' = heard, net' = net \ {f} PROVE IInv' /\ Undisplaced
      <2>1. \A i \in Held : /\ table'.peers[i].addr = Peers[i].addr
                           /\ table'.peers[i].probe = Peers[i].probe
        BY <1>5, <1>9
      <2> QED  BY <1>1, <1>3, <1>5, <1>6, <1>7, <1>9, <2>1, Handled, ZenonT(30)
    <1>10. ASSUME f.id \in tried, f.src # Peers[f.id].addr, Answered(Peers[f.id], f),
                  table' = Settle(heard, f.id, f.src), net' = net \ {f}
           PROVE  IInv' /\ Undisplaced
      <2>1. <<f.src, Peers[f.id].sid>> \notin DOMAIN table.routes
        BY <1>1, <1>10, NobodyThere, ZenonT(30) DEF tried
      <2>2. <<f.src, heard.peers[f.id].sid>> \notin DOMAIN heard.routes
        BY <1>1, <1>5, <2>1
      <2>3. /\ Filed(table', Held) /\ table'.peers[f.id].addr = f.src
            /\ table'.peers[f.id].probe = {}
            /\ \A i \in Held \ {f.id} : table'.peers[i] = heard.peers[i]
        <3> DEFINE n == Settle(heard, f.id, f.src)
        <3>0. f.id \in Held /\ f.src \in Addrs
          BY <1>1 DEF Frame
        <3>1. MovedTo(n, heard, Held, f.id, f.src)
          BY <1>5, <2>2, <3>0, Settled, Zenon
        <3> HIDE DEF n
        <3>2. table' = n
          BY <1>10, Zenon DEF n
        <3> QED  BY <3>1, <3>2, Zenon DEF MovedTo
      <2>4. <<f.id, f.src>> \in reached
        BY <1>1, <1>10, ZenonT(30) DEF Answered, IInv, Tokened
      <2>5. \A i \in Held \ {f.id} : /\ table'.peers[i].addr = Peers[i].addr
                                      /\ table'.peers[i].probe = Peers[i].probe
        BY <1>5, <2>3
      <2> QED  BY <1>1, <1>3, <1>7, <1>10, <2>3, <2>4, <2>5, Handled, ZenonT(30)
    <1>11. ASSUME NEW token \in Tokens, Fresh(token), NEW probe,
                  probe = StartProbe(Peers[f.id], f.src, token),
                  table' = [heard EXCEPT !.peers[f.id].probe = probe],
                  net' = (net \ {f}) \cup
                            {[id |-> f.id, dst |-> f.src, token |-> p.token]
                               : p \in {q \in probe : q \notin Peers[f.id].probe}}
           PROVE  IInv' /\ Undisplaced
      <2>1. Peers[f.id] \in Entry
        BY <1>1 DEF IInv, Filed, Peers
      <2>2. /\ probe \in {{}} \cup {{p} : p \in Probe}
            /\ \A p \in probe :
                  /\ p.addr = f.src /\ p.token \in Tokens
                  /\ p.token = token \/ \E q \in Peers[f.id].probe : q.addr = f.src /\ q.token = p.token
        BY <1>1, <1>11, <2>1, Probing
      <2> DEFINE x == heard.peers[f.id]
                 e == [x EXCEPT !.probe = probe]
                 entries == [heard.peers EXCEPT ![f.id] = e]
                 sent == {[id |-> f.id, dst |-> f.src, token |-> p.token]
                            : p \in {q \in probe : q \notin Peers[f.id].probe}}
      <2>3. table' = Renew(heard, entries)
        BY <1>11 DEF Renew
      <2>4. /\ e.addr = x.addr /\ e.sid = x.sid /\ e.probe = probe
            /\ e.left = x.left /\ e.resent = x.resent
        BY <1>5 DEF Entry
      <2>5. e \in Entry
        BY <1>5, <2>2, ZenonT(30) DEF Entry
      <2> HIDE DEF e
      <2>6. Sound(e) /\ RouteOf(e) = RouteOf(x)
        BY <1>5, <2>4, <2>5 DEF Sound, RouteOf
      <2>7. /\ entries \in [Held -> Entry] /\ entries[f.id] = e
            /\ \A i \in Held \ {f.id} : entries[i] = heard.peers[i]
        BY <1>1, <1>5, <2>5, ZenonT(30) DEF Filed
      <2> HIDE DEF entries
      <2>8. Alike(heard, Held, entries)
        BY <1>5, <2>6, <2>7, ZenonT(30) DEF Alike, Filed
      <2>9. Filed(Renew(heard, entries), Held) /\ Renew(heard, entries).peers = entries
        BY <1>5, <2>8, Updated
      <2>10. Filed(table', Held) /\ table'.peers = entries
        BY <2>3, <2>9, ZenonT(30)
      <2>11. sent \in SUBSET Challenge /\ \A c \in sent : c.id = f.id /\ c.dst = f.src
        <3>1. f.id \in Ids /\ f.src \in Addrs
          BY <1>1, ZenonT(30) DEF Frame
        <3>2. \A p \in probe : [id |-> f.id, dst |-> f.src, token |-> p.token] \in Challenge
          BY <2>2, <3>1 DEF Challenge
        <3> QED  BY <3>2
      <2>12. net' = (net \ {f}) \cup sent
        BY <1>11, Zenon
      <2> HIDE DEF sent
      <2>13. \A c \in sent : c.id = f.id /\ \A p \in table'.peers[f.id].probe : p.addr = c.dst
        BY <2>2, <2>4, <2>7, <2>10, <2>11, Zenon
      <2>14. table'.peers[f.id].addr = Peers[f.id].addr
        BY <1>1, <1>5, <2>4, <2>7, <2>10, Zenon
      <2>15. \A p \in table'.peers[f.id].probe :
                (\A m \in net : m.token # p.token)
                \/ \E q \in Peers[f.id].probe : q.addr = p.addr /\ q.token = p.token
        <3>1. table'.peers[f.id].probe = probe
          BY <2>4, <2>7, <2>10
        <3>2. \A m \in net : m.token # token
          BY <1>11 DEF Fresh
        <3> SUFFICES ASSUME NEW p \in probe
                     PROVE  (\A m \in net : m.token # p.token)
                            \/ \E q \in Peers[f.id].probe : q.addr = p.addr /\ q.token = p.token
          BY <3>1, Zenon
        <3> QED  BY <2>2, <3>2, ZenonT(30)
      <2>16. \A i \in Held \ {f.id} : /\ table'.peers[i].addr = Peers[i].addr
                                       /\ table'.peers[i].probe = Peers[i].probe
        BY <1>5, <2>7, <2>10, Zenon
      <2>17. <<f.id, table'.peers[f.id].addr>> \in reached
        BY <1>1, <1>6, <2>14
      <2> QED  BY <1>1, <1>3, <2>10, <2>11, <2>12, <2>13, <2>15, <2>16, <2>17, Handled, Zenon
    <1>12. ASSUME \E token \in Tokens : Fresh(token)
           PROVE  (CHOOSE t \in Tokens : Fresh(t)) \in Tokens /\ Fresh(CHOOSE t \in Tokens : Fresh(t))
      BY <1>12
    <1> QED  BY <1>4, <1>8, <1>9, <1>10, <1>11, <1>12, ZenonT(30)

-----------------------------------------------------------------------------
(* The theorems.                                                           *)

\* Every step keeps the invariant, and a step that moves a session drops nobody.
LEMMA Inductive ==
    ASSUME IInv, [Next]_vars PROVE IInv' /\ (Undisplaced \/ UNCHANGED vars)
    <1> USE DEF Next
    <1>0. world.addrs \subseteq Addrs
      BY WorldAddrs, ZenonT(30) DEF IInv
    <1>1. Reachable \subseteq Addrs
      <2>1. world.addrs # {}
        BY TableAssumption, ZenonT(30) DEF IInv, Handles
      <2> QED  BY <1>0, <2>1, ZenonT(30) DEF Reachable
    <1>2. CASE \E id \in Ids, addr \in Reachable, sid \in Sids :
                  Accept(id, addr, sid) \/ Connect(id, addr, sid)
      BY <1>1, <1>2, AcceptStep, ConnectStep, Zenon
    <1>3. CASE \E id \in DOMAIN outbound : Complete(id) \/ ConnectFails(id)
      BY <1>3, CompleteStep, ConnectFailsStep, Zenon
    <1>4. CASE \E id \in Ids : Disconnect(id)
      BY <1>4, DisconnectStep, Zenon
    <1>5. CASE PeerLost
      BY <1>5, PeerLostStep, Zenon
    <1>6. CASE \E limit \in 0 .. MaxPeers : SetMaxPeers(limit)
      BY <1>6, SetMaxPeersStep, Zenon
    <1>7. CASE \E id \in Held :
                  RepeatHandshake(id) \/ ProbeAges(id) \/ Refills(id) \/ PeerSends(id)
      BY <1>7, RepeatHandshakeStep, ProbeAgesStep, RefillsStep, PeerSendsStep, Zenon
    <1>8. CASE \E id \in Held, addr \in world.addrs : PeerMoves(id, addr)
      BY <1>0, <1>8, PeerMovesStep, Zenon
    <1>9. CASE \E m \in net : Route(m) \/ Lose(m)
      BY <1>9, RouteStep, LoseStep, Zenon
    <1>10. CASE \E m \in net, addr \in world.addrs : PeerAnswers(m, addr)
      BY <1>0, <1>10, PeerAnswersStep, Zenon
    <1>11. CASE UNCHANGED vars
      <2>1. UNCHANGED <<table, where, net, reached, outbound, max_peers, used, world>>
        BY <1>11 DEF vars
      <2>2. Handles'
        BY <2>1, Zenon DEF IInv, Handles, Held, Peers
      <2> QED  BY <2>1, <2>2, NothingMoves, ZenonT(30)
    <1> QED  BY <1>2, <1>3, <1>4, <1>5, <1>6, <1>7, <1>8, <1>9, <1>10, <1>11, ZenonT(30)

\* The invariant holds throughout.
LEMMA Always == Spec => []IInv
    <1>1. Init => IInv
      BY InitIInv
    <1>2. IInv /\ [Next]_vars => IInv'
      BY Inductive
    <1> QED  BY <1>1, <1>2, PTL DEF Spec

\* The table, its indexes, the probes and their budgets keep their ranges, for
\* any addresses, identifiers, limits and rates.
THEOREM TypeCorrect == Spec => []TypeOK
    <1>1. IInv => TypeOK
      <2> SUFFICES ASSUME IInv PROVE TypeOK
        BY Zenon
      <2>1. Held \subseteq Ids /\ \A i \in Held : Peers[i] \in Entry
        BY Zenon DEF IInv, Handles, Filed, Peers
      <2>2. DOMAIN table.routes \subseteq Addrs \X Sids
        <3> SUFFICES ASSUME NEW r \in DOMAIN table.routes PROVE r \in Addrs \X Sids
          BY ZenonT(30)
        <3>1. table.routes[r] \in Held /\ r = RouteOf(Peers[table.routes[r]])
          BY DEF IInv, Filed, Peers
        <3> QED  BY <2>1, <3>1 DEF RouteOf, Entry
      <2> QED  BY <2>1, <2>2, Zenon DEF IInv, Handles, OnTheWay, TypeOK
    <1> QED  BY <1>1, Always, PTL

\* file, make_room, unfile_session, settle_probe and drive_liveness keep the
\* table and its two indexes in agreement, whatever comes, goes, moves or is
\* displaced, with any number of sessions.
THEOREM TableAndIndexesAgree == Spec => []IndexesAgree
    <1>1. IInv => IndexesAgree
      BY Zenon DEF IInv, Handles, Filed, Listed, IndexesAgree, Peers
    <1> QED  BY <1>1, Always, PTL

\* settle_probe moves a session only to an address where its peer received the
\* challenge, however many probes were begun, aged out and were begun again.
THEOREM NeverFiledUnreached == Spec => []FiledWhereReached
    <1>1. IInv => FiledWhereReached
      BY DEF IInv
    <1> QED  BY <1>1, Always, PTL

\* The displacement in settle_probe is never needed: route lets no frame reach a
\* session from an address under which another of its identifier is filed.
THEOREM MovesNeverDisplace == Spec => MovesDisplaceNobody
    <1>1. IInv /\ [Next]_vars =>
            [\A i \in Held : i \in DOMAIN table'.peers /\ table'.peers[i].addr # Peers[i].addr
                  => DOMAIN table'.peers = Held]_vars
      BY Inductive DEF Undisplaced
    <1> QED  BY <1>1, Always, PTL DEF Spec, MovesDisplaceNobody
=============================================================================

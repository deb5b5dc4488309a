--------------------------- MODULE DashboardProofs ---------------------------
(***************************************************************************)
(* Proofs about Readings and Dashboard: what a row shows is what the        *)
(* answers of Inputs report, whatever they are and however many.            *)
(***************************************************************************)
EXTENDS Frame, FiniteSetTheorems, SequenceTheorems, TLAPS

-----------------------------------------------------------------------------
(* Numbers.                                                                  *)

\* Induction without an operator as parameter: the least counterexample.
LEMMA LeastNumber ==
    ASSUME NEW S, S \subseteq Nat, S # {}
    PROVE  \E n \in S : \A m \in S : n <= m
<1>1. PICK n \in S : \A m \in S : <<m, n>> \notin OpToRel(<, Nat)
  BY NatLessThanWellFounded, WFMin
<1>2. \A m \in S : ~(m < n)
  BY <1>1 DEF OpToRel
<1> QED
  BY <1>2

LEMMA CountTo == \A n \in Nat : IsFiniteSet(1 .. n) /\ Cardinality(1 .. n) = n
<1> TAKE n \in Nat
<1>1. 1 \in Int /\ n \in Int
  OBVIOUS
<1>2. IsFiniteSet(1 .. n) /\ Cardinality(1 .. n) = IF 1 > n THEN 0 ELSE n - 1 + 1
  BY <1>1, FS_Interval
<1> QED BY <1>2

-----------------------------------------------------------------------------
(* Sequences of sequences.                                                   *)

\* The function FlattenSeq is defined by, on the first n of the parts.
Flattens(f, parts, n) ==
    f = [i \in 1 .. n |-> IF i = 1 THEN parts[i] ELSE f[i - 1] \o parts[i]]

LEMMA FlattensExists ==
    ASSUME NEW parts, NEW n \in Nat
    PROVE  \E f : Flattens(f, parts, n)
<1> DEFINE None == {m \in Nat : ~\E f : Flattens(f, parts, m)}
<1> SUFFICES ASSUME None # {} PROVE FALSE
  OBVIOUS
<1>1. PICK m \in None : \A k \in None : m <= k
  BY LeastNumber
<1>2. CASE m = 0
  <2>1. Flattens([i \in 1 .. 0 |-> parts[i]], parts, 0)
    BY DEF Flattens
  <2> QED BY <2>1, <1>1, <1>2
<1>3. CASE m # 0
  <2>1. PICK f : Flattens(f, parts, m - 1)
    BY <1>1, <1>3
  <2> DEFINE g == [i \in 1 .. m |->
                      IF i = m THEN IF m = 1 THEN parts[m] ELSE f[m - 1] \o parts[m]
                               ELSE f[i]]
  <2>2. \A i \in 1 .. m : g[i] = IF i = 1 THEN parts[i] ELSE g[i - 1] \o parts[i]
    <3> TAKE i \in 1 .. m
    <3>1. CASE i = m
      BY <3>1
    <3>2. CASE i # m
      <4>1. i \in 1 .. (m - 1)
        BY <3>2, <1>1
      <4>2. f[i] = IF i = 1 THEN parts[i] ELSE f[i - 1] \o parts[i]
        BY <2>1, <4>1, Zenon DEF Flattens
      <4> QED BY <4>1, <4>2, <3>2, <1>1
    <3> QED BY <3>1, <3>2
  <2>3. Flattens(g, parts, m)
    BY <2>2 DEF Flattens
  <2> QED BY <2>3, <1>1
<1> QED BY <1>2, <1>3

\* The places of the members of the first n parts.
Places(parts, n) == {p \in (1 .. n) \X Nat : p[2] \in 1 .. Len(parts[p[1]])}

Numbers(place, s, parts, n) ==
    /\ place \in Bijection(1 .. Len(s), Places(parts, n))
    /\ \A k \in 1 .. Len(s) : s[k] = parts[place[k][1]][place[k][2]]

LEMMA PlacesGrow ==
    ASSUME NEW S, NEW parts, NEW n \in Nat \ {0}, parts[n] \in Seq(S),
           NEW s \in Seq(S), NEW place, Numbers(place, s, parts, n - 1)
    PROVE  \E q : Numbers(q, s \o parts[n], parts, n)
<1> DEFINE t == s \o parts[n]
           q == [k \in 1 .. Len(t) |-> IF k <= Len(s) THEN place[k] ELSE <<n, k - Len(s)>>]
<1>1. /\ Len(s) \in Nat /\ Len(parts[n]) \in Nat /\ Len(t) = Len(s) + Len(parts[n])
      /\ \A k \in 1 .. Len(t) : t[k] = IF k <= Len(s) THEN s[k] ELSE parts[n][k - Len(s)]
  BY ConcatProperties, LenProperties
<1>2. \A k \in 1 .. Len(s) : /\ place[k] \in (1 .. n - 1) \X Nat
                             /\ place[k][2] \in 1 .. Len(parts[place[k][1]])
                             /\ s[k] = parts[place[k][1]][place[k][2]]
  BY DEF Numbers, Places, Bijection, Injection
<1>3. \A j, k \in 1 .. Len(s) : place[j] = place[k] => j = k
  BY DEF Numbers, Bijection, Injection, IsInjective
<1>4. \A p \in Places(parts, n - 1) : \E k \in 1 .. Len(s) : place[k] = p
  BY DEF Numbers, Bijection, Surjection
<1> HIDE DEF t
<1>5. q \in [1 .. Len(t) -> Places(parts, n)]
  <2> SUFFICES ASSUME NEW k \in 1 .. Len(t) PROVE q[k] \in Places(parts, n)
    OBVIOUS
  <2>1. CASE k <= Len(s)
    <3>1. k \in 1 .. Len(s) /\ q[k] = place[k]
      BY <2>1, <1>1
    <3> QED BY <3>1, <1>2 DEF Places
  <2>2. CASE ~(k <= Len(s))
    <3>1. q[k] = <<n, k - Len(s)>> /\ k - Len(s) \in 1 .. Len(parts[n])
      BY <2>2, <1>1
    <3> QED BY <3>1, <1>1 DEF Places
  <2> QED BY <2>1, <2>2
<1>6. IsInjective(q)
  <2> SUFFICES ASSUME NEW j \in 1 .. Len(t), NEW k \in 1 .. Len(t), q[j] = q[k] PROVE j = k
    BY DEF IsInjective
  <2>1. CASE j <= Len(s) /\ k <= Len(s)
    BY <2>1, <1>1, <1>3
  <2>2. CASE ~(j <= Len(s)) /\ ~(k <= Len(s))
    <3>1. q[j] = <<n, j - Len(s)>> /\ q[k] = <<n, k - Len(s)>>
      BY <2>2
    <3> QED BY <3>1, <1>1
  <2>3. ASSUME NEW a \in 1 .. Len(t), NEW b \in 1 .. Len(t), a <= Len(s), ~(b <= Len(s))
        PROVE  q[a] # q[b]
    <3>1. q[a] = place[a] /\ q[b] = <<n, b - Len(s)>> /\ a \in 1 .. Len(s)
      BY <2>3, <1>1
    <3>2. q[a][1] \in 1 .. n - 1 /\ q[b][1] = n
      BY <3>1, <1>2
    <3> QED BY <3>2
  <2> QED BY <2>1, <2>2, <2>3
<1>7. \A p \in Places(parts, n) : \E k \in 1 .. Len(t) : q[k] = p
  <2> TAKE p \in Places(parts, n)
  <2>1. CASE p[1] = n
    <3>1. p[2] + Len(s) \in 1 .. Len(t) /\ ~(p[2] + Len(s) <= Len(s))
      BY <2>1, <1>1 DEF Places
    <3>2. p = <<n, p[2]>>
      BY <2>1 DEF Places
    <3>3. q[p[2] + Len(s)] = p
      BY <3>1, <3>2, <1>1 DEF Places
    <3> QED BY <3>1, <3>3
  <2>2. CASE p[1] # n
    <3>1. p \in Places(parts, n - 1)
      BY <2>2 DEF Places
    <3>2. PICK k \in 1 .. Len(s) : place[k] = p
      BY <3>1, <1>4
    <3>3. k \in 1 .. Len(t) /\ q[k] = p
      BY <3>2, <1>1
    <3> QED BY <3>3
  <2> QED BY <2>1, <2>2
<1>8. \A k \in 1 .. Len(t) : t[k] = parts[q[k][1]][q[k][2]]
  <2> TAKE k \in 1 .. Len(t)
  <2>1. CASE k <= Len(s)
    <3>1. k \in 1 .. Len(s) /\ q[k] = place[k] /\ t[k] = s[k]
      BY <2>1, <1>1
    <3> QED BY <3>1, <1>2
  <2>2. CASE ~(k <= Len(s))
    <3>1. q[k] = <<n, k - Len(s)>> /\ t[k] = parts[n][k - Len(s)]
      BY <2>2, <1>1
    <3> QED BY <3>1
  <2> QED BY <2>1, <2>2
<1>9. Numbers(q, t, parts, n)
  BY <1>5, <1>6, <1>7, <1>8 DEF Numbers, Bijection, Injection, Surjection
<1> QED BY <1>9 DEF t

LEMMA FlattensPlaces ==
    ASSUME NEW S, NEW parts, NEW n \in Nat, \A i \in 1 .. n : parts[i] \in Seq(S),
           NEW f, Flattens(f, parts, n), NEW m \in 1 .. n
    PROVE  f[m] \in Seq(S) /\ \E place : Numbers(place, f[m], parts, m)
<1> DEFINE Good(i) == f[i] \in Seq(S) /\ \E place : Numbers(place, f[i], parts, i)
           None == {i \in 1 .. n : ~Good(i)}
<1>0. \A i \in 1 .. n : f[i] = IF i = 1 THEN parts[i] ELSE f[i - 1] \o parts[i]
  BY Zenon DEF Flattens
<1> SUFFICES ASSUME None # {} PROVE FALSE
  OBVIOUS
<1>1. PICK i \in 1 .. n : ~Good(i) /\ \A k \in 1 .. i - 1 : Good(k)
  <2>1. None \subseteq Nat
    OBVIOUS
  <2>2. PICK i \in None : \A k \in None : i <= k
    BY <2>1, LeastNumber
  <2>3. \A k \in 1 .. i - 1 : k \in 1 .. n /\ ~(i <= k)
    BY <2>2
  <2> QED BY <2>2, <2>3
<1> HIDE DEF None
<1>2. ASSUME NEW s \in Seq(S), NEW place, Numbers(place, s, parts, i - 1), f[i] = s \o parts[i]
      PROVE  FALSE
  <2>1. \E q : Numbers(q, s \o parts[i], parts, i)
    BY <1>2, PlacesGrow
  <2>2. f[i] \in Seq(S)
    BY <1>2, ConcatProperties
  <2> QED BY <1>1, <1>2, <2>1, <2>2
<1>3. CASE i = 1
  <2>1. <<>> \in Seq(S) /\ Len(<<>>) = 0
    BY EmptySeq
  <2>2. f[i] = <<>> \o parts[i]
    BY <1>3, <1>0, ConcatEmptySeq
  <2> DEFINE none == [k \in 1 .. 0 |-> <<1, 1>>]
  <2>3. Numbers(none, <<>>, parts, i - 1)
    BY <2>1, <1>3 DEF Numbers, Places, Bijection, Injection, Surjection, IsInjective
  <2> HIDE DEF none
  <2> QED BY <2>1, <2>2, <2>3, <1>2, Zenon
<1>4. CASE i # 1
  <2>0. i - 1 \in 1 .. i - 1
    BY <1>4
  <2>1. Good(i - 1)
    BY <2>0, <1>1, Zenon
  <2>2. f[i] = f[i - 1] \o parts[i]
    BY <1>0, <1>4
  <2>3. PICK place : Numbers(place, f[i - 1], parts, i - 1)
    BY <2>1
  <2>4. f[i - 1] \in Seq(S)
    BY <2>1
  <2> QED BY <2>2, <2>3, <2>4, <1>2
<1> QED BY <1>3, <1>4

\* The members of FlattenSeq are those of its parts, one for each place.
LEMMA FlattenPlaces ==
    ASSUME NEW S, NEW parts, NEW n \in Nat,
           parts \in [1 .. n -> Seq(S)]
    PROVE  /\ FlattenSeq(parts) \in Seq(S)
           /\ \E place : Numbers(place, FlattenSeq(parts), parts, n)
<1>0. parts \in Seq(Seq(S)) /\ Len(parts) = n
  OBVIOUS
<1>1. CASE n = 0
  <2>1. FlattenSeq(parts) = <<>>
    BY <1>0, <1>1 DEF FlattenSeq
  <2> DEFINE none == [k \in 1 .. 0 |-> <<1, 1>>]
  <2>2. Numbers(none, <<>>, parts, 0)
    BY EmptySeq DEF Numbers, Places, Bijection, Injection, Surjection, IsInjective
  <2> HIDE DEF none
  <2> QED BY <2>1, <2>2, <1>1, EmptySeq
<1>2. CASE n # 0
  <2> DEFINE f == CHOOSE flatten :
                 flatten = [i \in 1 .. Len(parts) |->
                               IF i = 1 THEN parts[i] ELSE flatten[i - 1] \o parts[i]]
  <2>1. \E g : Flattens(g, parts, Len(parts))
    BY <1>0, FlattensExists
  <2>2. Flattens(f, parts, n)
    BY <2>1, <1>0, Zenon DEF Flattens
  <2>3. FlattenSeq(parts) = f[n]
    BY <1>0, <1>2, Zenon DEF FlattenSeq
  <2> HIDE DEF f
  <2>4. n \in 1 .. n
    BY <1>2
  <2> QED BY <2>2, <2>3, <2>4, FlattensPlaces
<1> QED BY <1>1, <1>2

LEMMA FlattenRange ==
    ASSUME NEW S, NEW n \in Nat, NEW parts \in [1 .. n -> Seq(S)]
    PROVE  Range(FlattenSeq(parts)) = UNION {Range(parts[i]) : i \in 1 .. n}
<1> DEFINE s == FlattenSeq(parts)
<1>1. s \in Seq(S)
  BY FlattenPlaces
<1>2. PICK place : Numbers(place, s, parts, n)
  BY FlattenPlaces
<1> HIDE DEF s
<1>3. DOMAIN s = 1 .. Len(s) /\ \A i \in 1 .. n : DOMAIN parts[i] = 1 .. Len(parts[i])
  BY <1>1
<1>4. ASSUME NEW x \in Range(s) PROVE \E i \in 1 .. n : x \in Range(parts[i])
  <2>1. PICK k \in 1 .. Len(s) : x = s[k]
    BY <1>3, <1>4 DEF Range
  <2>2. place[k] \in Places(parts, n) /\ s[k] = parts[place[k][1]][place[k][2]]
    BY <1>2 DEF Numbers, Bijection, Injection
  <2> QED BY <1>3, <2>1, <2>2 DEF Places, Range
<1>5. ASSUME NEW i \in 1 .. n, NEW x \in Range(parts[i]) PROVE x \in Range(s)
  <2>1. PICK k \in 1 .. Len(parts[i]) : x = parts[i][k]
    BY <1>3, <1>5 DEF Range
  <2>2. <<i, k>> \in Places(parts, n)
    BY <1>3 DEF Places
  <2>3. PICK j \in 1 .. Len(s) : place[j] = <<i, k>>
    BY <1>2, <2>2 DEF Numbers, Bijection, Surjection
  <2>4. s[j] = parts[i][k]
    BY <1>2, <2>3 DEF Numbers
  <2> QED BY <1>3, <2>1, <2>4 DEF Range
<1> QED BY <1>4, <1>5 DEF s

Picks(place, t, s, I) ==
    place \in Bijection(1 .. Len(t), I) /\ \A k \in 1 .. Len(t) : t[k] = s[place[k]]

\* Only leaves out the other positions, and nothing else.
LEMMA OnlyPlaces ==
    ASSUME NEW S, NEW s \in Seq(S), NEW I
    PROVE  /\ Only(s, I) \in Seq(S)
           /\ \E place : Picks(place, Only(s, I), s, I \cap DOMAIN s)
<1> DEFINE n == Len(s)
           parts == [i \in 1 .. n |-> IF i \in I THEN <<s[i]>> ELSE <<>>]
           t == FlattenSeq(parts)
<1>1. n \in Nat /\ DOMAIN s = 1 .. n /\ \A i \in 1 .. n : s[i] \in S
  OBVIOUS
<1>2. t = Only(s, I)
  BY <1>1, Zenon DEF Only
<1>3. parts \in [1 .. n -> Seq(S)]
  BY <1>1
<1>4. t \in Seq(S) /\ \E place : Numbers(place, t, parts, n)
  BY <1>1, <1>3, FlattenPlaces
<1>5. PICK place : Numbers(place, t, parts, n)
  BY <1>4
<1>6. \A i \in 1 .. n : /\ i \in I => Len(parts[i]) = 1 /\ parts[i][1] = s[i]
                        /\ i \notin I => Len(parts[i]) = 0
  BY <1>1
<1> HIDE DEF n, parts, t
<1>7. Len(t) \in Nat
  BY <1>4
<1>8. Places(parts, n) = (I \cap 1 .. n) \X {1}
  <2>1. ASSUME NEW i \in 1 .. n, NEW k \in Nat
        PROVE  k \in 1 .. Len(parts[i]) <=> i \in I /\ k = 1
    <3>1. CASE i \in I
      <4>1. Len(parts[i]) = 1
        BY <1>6, <3>1
      <4> QED BY <4>1, <3>1
    <3>2. CASE i \notin I
      <4>1. Len(parts[i]) = 0
        BY <1>6, <3>2
      <4> QED BY <4>1, <3>2
    <3> QED BY <3>1, <3>2
  <2> QED BY <2>1 DEF Places
<1> DEFINE q == [k \in 1 .. Len(t) |-> place[k][1]]
<1>9. \A k \in 1 .. Len(t) : /\ q[k] \in I \cap 1 .. n /\ place[k] = <<q[k], 1>>
                             /\ t[k] = s[q[k]]
  <2> TAKE k \in 1 .. Len(t)
  <2>1. place[k] \in (I \cap 1 .. n) \X {1} /\ t[k] = parts[place[k][1]][place[k][2]]
    BY <1>5, <1>8 DEF Numbers, Bijection, Injection
  <2>2. place[k][1] \in I \cap 1 .. n /\ place[k][2] = 1
    BY <2>1
  <2> QED BY <2>1, <2>2, <1>6
<1>10. q \in Bijection(1 .. Len(t), I \cap 1 .. n)
  <2>1. \A j, k \in 1 .. Len(t) : q[j] = q[k] => j = k
    BY <1>5, <1>9 DEF Numbers, Bijection, Injection, IsInjective
  <2>2. \A i \in I \cap 1 .. n : \E k \in 1 .. Len(t) : q[k] = i
    <3> TAKE i \in I \cap 1 .. n
    <3>1. <<i, 1>> \in Places(parts, n)
      BY <1>8
    <3>2. PICK k \in 1 .. Len(t) : place[k] = <<i, 1>>
      BY <3>1, <1>5 DEF Numbers, Bijection, Surjection
    <3> QED BY <3>2, <1>9
  <2> QED BY <1>9, <2>1, <2>2 DEF Bijection, Injection, Surjection, IsInjective
<1>11. Picks(q, t, s, I \cap 1 .. n)
  BY <1>9, <1>10 DEF Picks
<1> QED BY <1>1, <1>2, <1>4, <1>11

LEMMA OnlyMembers ==
    ASSUME NEW S, NEW s \in Seq(S), NEW I
    PROVE  /\ Only(s, I) \in Seq(S)
           /\ Range(Only(s, I)) = {s[i] : i \in I \cap DOMAIN s}
           /\ Len(Only(s, I)) <= Len(s)
<1> DEFINE t == Only(s, I)
<1>1. t \in Seq(S)
  BY OnlyPlaces
<1>2. PICK place : Picks(place, t, s, I \cap DOMAIN s)
  BY OnlyPlaces
<1> HIDE DEF t
<1>3. Range(t) = {t[k] : k \in 1 .. Len(t)} /\ Len(t) \in Nat /\ Len(s) \in Nat /\ DOMAIN s = 1 .. Len(s)
  BY <1>1 DEF Range
<1>4. Range(t) = {s[i] : i \in I \cap DOMAIN s}
  BY <1>2, <1>3 DEF Picks, Bijection, Injection, Surjection
<1>5. place \in Injection(1 .. Len(t), 1 .. Len(s))
  BY <1>2, <1>3 DEF Picks, Bijection, Injection
<1>6. Len(t) <= Len(s)
  <2>1. /\ IsFiniteSet(1 .. Len(s)) /\ Cardinality(1 .. Len(s)) = Len(s)
        /\ Cardinality(1 .. Len(t)) = Len(t)
    BY <1>3, CountTo
  <2>2. Cardinality(1 .. Len(t)) <= Cardinality(1 .. Len(s))
    BY <1>5, <2>1, FS_Injection
  <2> QED BY <2>1, <2>2
<1> QED BY <1>1, <1>4, <1>6 DEF t

-----------------------------------------------------------------------------
(* Orders.                                                                   *)

(* InOrder lists a finite set in the order it is given. *)
THEOREM InOrderSorts ==
    ASSUME NEW S, IsFiniteSet(S), NEW before,
           \A x \in S : <<x, x>> \notin before,
           \A x, y \in S : x # y => <<x, y>> \in before \/ <<y, x>> \in before,
           \A x, y, z \in S : <<x, y>> \in before /\ <<y, z>> \in before => <<x, z>> \in before
    PROVE  LET order == InOrder(S, before)
           IN  /\ Cardinality(S) \in Nat
               /\ order \in Bijection(1 .. Cardinality(S), S)
               /\ \A j, k \in 1 .. Cardinality(S) : j < k => <<order[j], order[k]>> \in before
<1> DEFINE UpTo(x) == {y \in S : y = x \/ <<y, x>> \in before}
           n == Cardinality(S)
           rank == [x \in S |-> Cardinality(UpTo(x))]
           order == InOrder(S, before)
<1>1. n \in Nat
  BY FS_CardinalityType
<1>2. \A x \in S : IsFiniteSet(UpTo(x)) /\ Cardinality(UpTo(x)) \in 1 .. n
  <2> TAKE x \in S
  <2>1. UpTo(x) \subseteq S /\ UpTo(x) # {}
    OBVIOUS
  <2>2. IsFiniteSet(UpTo(x)) /\ Cardinality(UpTo(x)) <= n
    BY <2>1, FS_Subset
  <2>3. Cardinality(UpTo(x)) \in Nat /\ Cardinality(UpTo(x)) # 0
    BY <2>1, <2>2, FS_CardinalityType, FS_EmptySet
  <2> QED BY <1>1, <2>2, <2>3
<1>3. ASSUME NEW x \in S, NEW y \in S, <<x, y>> \in before
      PROVE  Cardinality(UpTo(x)) < Cardinality(UpTo(y))
  <2>1. UpTo(x) \subseteq UpTo(y)
    BY <1>3
  <2>2. y \in UpTo(y) /\ y \notin UpTo(x)
    BY <1>3
  <2>3. UpTo(x) # UpTo(y)
    BY <2>2
  <2>4. Cardinality(UpTo(x)) <= Cardinality(UpTo(y)) /\ Cardinality(UpTo(x)) # Cardinality(UpTo(y))
    BY <2>1, <2>3, <1>2, FS_Subset
  <2> QED BY <2>4, <1>2
<1> HIDE DEF UpTo
<1>4. rank \in Injection(S, 1 .. n)
  <2>1. \A x, y \in S : rank[x] = rank[y] => x = y
    <3> TAKE x, y \in S
    <3>1. <<x, y>> \in before => rank[x] < rank[y]
      BY <1>3
    <3>2. <<y, x>> \in before => rank[y] < rank[x]
      BY <1>3
    <3>3. rank[x] \in 1 .. n /\ rank[y] \in 1 .. n
      BY <1>2
    <3> QED BY <3>1, <3>2, <3>3
  <2> QED BY <1>2, <2>1 DEF Injection, IsInjective
<1>5. \A k \in 1 .. n : \E x \in S : rank[x] = k
  <2>1. IsFiniteSet(1 .. n) /\ Cardinality(1 .. n) = n
    BY <1>1, CountTo
  <2>2. rank \in Surjection(S, 1 .. n)
    BY <1>4, <2>1, FS_Injection
  <2> QED BY <2>2 DEF Surjection
<1>6. order = [k \in 1 .. n |-> CHOOSE x \in S : rank[x] = k]
  <2>1. \A k \in 1 .. n : (CHOOSE x \in S : rank[x] = k)
                       = CHOOSE x \in S : Cardinality({y \in S : y = x \/ <<y, x>> \in before}) = k
    BY Zenon DEF UpTo
  <2> QED BY <2>1, Zenon DEF InOrder
<1> HIDE DEF order, rank, n
<1>7. \A k \in 1 .. n : order[k] \in S /\ rank[order[k]] = k
  BY <1>5, <1>6
<1>8. \A x \in S : rank[x] \in 1 .. n /\ order[rank[x]] = x
  BY <1>4, <1>7 DEF Injection, IsInjective
<1>9. order \in Bijection(1 .. n, S)
  <2>1. order \in [1 .. n -> S]
    BY <1>6, <1>7
  <2>2. \A j, k \in 1 .. n : order[j] = order[k] => j = k
    BY <1>7
  <2> QED BY <2>1, <2>2, <1>8 DEF Bijection, Injection, Surjection, IsInjective
<1>10. ASSUME NEW j \in 1 .. n, NEW k \in 1 .. n, j < k PROVE <<order[j], order[k]>> \in before
  <2>1. order[j] \in S /\ order[k] \in S /\ order[j] # order[k]
    BY <1>7, <1>10
  <2>2. ~(rank[order[k]] < rank[order[j]])
    BY <1>7, <1>10, <1>1
  <2>3. <<order[k], order[j]>> \notin before
    BY <2>1, <2>2, <1>3 DEF rank
  <2> QED BY <2>1, <2>3
<1> QED BY <1>1, <1>9, <1>10 DEF order, n

(* Sorted keeps every expiry, and none comes after a later one. *)
LEMMA SortedFacts ==
    ASSUME NEW s \in Seq(Nat)
    PROVE  /\ Sorted(s) \in Seq(Nat) /\ Len(Sorted(s)) = Len(s)
           /\ \E order \in Bijection(1 .. Len(s), 1 .. Len(s)) :
                 \A k \in 1 .. Len(s) : Sorted(s)[k] = s[order[k]]
           /\ \A j, k \in 1 .. Len(s) : j < k => ~Sooner(Sorted(s)[k], Sorted(s)[j])
<1> DEFINE all == DOMAIN s
           Before(i, j) == Sooner(s[i], s[j]) \/ (s[i] = s[j] /\ i < j)
           before == {p \in all \X all : Before(p[1], p[2])}
           order == InOrder(all, before)
           t == Sorted(s)
<1>1. all = 1 .. Len(s) /\ Len(s) \in Nat /\ \A i \in all : s[i] \in Nat
  OBVIOUS
<1>2. \A i, j \in all : <<i, j>> \in before <=> Before(i, j)
  OBVIOUS
<1>3. \A i, j \in all : i # j => Before(i, j) \/ Before(j, i)
  BY <1>1 DEF Sooner
<1>4. \A i \in all : ~Before(i, i)
  BY <1>1 DEF Sooner
<1>5. \A i, j, k \in all : Before(i, j) /\ Before(j, k) => Before(i, k)
  BY <1>1 DEF Sooner
<1>6. t = [k \in DOMAIN order |-> s[order[k]]]
  BY Zenon DEF Sorted
<1>7. IsFiniteSet(all) /\ Cardinality(all) = Len(s)
  BY <1>1, CountTo
<1>8. \A i, j \in all : Before(i, j) => ~Sooner(s[j], s[i])
  BY <1>1 DEF Sooner
<1> HIDE DEF Before
<1>9. /\ order \in Bijection(1 .. Len(s), all)
      /\ \A j, k \in 1 .. Len(s) : j < k => <<order[j], order[k]>> \in before
  <2>1. \A i \in all : <<i, i>> \notin before
    BY <1>2, <1>4
  <2>2. \A i, j \in all : i # j => <<i, j>> \in before \/ <<j, i>> \in before
    BY <1>2, <1>3
  <2>3. \A i, j, k \in all : <<i, j>> \in before /\ <<j, k>> \in before => <<i, k>> \in before
    BY <1>2, <1>5
  <2> HIDE DEF before, all
  <2> QED BY <2>1, <2>2, <2>3, <1>7, InOrderSorts
<1> HIDE DEF order, t, all, before
<1>10. /\ DOMAIN order = 1 .. Len(s)
       /\ \A k \in 1 .. Len(s) : order[k] \in all
  BY <1>9 DEF Bijection, Injection
<1>11. t = [k \in 1 .. Len(s) |-> s[order[k]]]
  BY <1>6, <1>10
<1>12. t \in Seq(Nat) /\ Len(t) = Len(s)
  BY <1>1, <1>10, <1>11
<1>13. \A j, k \in 1 .. Len(s) : j < k => ~Sooner(t[k], t[j])
  BY <1>2, <1>8, <1>9, <1>10, <1>11
<1> QED BY <1>1, <1>9, <1>11, <1>12, <1>13 DEF t

-----------------------------------------------------------------------------
(* Windows: the least of several, and the places a row has for them.         *)

\* The percentages that windows tell for an id, and those that were reported.
Tells(windows, id) == {x.left : x \in {y \in Range(windows) : y.id = id}} \ {Missing}

Says(reported, id) == {r[2] : r \in {q \in reported : q[1] = id}}

\* What is told was reported, and nothing reported is less than all that is told.
TrueTo(windows, reported, ids) ==
    /\ windows \in Seq(Range(windows)) /\ \A x \in Range(windows) : x.left \in Nat
    /\ \A id \in ids :
          /\ Says(reported, id) \subseteq 0 .. 100
          /\ Tells(windows, id) \subseteq Says(reported, id)
          /\ \A n \in Says(reported, id) : \E k \in Tells(windows, id) : k <= n

Legal(windows) ==
    windows \in Seq(Range(windows)) /\ \A x \in Range(windows) : x.left \in Nat

Minimum(S) == {n \in S : \A k \in S : n <= k}

(* Least is a window with the least percentage told for its id, if there is one. *)
LEMMA LeastFacts ==
    ASSUME NEW S, NEW items \in Seq(S), NEW id, \A x \in Range(items) : x.left \in Nat
    PROVE  /\ Least(items, id).id = id
           /\ {Least(items, id).left} \ {Missing} = Minimum(Tells(items, id))
           /\ Tells(items, id) # {} => Least(items, id).left \in Tells(items, id)
<1> DEFINE told == {i \in DOMAIN items : items[i].id = id /\ items[i].left # Missing}
           Before(i, j) == \/ items[i].left < items[j].left
                           \/ (items[i].left = items[j].left /\ i <= j)
           T == Tells(items, id)
           least == Least(items, id)
<1>1. DOMAIN items = 1 .. Len(items) /\ Len(items) \in Nat
  OBVIOUS
<1>0. T \subseteq Nat
  BY DEF Tells
<1>2. T = {items[i].left : i \in told}
  BY DEF Tells, Range
<1>3. told \subseteq Nat
  BY <1>1
<1>4. CASE told = {}
  <2>1. least = Window(id, Missing, Missing, 0)
    BY <1>4, Zenon DEF Least
  <2>2. T = {}
    BY <1>2, <1>4
  <2> QED BY <2>1, <2>2 DEF Window, Minimum
<1>5. CASE told # {}
  <2>1. PICK n \in T : \A k \in T : n <= k
    <3>1. T # {} /\ T \subseteq Nat
      BY <1>0, <1>2, <1>5
    <3> QED BY <3>1, LeastNumber
  <2> DEFINE lowest == {i \in told : items[i].left = n}
  <2>2. PICK i \in lowest : \A j \in lowest : i <= j
    <3>1. lowest # {} /\ lowest \subseteq Nat
      BY <1>2, <1>3, <2>1
    <3> QED BY <3>1, LeastNumber
  <2>3. \A j \in told : Before(i, j)
    <3> TAKE j \in told
    <3>1. items[j].left \in T /\ T \subseteq Nat
      BY <1>0, <1>2
    <3>2. n <= items[j].left /\ items[i].left = n
      BY <2>1, <2>2, <3>1
    <3>3. CASE items[j].left = n
      BY <2>2, <3>2, <3>3
    <3>4. CASE items[j].left # n
      BY <2>1, <3>1, <3>2, <3>4
    <3> QED BY <3>3, <3>4
  <2> DEFINE c == CHOOSE k \in told : \A j \in told : Before(k, j)
  <2>4. c \in told /\ \A j \in told : Before(c, j)
    BY <2>2, <2>3
  <2>5. least = items[c]
    BY <1>5, Zenon DEF Least
  <2> HIDE DEF c
  <2>6. items[c].left \in T /\ \A j \in told : items[c].left <= items[j].left
    <3>1. \A j \in told : items[j].left \in T
      BY <1>2
    <3>2. T \subseteq Nat
      BY <1>0
    <3>3. items[c].left \in T
      BY <2>4, <3>1
    <3>4. ASSUME NEW j \in told PROVE items[c].left <= items[j].left
      <4>1. Before(c, j)
        BY <2>4
      <4>2. items[c].left \in Nat /\ items[j].left \in Nat
        BY <3>1, <3>2, <3>3
      <4> QED BY <4>1, <4>2
    <3> QED BY <3>3, <3>4
  <2>7. items[c].left \in T /\ \A k \in T : items[c].left <= k
    BY <1>2, <2>6
  <2>8. least.id = id /\ least.left # Missing
    BY <2>4, <2>5
  <2>9. {items[c].left} = Minimum(T)
    <3> DEFINE m == items[c].left
    <3>1. m \in T /\ T \subseteq Nat /\ \A k \in T : m <= k
      BY <1>0, <2>7
    <3> HIDE DEF T, m
    <3>2. \A k \in T : k <= m => k = m
      BY <3>1
    <3>3. {m} = Minimum(T)
      BY <3>1, <3>2 DEF Minimum
    <3> QED BY <3>3 DEF m
  <2> QED BY <2>5, <2>6, <2>8, <2>9
<1> QED BY <1>4, <1>5

IdsOf(items) == {items[i].id : i \in DOMAIN items}

(* Arranged has the ids of the items and no other, the preferred ones first. *)
LEMMA ArrangedFacts ==
    ASSUME NEW P, NEW preferred \in Seq(P), NEW S, NEW items \in Seq(S)
    PROVE  /\ Arranged(preferred, items) \in Seq(IdsOf(items))
           /\ Range(Arranged(preferred, items)) = IdsOf(items)
           /\ \A id \in IdsOf(items) \cap Range(preferred) :
                 \E j \in 1 .. Len(preferred) :
                    j <= Len(Arranged(preferred, items)) /\ Arranged(preferred, items)[j] = id
<1> DEFINE ids == {items[i].id : i \in DOMAIN items}
           others == {i \in DOMAIN items : items[i].id \notin Range(preferred)}
           J == {i \in others : \A j \in others : items[j].id = items[i].id => i <= j}
           firsts == Only(items, J)
           I == {i \in DOMAIN preferred : preferred[i] \in ids}
           p == Only(preferred, I)
           q == [i \in DOMAIN firsts |-> firsts[i].id]
           arranged == Arranged(preferred, items)
<1>1. arranged = p \o q
  BY Zenon DEF Arranged
<1>2. /\ p \in Seq(P) /\ Range(p) = {preferred[i] : i \in I}
      /\ Len(p) <= Len(preferred) /\ Len(preferred) \in Nat
  BY OnlyMembers
<1>3. firsts \in Seq(S) /\ Range(firsts) = {items[i] : i \in J}
  BY OnlyMembers
<1> HIDE DEF p, firsts, arranged
<1>4. Range(p) = ids \cap Range(preferred)
  BY <1>2 DEF Range
<1>5. p \in Seq(ids)
  <2>1. p \in Seq(Range(p))
    BY <1>2, SeqOfRange
  <2> QED BY <2>1, <1>4, SeqMonotonic
<1>6. \A i \in DOMAIN firsts : firsts[i].id \in ids
  BY <1>3 DEF Range
<1>7. q \in Seq(ids) /\ Range(q) = {items[i].id : i \in J}
  <2>1. q \in Seq(ids)
    BY <1>3, <1>6
  <2>2. Range(q) = {x.id : x \in Range(firsts)}
    BY DEF Range
  <2> HIDE DEF q, J
  <2>3. \A id : id \in Range(q) <=> \E i \in J : items[i].id = id
    BY <2>2, <1>3
  <2> QED BY <2>1, <2>3
<1>8. Range(q) = ids \ Range(preferred)
  <2>1. ASSUME NEW i \in others PROVE \E j \in J : items[j].id = items[i].id
    <3> DEFINE same == {j \in others : items[j].id = items[i].id}
    <3>1. same \subseteq Nat /\ same # {}
      <4>1. DOMAIN items = 1 .. Len(items) /\ Len(items) \in Nat
        OBVIOUS
      <4> QED BY <4>1
    <3>2. PICK j \in same : \A k \in same : j <= k
      BY <3>1, LeastNumber
    <3>3. j \in J
      BY <3>2
    <3> QED BY <3>2, <3>3
  <2>2. Range(q) \subseteq ids \ Range(preferred)
    BY <1>7
  <2>3. ASSUME NEW id \in ids \ Range(preferred) PROVE id \in Range(q)
    <3>1. PICK i \in others : items[i].id = id
      BY <2>3
    <3>2. PICK j \in J : items[j].id = items[i].id
      BY <2>1
    <3> QED BY <3>1, <3>2, <1>7
  <2> QED BY <2>2, <2>3
<1> HIDE DEF q, ids
<1>9. arranged \in Seq(ids) /\ Range(arranged) = Range(p) \cup Range(q)
  BY <1>1, <1>5, <1>7, ConcatProperties, RangeConcatenation
<1>10. Range(arranged) = ids
  BY <1>4, <1>8, <1>9
<1>11. ASSUME NEW id \in ids \cap Range(preferred)
       PROVE  \E j \in 1 .. Len(preferred) : j <= Len(arranged) /\ arranged[j] = id
  <2>1. PICK j \in 1 .. Len(p) : p[j] = id
    BY <1>2, <1>4, <1>11 DEF Range
  <2>2. Len(p) \in Nat /\ Len(q) \in Nat /\ Len(arranged) = Len(p) + Len(q) /\ arranged[j] = p[j]
    BY <1>1, <1>5, <1>7, <2>1, ConcatProperties, LenProperties
  <2> QED BY <2>1, <2>2, <1>2
<1>12. ids = IdsOf(items)
  BY DEF ids, IdsOf
<1> QED BY <1>9, <1>10, <1>11, <1>12 DEF arranged

\* Without preferred ids, Arranged has none of them twice.
LEMMA ArrangedDistinct ==
    ASSUME NEW S, NEW items \in Seq(S),
           NEW j \in DOMAIN Arranged(<<>>, items), NEW k \in DOMAIN Arranged(<<>>, items),
           Arranged(<<>>, items)[j] = Arranged(<<>>, items)[k]
    PROVE  j = k
<1> DEFINE none == <<>>
           ids == {items[i].id : i \in DOMAIN items}
           others == {i \in DOMAIN items : items[i].id \notin Range(none)}
           J == {i \in others : \A m \in others : items[m].id = items[i].id => i <= m}
           firsts == Only(items, J)
           p == Only(none, {i \in DOMAIN none : none[i] \in ids})
           q == [i \in DOMAIN firsts |-> firsts[i].id]
<1>1. Arranged(<<>>, items) = p \o q
  BY Zenon DEF Arranged
<1>2. p = <<>>
  <2>1. none \in Seq({}) /\ Len(none) = 0
    BY EmptySeq
  <2> HIDE DEF none
  <2>2. p \in Seq({}) /\ Len(p) <= Len(none)
    BY <2>1, OnlyMembers
  <2> HIDE DEF p
  <2> QED BY <2>1, <2>2, EmptySeq
<1>3. firsts \in Seq(S)
  BY OnlyPlaces
<1>4. PICK place : Picks(place, firsts, items, J \cap DOMAIN items)
  BY OnlyPlaces
<1>5. \A i, m \in J : items[i].id = items[m].id => i = m
  OBVIOUS
<1> HIDE DEF firsts, J, p
<1>6. Arranged(<<>>, items) = q
  <2>1. q \in Seq({firsts[i].id : i \in DOMAIN firsts})
    BY <1>3
  <2> HIDE DEF q
  <2> QED BY <1>1, <1>2, <2>1, ConcatEmptySeq
<1>7. \A i \in 1 .. Len(firsts) : place[i] \in J /\ firsts[i] = items[place[i]]
  BY <1>4 DEF Picks, Bijection, Injection
<1>8. j \in 1 .. Len(firsts) /\ k \in 1 .. Len(firsts) /\ firsts[j].id = firsts[k].id
  BY <1>3, <1>6
<1>9. place[j] = place[k]
  BY <1>5, <1>7, <1>8
<1> QED BY <1>4, <1>8, <1>9 DEF Picks, Bijection, Injection, IsInjective

\* What a row shows for an id is the least that is told for it.
LEMMA ShownIsLeast ==
    ASSUME NEW group, NEW S, NEW windows \in Seq(S), \A x \in Range(windows) : x.left \in Nat,
           NEW id, id \in {AggregateWindows(group, windows)[i].id :
                              i \in DOMAIN AggregateWindows(group, windows)}
    PROVE  LET shown == AggregateWindows(group, windows)
           IN  {shown[i].left : i \in {j \in DOMAIN shown : shown[j].id = id}} \ {Missing}
                  = Minimum(Tells(windows, id))
<1> DEFINE shown == AggregateWindows(group, windows)
           arranged == Arranged(Preferred(group), windows)
           limit == IF group = "opencode" THEN 3 ELSE 2
           count == IF Len(arranged) > limit THEN limit ELSE Len(arranged)
           Seen == {shown[i].left : i \in {j \in DOMAIN shown : shown[j].id = id}}
           least == Least(windows, id)
<1>1. shown = [i \in 1 .. count |-> Least(windows, arranged[i])]
  BY Zenon DEF AggregateWindows
<1>2. \A x : /\ Least(windows, x).id = x
             /\ {Least(windows, x).left} \ {Missing} = Minimum(Tells(windows, x))
  BY LeastFacts
<1> HIDE DEF count, arranged
<1>3. \A i \in DOMAIN shown : shown[i].id = id => shown[i] = least
  BY <1>1, <1>2
<1> HIDE DEF shown, least
<1>4. \E i \in DOMAIN shown : shown[i].id = id
  BY DEF shown
<1>5. Seen = {least.left}
  BY <1>3, <1>4
<1> QED BY <1>2, <1>5 DEF shown, least

Grouped == {"codex", "claude", "kimi", "antigravity", "opencode"}

(* A row has a place for each id that its group prefers, and shows there the
   least that any window of any account tells for it (layout.go:134). *)
LEMMA ShownFacts ==
    ASSUME NEW group \in Grouped, NEW S, NEW windows \in Seq(S),
           \A x \in Range(windows) : x.left \in Nat,
           NEW id \in Range(Preferred(group))
    PROVE  LET shown == AggregateWindows(group, windows)
           IN  {shown[i].left : i \in {j \in DOMAIN shown : shown[j].id = id}} \ {Missing}
                  = Minimum(Tells(windows, id))
<1> DEFINE ids == IdsOf(windows)
           limit == IF group = "opencode" THEN 3 ELSE 2
           arranged == Arranged(Preferred(group), windows)
           count == IF Len(arranged) > limit THEN limit ELSE Len(arranged)
           shown == AggregateWindows(group, windows)
           Seen == {shown[i].left : i \in {j \in DOMAIN shown : shown[j].id = id}}
           least == Least(windows, id)
           P == {FiveHours, SevenDays, OneMonth}
<1> SUFFICES Seen \ {Missing} = Minimum(Tells(windows, id))
  OBVIOUS
<1>1. Preferred(group) \in Seq(P) /\ Len(Preferred(group)) <= limit
  <2>1. CASE group = "opencode"
    <3>1. Preferred(group) = <<FiveHours, SevenDays, OneMonth>>
      BY <2>1 DEF Preferred
    <3> HIDE DEF P
    <3>2. <<FiveHours, SevenDays, OneMonth>> \in Seq(P)
      BY DEF P
    <3> QED BY <3>1, <3>2, <2>1
  <2>2. CASE group # "opencode"
    <3>1. Preferred(group) = <<FiveHours, SevenDays>>
      BY <2>2 DEF Preferred, Grouped
    <3>2. <<FiveHours, SevenDays>> \in Seq(P)
      OBVIOUS
    <3> QED BY <3>1, <3>2, <2>2
  <2> QED BY <2>1, <2>2
<1> HIDE DEF P
<1>2. /\ arranged \in Seq(ids)
      /\ id \in ids => \E j \in 1 .. Len(Preferred(group)) : j <= Len(arranged) /\ arranged[j] = id
  <2>1. /\ arranged \in Seq(ids)
        /\ \A x \in ids \cap Range(Preferred(group)) :
              \E j \in 1 .. Len(Preferred(group)) : j <= Len(arranged) /\ arranged[j] = x
    BY <1>1, ArrangedFacts
  <2> QED BY <2>1
<1>3. \A x : /\ Least(windows, x).id = x
             /\ {Least(windows, x).left} \ {Missing} = Minimum(Tells(windows, x))
  BY LeastFacts
<1>4. shown = [i \in 1 .. count |-> Least(windows, arranged[i])]
  BY Zenon DEF AggregateWindows
<1>5. limit \in Nat /\ Len(arranged) \in Nat /\ Len(Preferred(group)) \in Nat
  BY <1>1, <1>2
<1>6. count \in Nat
  BY <1>5
<1> HIDE DEF shown
<1>7. Seen \subseteq {least.left}
  <2> SUFFICES ASSUME NEW i \in DOMAIN shown, shown[i].id = id PROVE shown[i].left = least.left
    OBVIOUS
  <2>1. shown[i] = Least(windows, arranged[i])
    BY <1>4
  <2>2. arranged[i] = id
    BY <2>1, <1>3
  <2> QED BY <2>1, <2>2
<1>8. CASE id \in ids
  <2>1. PICK j \in 1 .. Len(Preferred(group)) : j <= Len(arranged) /\ arranged[j] = id
    BY <1>2, <1>8
  <2>2. j \in 1 .. count
    BY <2>1, <1>1, <1>5
  <2>3. shown[j] = least /\ j \in DOMAIN shown
    BY <2>1, <2>2, <1>4
  <2>4. least.left \in Seen
    BY <2>3, <1>3
  <2> QED BY <1>3, <1>7, <2>4
<1>9. CASE id \notin ids
  <2>1. Tells(windows, id) = {}
    BY <1>9 DEF IdsOf, Tells, Range
  <2>2. {least.left} \ {Missing} = {}
    BY <2>1, <1>3 DEF Minimum
  <2>3. Minimum(Tells(windows, id)) = {}
    BY <2>1 DEF Minimum
  <2> QED BY <1>7, <2>2, <2>3
<1> QED BY <1>8, <1>9

\* What was reported for an id, of any account.
AnySays(reported, id) == {r[2] : r \in {q \in UNION Range(reported) : q[1] = id}}

\* What each of n accounts tells is true to its reports.
AllTrue(n, windows, reported, ids) ==
    /\ n \in Nat
    /\ windows = [i \in 1 .. n |-> windows[i]] /\ reported = [i \in 1 .. n |-> reported[i]]
    /\ \A i \in 1 .. n : TrueTo(windows[i], reported[i], ids)

\* If what each account tells is true to its reports, the least that is told is
\* the least of all reports.
LEMMA LeastOfAll ==
    ASSUME NEW n, NEW windows, NEW reported, NEW ids,
           AllTrue(n, windows, reported, ids), NEW id \in ids
    PROVE  /\ Legal(FlattenSeq(windows))
           /\ Minimum(Tells(FlattenSeq(windows), id)) = Minimum(AnySays(reported, id))
<1> DEFINE flat == FlattenSeq(windows)
           all == AnySays(reported, id)
           W == UNION {Range(windows[i]) : i \in 1 .. n}
<1>0. n \in Nat /\ \A i \in 1 .. n : TrueTo(windows[i], reported[i], ids)
  BY DEF AllTrue
<1>9. DOMAIN reported = 1 .. n /\ DOMAIN windows = 1 .. n
  BY DEF AllTrue
<1>1. windows \in [1 .. n -> Seq(W)]
  <2> SUFFICES ASSUME NEW i \in 1 .. n PROVE windows[i] \in Seq(W)
    BY DEF AllTrue
  <2>1. windows[i] \in Seq(Range(windows[i])) /\ Range(windows[i]) \subseteq W
    BY <1>0 DEF TrueTo
  <2> QED BY <2>1, SeqMonotonic
<1>2. flat \in Seq(W) /\ Range(flat) = W
  BY <1>0, <1>1, FlattenPlaces, FlattenRange
<1>3. \A x \in Range(flat) : x.left \in Nat
  BY <1>0, <1>2 DEF TrueTo
<1> HIDE DEF flat
<1>4. Legal(flat)
  <2>1. flat \in Seq(Range(flat))
    BY <1>2, SeqOfRange
  <2> QED BY <1>3, <2>1 DEF Legal
<1>5. Tells(flat, id) = UNION {Tells(windows[i], id) : i \in 1 .. n}
  BY <1>2 DEF Tells
<1>6. all = UNION {Says(reported[i], id) : i \in 1 .. n}
  BY <1>9 DEF AnySays, Says, Range
<1>7. /\ all \subseteq 0 .. 100
      /\ Tells(flat, id) \subseteq all
      /\ \A k \in all : \E m \in Tells(flat, id) : m <= k
  <2>1. \A i \in 1 .. n :
           /\ Says(reported[i], id) \subseteq 0 .. 100
           /\ Tells(windows[i], id) \subseteq Says(reported[i], id)
           /\ \A k \in Says(reported[i], id) : \E m \in Tells(windows[i], id) : m <= k
    BY <1>0 DEF TrueTo
  <2> HIDE DEF all
  <2>2. all \subseteq 0 .. 100
    BY <2>1, <1>6
  <2>3. Tells(flat, id) \subseteq all
    BY <2>1, <1>5, <1>6
  <2>4. ASSUME NEW k \in all PROVE \E m \in Tells(flat, id) : m <= k
    <3>1. PICK i \in 1 .. n : k \in Says(reported[i], id)
      BY <1>6
    <3>2. PICK m \in Tells(windows[i], id) : m <= k
      BY <2>1, <3>1
    <3> QED BY <1>5, <3>2
  <2> QED BY <2>2, <2>3, <2>4
<1> HIDE DEF all
<1>8. Minimum(Tells(flat, id)) = Minimum(all)
  <2>1. ASSUME NEW k \in Minimum(Tells(flat, id)), NEW m \in all PROVE k <= m
    <3>1. PICK x \in Tells(flat, id) : x <= m
      BY <1>7
    <3>2. k <= x /\ k \in 0 .. 100 /\ x \in 0 .. 100 /\ m \in 0 .. 100
      BY <1>7 DEF Minimum
    <3> QED BY <3>1, <3>2
  <2>2. ASSUME NEW k \in all, \A m \in all : k <= m PROVE k \in Minimum(Tells(flat, id))
    <3>1. PICK x \in Tells(flat, id) : x <= k
      BY <1>7
    <3>2. k <= x /\ k \in 0 .. 100 /\ x \in 0 .. 100
      BY <2>2, <1>7
    <3>3. x = k
      BY <3>1, <3>2
    <3> QED BY <2>2, <3>3, <1>7 DEF Minimum
  <2> QED BY <2>1, <2>2, <1>7 DEF Minimum
<1> QED BY <1>4, <1>8 DEF flat, all

(* The accounts of a row together: if what each account tells is true to its
   reports, the row shows the least of all reports. *)
THEOREM RowShowsLeast ==
    ASSUME NEW group \in Grouped, NEW n, NEW windows, NEW reported,
           AllTrue(n, windows, reported, Range(Preferred(group)))
    PROVE  ShowsLeast(group, windows, reported)
<1> DEFINE flat == FlattenSeq(windows)
           shown == AggregateWindows(group, flat)
           Seen(id) == {shown[i].left : i \in {j \in DOMAIN shown : shown[j].id = id}}
<1> SUFFICES ASSUME NEW id \in Range(Preferred(group))
             PROVE  Seen(id) \ {Missing} = Minimum(AnySays(reported, id))
  BY Zenon DEF ShowsLeast, ShowsLeastOf, AnySays, Minimum
<1>1. Legal(flat) /\ Minimum(Tells(flat, id)) = Minimum(AnySays(reported, id))
  BY LeastOfAll
<1> HIDE DEF flat
<1>2. Seen(id) \ {Missing} = Minimum(Tells(flat, id))
  BY <1>1, ShownFacts DEF Legal
<1> QED BY <1>1, <1>2

-----------------------------------------------------------------------------
(* What windows tell, put together from their parts.                         *)

LEMMA NoWindows == Legal(<<>>) /\ \A id : Tells(<<>>, id) = {}
<1>1. Range(<<>>) = {} /\ <<>> \in Seq({})
  BY EmptySeq DEF Range
<1> QED BY <1>1 DEF Legal, Tells

LEMMA EachWindow ==
    ASSUME NEW n \in Nat, NEW S, NEW windows \in [1 .. n -> S], \A x \in S : x.left \in Nat
    PROVE  /\ Legal(windows)
           /\ \A id, m : m \in Tells(windows, id)
                <=> \E i \in 1 .. n : windows[i].id = id /\ windows[i].left = m /\ m # Missing
<1>1. windows \in Seq(S) /\ Range(windows) = {windows[i] : i \in 1 .. n}
  BY DEF Range
<1>2. windows \in Seq(Range(windows))
  BY <1>1, SeqOfRange
<1> QED BY <1>1, <1>2 DEF Legal, Tells

LEMMA OneWindow ==
    ASSUME NEW x, x.left \in Nat
    PROVE  /\ Legal(<<x>>)
           /\ \A id : Tells(<<x>>, id) = IF x.id = id /\ x.left # Missing THEN {x.left} ELSE {}
<1>1. Range(<<x>>) = {x} /\ <<x>> \in Seq({x})
  BY DEF Range
<1> QED BY <1>1 DEF Legal, Tells

LEMMA MoreWindows ==
    ASSUME NEW v, NEW w, Legal(v), Legal(w)
    PROVE  /\ Legal(v \o w)
           /\ \A id : Tells(v \o w, id) = Tells(v, id) \cup Tells(w, id)
<1> DEFINE W == Range(v) \cup Range(w)
<1>1. v \in Seq(W) /\ w \in Seq(W)
  BY SeqMonotonic DEF Legal
<1>2. v \o w \in Seq(W) /\ Range(v \o w) = W
  BY <1>1, ConcatProperties, RangeConcatenation
<1> QED BY <1>2 DEF Legal, Tells

TellsAny(parts, id) == UNION {Tells(parts[i], id) : i \in DOMAIN parts}

LEMMA AllWindows ==
    ASSUME NEW n \in Nat, NEW S, NEW parts \in [1 .. n -> S], \A i \in 1 .. n : Legal(parts[i])
    PROVE  /\ Legal(FlattenSeq(parts))
           /\ \A id : Tells(FlattenSeq(parts), id) = TellsAny(parts, id)
<1> DEFINE W == UNION {Range(parts[i]) : i \in 1 .. n}
           flat == FlattenSeq(parts)
<1>1. parts \in [1 .. n -> Seq(W)]
  <2> SUFFICES ASSUME NEW i \in 1 .. n PROVE parts[i] \in Seq(W)
    OBVIOUS
  <2>1. parts[i] \in Seq(Range(parts[i])) /\ Range(parts[i]) \subseteq W
    BY DEF Legal
  <2> QED BY <2>1, SeqMonotonic
<1>2. flat \in Seq(W) /\ Range(flat) = W
  BY <1>1, FlattenPlaces, FlattenRange
<1> HIDE DEF flat
<1>3. Legal(flat)
  BY <1>2 DEF Legal
<1>4. \A id : Tells(flat, id) = TellsAny(parts, id)
  BY <1>2 DEF Tells, TellsAny
<1> QED BY <1>3, <1>4 DEF flat

LEMMA PercentFacts ==
    \A v \in Int : Percent(v) \in 0 .. 100 /\ (v \in 0 .. 100 => Percent(v) = v)
BY DEF Percent

LEMMA PercentageFacts == \A v \in Int : Percentage(v) <=> v \in 0 .. 100
BY DEF Percentage, IsNumber, Missing, Bad

LEMMA UsedIsTyped ==
    ASSUME NEW id, NEW used \in Int, NEW reset
    PROVE  Used(id, used, reset).id = id /\ Used(id, used, reset).left \in Nat
<1>1. 100 - used \in Int
  OBVIOUS
<1> QED BY <1>1, PercentFacts DEF Used, Window

\* A window of which some share is used tells the rest.
LEMMA UsedFacts ==
    ASSUME NEW id, NEW used \in 0 .. 100, NEW reset
    PROVE  /\ Used(id, used, reset).id = id /\ Used(id, used, reset).left = 100 - used
           /\ 100 - used \in Nat /\ 100 - used # Missing
BY PercentFacts DEF Used, Window, Missing

-----------------------------------------------------------------------------
(* The adapters.  Codex: the spans of each limit, by their length.           *)

LEMMA CompactFacts ==
    ASSUME NEW s \in Int
    PROVE  /\ CompactDuration(s) = <<5, "h">> <=> s = 5 * 3600
           /\ CompactDuration(s) = <<7, "d">> <=> s = 7 * 24 * 3600
           /\ CompactDuration(s) = <<CompactDuration(s)[1], CompactDuration(s)[2]>>
<1>1. CASE s <= 0
  <2>1. CompactDuration(s) = <<0, "window">>
    BY <1>1 DEF CompactDuration
  <2> QED BY <1>1, <2>1
<1>2. CASE s > 0 /\ s % 86400 = 0
  <2>1. CompactDuration(s) = <<s \div 86400, "d">>
    BY <1>2 DEF CompactDuration
  <2>2. s = 86400 * (s \div 86400) /\ s # 5 * 3600
    BY <1>2
  <2> QED BY <2>1, <2>2
<1>3. CASE s > 0 /\ s % 86400 # 0 /\ s % 3600 = 0
  <2>1. CompactDuration(s) = <<s \div 3600, "h">>
    BY <1>3 DEF CompactDuration
  <2>2. s = 3600 * (s \div 3600) /\ s # 7 * 24 * 3600
    BY <1>3
  <2> QED BY <2>1, <2>2
<1>4. CASE s > 0 /\ s % 86400 # 0 /\ s % 3600 # 0
  <2>1. s # 5 * 3600 /\ s # 7 * 24 * 3600
    BY <1>4
  <2>2. CASE s % 60 = 0
    <3>1. CompactDuration(s) = <<s \div 60, "m">>
      BY <1>4, <2>2 DEF CompactDuration
    <3> QED BY <2>1, <3>1
  <2>3. CASE s % 60 # 0
    <3>1. CompactDuration(s) = <<s, "s">>
      BY <1>4, <2>3 DEF CompactDuration
    <3> QED BY <2>1, <3>1
  <2> QED BY <2>2, <2>3
<1> QED BY <1>1, <1>2, <1>3, <1>4

\* The two ids, what tells their windows from others, and where they stand.
Span5h == [id |-> FiveHours, span |-> <<5, "h">>, seconds |-> 5 * 3600, place |-> "primary"]
Span7d == [id |-> SevenDays, span |-> <<7, "d">>, seconds |-> 7 * 24 * 3600, place |-> "secondary"]

SpanSays(payload, place, s) ==
    IF Percentage(payload.used)
       /\ (IF IsNumber(payload.seconds) THEN payload.seconds = s.seconds ELSE place = s.place)
    THEN {100 - payload.used} ELSE {}

LimitSays(limit, s) ==
    SpanSays(limit.primary, "primary", s) \cup SpanSays(limit.secondary, "secondary", s)

Fallback(place) == IF place = "primary" THEN <<5, "h">> ELSE <<7, "d">>

LEMMA CodexWindowFacts ==
    ASSUME NEW payload \in CodexSpan, NEW label, NEW now \in Nat,
           NEW place \in {"primary", "secondary"}, NEW s \in {Span5h, Span7d}
    PROVE  /\ Legal(CodexWindow(payload, label, Fallback(place), now))
           /\ Tells(CodexWindow(payload, label, Fallback(place), now), s.id)
                = IF label = <<>> THEN SpanSays(payload, place, s) ELSE {}
<1> DEFINE fallback == Fallback(place)
           windows == CodexWindow(payload, label, fallback, now)
           reset == ResetTime(payload, now)
           span == IF IsNumber(payload.seconds) THEN CompactDuration(payload.seconds) ELSE fallback
           id == <<label, span[1], span[2]>>
           unusable == payload.used # Missing /\ ~Percentage(payload.used)
<1>0. payload.used \in Int /\ payload.seconds \in Int
  BY DEF CodexSpan
<1>1. CASE unusable \/ (payload.used = Missing /\ reset = 0)
  <2>1. windows = <<>>
    BY <1>1, Zenon DEF CodexWindow
  <2>2. ~Percentage(payload.used)
    BY <1>1 DEF Percentage, IsNumber
  <2> QED BY <2>1, <2>2, NoWindows DEF SpanSays
<1>2. CASE payload.used = Missing /\ reset # 0
  <2>1. windows = <<Window(id, Missing, Missing, reset)>>
    BY <1>2, Zenon DEF CodexWindow
  <2>2. ~Percentage(payload.used)
    BY <1>2 DEF Percentage, IsNumber
  <2> DEFINE w == Window(id, Missing, Missing, reset)
  <2>3. w.left = Missing /\ w.left \in Nat
    BY DEF Window, Missing
  <2> HIDE DEF w
  <2>4. Legal(windows) /\ Tells(windows, s.id) = {}
    BY <2>1, <2>3, OneWindow DEF w
  <2> QED BY <2>2, <2>4 DEF SpanSays
<1>3. CASE payload.used # Missing /\ ~unusable
  <2>1. windows = <<Used(id, payload.used, reset)>>
    BY <1>3, Zenon DEF CodexWindow
  <2>2. Percentage(payload.used) /\ payload.used \in 0 .. 100
    BY <1>0, <1>3 DEF Percentage
  <2> DEFINE w == Used(id, payload.used, reset)
             x == id
             u == payload.used
             r == reset
  <2>6. w = Used(x, u, r) /\ u \in 0 .. 100
    BY <2>2
  <2> HIDE DEF w, x, u, r
  <2>7. w.id = x /\ w.left = 100 - u /\ w.left \in Nat /\ w.left # Missing
    BY <2>6, UsedFacts
  <2>3. w.id = id /\ w.left = 100 - payload.used /\ w.left \in Nat /\ w.left # Missing
    BY <2>7 DEF x, u
  <2> HIDE DEF w
  <2>4. /\ Legal(windows)
        /\ Tells(windows, s.id) = IF id = s.id THEN {100 - payload.used} ELSE {}
    BY <2>1, <2>3, OneWindow DEF w
  <2>5. id = s.id <=> label = <<>> /\ (IF IsNumber(payload.seconds) THEN payload.seconds = s.seconds
                                                                 ELSE place = s.place)
    <3>1. span = <<span[1], span[2]>>
      BY <1>0, CompactFacts DEF Fallback
    <3>2. span = s.span <=> IF IsNumber(payload.seconds) THEN payload.seconds = s.seconds
                                                       ELSE place = s.place
      <4>1. CASE IsNumber(payload.seconds)
        <5>1. span = CompactDuration(payload.seconds)
          BY <4>1
        <5> HIDE DEF span
        <5> QED BY <1>0, <4>1, <5>1, CompactFacts DEF Span5h, Span7d
      <4>2. CASE ~IsNumber(payload.seconds)
        <5>1. span = fallback
          BY <4>2
        <5> HIDE DEF span
        <5> QED BY <4>2, <5>1 DEF Fallback, Span5h, Span7d
      <4> QED BY <4>1, <4>2
    <3>3. s.id = <<<<>>, s.span[1], s.span[2]>> /\ s.span = <<s.span[1], s.span[2]>>
      BY DEF Span5h, Span7d, FiveHours, SevenDays
    <3> HIDE DEF span
    <3> QED BY <3>1, <3>2, <3>3
  <2> QED BY <2>2, <2>4, <2>5 DEF SpanSays
<1> QED BY <1>1, <1>2, <1>3

LEMMA LimitFacts ==
    ASSUME NEW limit, limit.primary \in CodexSpan, limit.secondary \in CodexSpan,
           NEW label, NEW now \in Nat, NEW s \in {Span5h, Span7d}
    PROVE  /\ Legal(RateLimitWindows(limit, label, now))
           /\ Tells(RateLimitWindows(limit, label, now), s.id)
                = IF label = <<>> THEN LimitSays(limit, s) ELSE {}
<1> DEFINE v == CodexWindow(limit.primary, label, Fallback("primary"), now)
           w == CodexWindow(limit.secondary, label, Fallback("secondary"), now)
<1>1. /\ Legal(v)
      /\ Tells(v, s.id) = IF label = <<>> THEN SpanSays(limit.primary, "primary", s) ELSE {}
  BY CodexWindowFacts
<1>2. /\ Legal(w)
      /\ Tells(w, s.id) = IF label = <<>> THEN SpanSays(limit.secondary, "secondary", s) ELSE {}
  BY CodexWindowFacts
<1>3. RateLimitWindows(limit, label, now) = v \o w
  <2>1. Fallback("primary") = <<5, "h">> /\ Fallback("secondary") = <<7, "d">>
    BY DEF Fallback
  <2> QED BY <2>1, Zenon DEF RateLimitWindows
<1> HIDE DEF v, w
<1>4. Legal(v \o w) /\ Tells(v \o w, s.id) = Tells(v, s.id) \cup Tells(w, s.id)
  BY <1>1, <1>2, MoreWindows
<1>5. Tells(v \o w, s.id) = IF label = <<>> THEN LimitSays(limit, s) ELSE {}
  BY <1>1, <1>2, <1>4 DEF LimitSays
<1> QED BY <1>3, <1>4, <1>5

LEMMA LabelFacts ==
    ASSUME NEW limit, limit.name \in AtMostOne(STRING), NEW i \in Nat
    PROVE  Label(limit, i) = <<>> <=> limit.name = <<"">>
<1>0. <<"">> # <<>>
  OBVIOUS
<1>1. CASE limit.name = <<>>
  <2>1. Label(limit, i) = <<"Extra", i>>
    BY <1>0, <1>1, Zenon DEF Label
  <2> QED BY <1>1, <2>1
<1>2. CASE limit.name = <<"">>
  <2>1. Label(limit, i) = <<>>
    BY <1>2, <1>0, Zenon DEF Label
  <2> QED BY <1>2, <2>1
<1>3. CASE limit.name # <<>> /\ limit.name # <<"">>
  <2>1. Label(limit, i) = limit.name
    BY <1>3, Zenon DEF Label
  <2> QED BY <1>3, <2>1
<1> QED BY <1>1, <1>2, <1>3

\* Both ways of telling which of two answers counts agree.
LEMMA RetriedFacts ==
    ASSUME NEW Answer, NEW call \in Calls(Answer)
    PROVE  /\ Retried(call.answers, call.live) = Answered(call)
           /\ Answered(call) # <<>> => Answered(call)[1] \in Answer
<1>1. /\ call.answers[1] \in AtMostOne(Answer) /\ call.answers[2] \in AtMostOne(Answer)
      /\ call.live \in BOOLEAN
  BY DEF Calls
<1>2. Retried(call.answers, call.live) = Answered(call)
  BY <1>1 DEF Retried, Answered
<1>3. Answered(call) \in AtMostOne(Answer)
  BY <1>1, EmptySeq DEF Answered, AtMostOne
<1> QED BY <1>2, <1>3 DEF AtMostOne

\* A report of two ids says of each what it is given.
ReportOf(T, U) == ({FiveHours} \X T) \cup ({SevenDays} \X U)

LEMMA SaysOfTwo ==
    ASSUME NEW T, NEW U
    PROVE  Says(ReportOf(T, U), FiveHours) = T /\ Says(ReportOf(T, U), SevenDays) = U
<1>1. FiveHours # SevenDays
  BY DEF FiveHours, SevenDays
<1> DEFINE all == ({FiveHours} \X T) \cup ({SevenDays} \X U)
<1>2. {q \in all : q[1] = FiveHours} = {FiveHours} \X T
  BY <1>1
<1>3. {q \in all : q[1] = SevenDays} = {SevenDays} \X U
  BY <1>1
<1> HIDE DEF all
<1>4. Says(all, FiveHours) = {r[2] : r \in {FiveHours} \X T}
  BY <1>2, Zenon DEF Says
<1>5. Says(all, SevenDays) = {r[2] : r \in {SevenDays} \X U}
  BY <1>3, Zenon DEF Says
<1>6. ASSUME NEW id, NEW S PROVE {r[2] : r \in {id} \X S} = S
  <2>1. ASSUME NEW x \in S PROVE x \in {r[2] : r \in {id} \X S}
    <3>1. <<id, x>> \in {id} \X S /\ <<id, x>>[2] = x
      OBVIOUS
    <3> QED BY <3>1
  <2>2. ASSUME NEW r \in {id} \X S PROVE r[2] \in S
    OBVIOUS
  <2> QED BY <2>1, <2>2
<1>7. Says(all, FiveHours) = T /\ Says(all, SevenDays) = U
  <2>1. {r[2] : r \in {FiveHours} \X T} = T
    BY <1>6, Zenon
  <2>2. {r[2] : r \in {SevenDays} \X U} = U
    BY <1>6, Zenon
  <2> QED BY <1>4, <1>5, <2>1, <2>2, Zenon
<1> QED BY <1>7 DEF all, ReportOf

\* What is told and reported is the same.
LEMMA SameIsTrue ==
    ASSUME NEW windows, Legal(windows), NEW reported, NEW ids,
           \A id \in ids : /\ Tells(windows, id) = Says(reported, id)
                           /\ Says(reported, id) \subseteq 0 .. 100
    PROVE  TrueTo(windows, reported, ids)
<1>1. \A m \in 0 .. 100 : m <= m
  OBVIOUS
<1> QED BY <1>1 DEF TrueTo, Legal

LEMMA NothingIsTrue == \A ids : TrueTo(<<>>, {}, ids)
<1>1. \A id : Says({}, id) = {}
  BY DEF Says
<1> QED BY <1>1, NoWindows, SameIsTrue

SpanIs(x, seconds, place) ==
    Percentage(x[1].used) /\ IF IsNumber(x[1].seconds) THEN x[1].seconds = seconds
                                                      ELSE x[2] = place

ToldBy(spans, seconds, place) ==
    {100 - x[1].used : x \in {y \in spans : SpanIs(y, seconds, place)}}

LEMMA CodexReportFacts ==
    ASSUME NEW call, Answered(call) # <<>>, NEW s \in {Span5h, Span7d}
    PROVE  Says(CodexReported(call), s.id)
             = LimitSays(Answered(call)[1].limit, s)
<1> DEFINE l == Answered(call)[1].limit
           spans == {<<l.primary, "primary">>, <<l.secondary, "secondary">>}
<1>1. CodexReported(call)
        = ({FiveHours} \X ToldBy(spans, 5 * 3600, "primary")) \cup ({SevenDays} \X ToldBy(spans, 7 * 24 * 3600, "secondary"))
  BY Zenon DEF CodexReported, ToldBy, SpanIs
<1> HIDE DEF l
<1>3. ASSUME NEW r \in {Span5h, Span7d}
      PROVE  ToldBy(spans, r.seconds, r.place) = LimitSays(l, r)
  <2>1. ASSUME NEW x \in ToldBy(spans, r.seconds, r.place)
        PROVE  x \in LimitSays(l, r)
    <3>1. PICK y \in spans : SpanIs(y, r.seconds, r.place) /\ x = 100 - y[1].used
      BY <2>1 DEF ToldBy
    <3>2. y = <<l.primary, "primary">> \/ y = <<l.secondary, "secondary">>
      OBVIOUS
    <3>3. CASE y = <<l.primary, "primary">>
      <4>1. y[1] = l.primary /\ y[2] = "primary"
        BY <3>3
      <4>2. x \in SpanSays(l.primary, "primary", r)
        BY <3>1, <4>1 DEF SpanSays, SpanIs
      <4> QED BY <4>2 DEF LimitSays
    <3>4. CASE y = <<l.secondary, "secondary">>
      <4>1. y[1] = l.secondary /\ y[2] = "secondary"
        BY <3>4
      <4>2. x \in SpanSays(l.secondary, "secondary", r)
        BY <3>1, <4>1 DEF SpanSays, SpanIs
      <4> QED BY <4>2 DEF LimitSays
    <3> QED BY <3>2, <3>3, <3>4
  <2>2. ASSUME NEW x \in LimitSays(l, r) PROVE x \in ToldBy(spans, r.seconds, r.place)
    <3>1. CASE x \in SpanSays(l.primary, "primary", r)
      <4> DEFINE y == <<l.primary, "primary">>
      <4>1. y \in spans /\ SpanIs(y, r.seconds, r.place) /\ x = 100 - y[1].used
        BY <3>1 DEF SpanSays, SpanIs
      <4> QED BY <4>1 DEF ToldBy
    <3>2. CASE x \in SpanSays(l.secondary, "secondary", r)
      <4> DEFINE y == <<l.secondary, "secondary">>
      <4>1. y \in spans /\ SpanIs(y, r.seconds, r.place) /\ x = 100 - y[1].used
        BY <3>2 DEF SpanSays, SpanIs
      <4> QED BY <4>1 DEF ToldBy
    <3> QED BY <3>1, <3>2, <2>2 DEF LimitSays
  <2> QED BY <2>1, <2>2
<1> HIDE DEF spans
<1>4. /\ Says(CodexReported(call), FiveHours) = ToldBy(spans, 5 * 3600, "primary")
      /\ Says(CodexReported(call), SevenDays) = ToldBy(spans, 7 * 24 * 3600, "secondary")
  <2> DEFINE T == ToldBy(spans, 5 * 3600, "primary")
             U == ToldBy(spans, 7 * 24 * 3600, "secondary")
  <2> HIDE DEF T, U
  <2>1. CodexReported(call) = ReportOf(T, U)
    BY <1>1, Zenon DEF T, U, ReportOf
  <2>2. Says(CodexReported(call), FiveHours) = T /\ Says(CodexReported(call), SevenDays) = U
    BY <2>1, SaysOfTwo
  <2> QED BY <2>2 DEF T, U
<1>5. Says(CodexReported(call), s.id) = ToldBy(spans, s.seconds, s.place)
  <2>1. CASE s = Span5h
    <3>1. s.id = FiveHours /\ s.seconds = 5 * 3600 /\ s.place = "primary"
      BY <2>1 DEF Span5h
    <3> QED BY <1>4, <3>1
  <2>2. CASE s = Span7d
    <3>1. s.id = SevenDays /\ s.seconds = 7 * 24 * 3600 /\ s.place = "secondary"
      BY <2>2 DEF Span7d
    <3> QED BY <1>4, <3>1
  <2> QED BY <2>1, <2>2
<1>6. ToldBy(spans, s.seconds, s.place) = LimitSays(l, s)
  BY <1>3, Zenon
<1> QED BY <1>5, <1>6, Zenon DEF l

(* What FetchCodex tells of the two windows is what its answer reports, where
   the windows of additional limits have ids of their own. *)
LEMMA FetchCodexTrue ==
    ASSUME NEW call \in Calls(CodexAnswer), Distinguished(call)
    PROVE  TrueTo(FetchCodex(call.answers, call.live, call.now), CodexReported(call),
                  {FiveHours, SevenDays})
<1> DEFINE answer == Answered(call)
           first == answer[1]
           extra == first.additional
           additional == [i \in DOMAIN extra |-> RateLimitWindows(extra[i], Label(extra[i], i), call.now)]
           main == RateLimitWindows(first.limit, <<>>, call.now)
           windows == FetchCodex(call.answers, call.live, call.now)
<1>0. Retried(call.answers, call.live) = answer /\ call.now \in Nat
  BY RetriedFacts DEF Calls
<1>1. CASE answer = <<>>
  <2>1. windows = <<>> /\ CodexReported(call) = {}
    BY <1>0, <1>1 DEF FetchCodex, CodexReported
  <2> QED BY <2>1, NothingIsTrue
<1>2. CASE answer # <<>>
  <2>1. first \in CodexAnswer
    BY <1>2, RetriedFacts
  <2> DEFINE Extra == [name : AtMostOne(STRING), primary : CodexSpan, secondary : CodexSpan]
             n == Len(extra)
  <2>2. windows = main \o FlattenSeq(additional)
    BY <1>0, <1>2, Zenon DEF FetchCodex
  <2>0. \A i \in DOMAIN extra : extra[i].name # <<"">>
    BY <1>2 DEF Distinguished
  <2> HIDE DEF answer, first, Extra
  <2>3. first.limit.primary \in CodexSpan /\ first.limit.secondary \in CodexSpan /\ extra \in Seq(Extra)
    BY <2>1 DEF CodexAnswer, Extra
  <2> HIDE DEF extra
  <2>4. n \in Nat /\ DOMAIN extra = 1 .. n /\ \A i \in 1 .. n : extra[i] \in Extra
    BY <2>3
  <2> HIDE DEF n
  <2>5. ASSUME NEW s \in {Span5h, Span7d}
        PROVE  Legal(main) /\ Tells(main, s.id) = LimitSays(first.limit, s)
    BY <1>0, <2>3, LimitFacts
  <2>6. ASSUME NEW s \in {Span5h, Span7d}, NEW i \in 1 .. n
        PROVE  /\ Legal(additional[i])
               /\ Tells(additional[i], s.id) = {}
    <3>1. /\ extra[i].name \in AtMostOne(STRING) /\ i \in Nat
          /\ extra[i].primary \in CodexSpan /\ extra[i].secondary \in CodexSpan
      BY <2>4 DEF Extra
    <3>2. Label(extra[i], i) # <<>>
      BY <2>0, <2>4, <3>1, LabelFacts
    <3>3. additional[i] = RateLimitWindows(extra[i], Label(extra[i], i), call.now)
      BY <2>4
    <3> HIDE DEF additional
    <3>4. /\ Legal(additional[i])
          /\ Tells(additional[i], s.id)
               = IF Label(extra[i], i) = <<>> THEN LimitSays(extra[i], s) ELSE {}
      BY <1>0, <3>1, <3>3, LimitFacts
    <3> QED BY <3>2, <3>4
  <2> HIDE DEF main
  <2>7. Legal(main) /\ \A i \in 1 .. n : Legal(additional[i])
    BY <2>5, <2>6
  <2> DEFINE V == {additional[i] : i \in 1 .. n}
  <2>8. additional \in [1 .. n -> V] /\ DOMAIN additional = 1 .. n
    BY <2>4
  <2> HIDE DEF V, additional
  <2>9. /\ Legal(FlattenSeq(additional))
        /\ \A id : Tells(FlattenSeq(additional), id) = TellsAny(additional, id)
    BY <2>4, <2>7, <2>8, AllWindows
  <2>10. /\ Legal(windows)
         /\ \A id : Tells(windows, id) = Tells(main, id) \cup TellsAny(additional, id)
    BY <2>2, <2>7, <2>9, MoreWindows
  <2> HIDE DEF windows
  <2>11. ASSUME NEW s \in {Span5h, Span7d}
         PROVE  Tells(windows, s.id) = Says(CodexReported(call), s.id)
                /\ Says(CodexReported(call), s.id) \subseteq 0 .. 100
    <3>1. TellsAny(additional, s.id) = {}
      BY <2>6, <2>8 DEF TellsAny
    <3>2. Says(CodexReported(call), s.id) = LimitSays(first.limit, s)
      BY <1>2, CodexReportFacts DEF answer, first
    <3>3. Tells(windows, s.id) = LimitSays(first.limit, s)
      BY <2>5, <2>10, <3>1
    <3>4. LimitSays(first.limit, s) \subseteq 0 .. 100
      <4> DEFINE l == first.limit
      <4>1. l.primary.used \in Int /\ l.secondary.used \in Int
        BY <2>3 DEF CodexSpan
      <4> HIDE DEF l
      <4> QED BY <4>1 DEF l, LimitSays, SpanSays, Percentage
    <3> QED BY <3>2, <3>3, <3>4
  <2>12. \A id \in {FiveHours, SevenDays} :
            /\ Tells(windows, id) = Says(CodexReported(call), id)
            /\ Says(CodexReported(call), id) \subseteq 0 .. 100
    <3>1. Span5h.id = FiveHours /\ Span7d.id = SevenDays
      BY DEF Span5h, Span7d
    <3> QED BY <2>11, <3>1
  <2> QED BY <2>10, <2>12, SameIsTrue DEF windows
<1> QED BY <1>1, <1>2

-----------------------------------------------------------------------------
(* Claude, Kimi, Grok and the response headers.                              *)

LEMMA OtherIds ==
    /\ FiveHours # SevenDays /\ OneMonth \notin {FiveHours, SevenDays}
    /\ \A name : Named(name) \notin {FiveHours, SevenDays}
BY DEF FiveHours, SevenDays, OneMonth, Named

LEMMA ClaudeIdFacts ==
    /\ ClaudeId("five_hour") = FiveHours /\ ClaudeId("seven_day") = SevenDays
    /\ \A key : key \notin {"five_hour", "seven_day"} => ClaudeId(key) = Named(key)
<1>1. ClaudeId("five_hour") = FiveHours /\ ClaudeId("seven_day") = SevenDays
  BY DEF ClaudeId
<1>2. ASSUME NEW key, key \notin {"five_hour", "seven_day"} PROVE ClaudeId(key) = Named(key)
  BY <1>2, Zenon DEF ClaudeId
<1> QED BY <1>1, <1>2

LEMMA FableFacts ==
    ASSUME NEW L, \A x \in L : x.percent \in Int, NEW answer, answer.limits \in Seq(L)
    PROVE  /\ FableLimits(answer) \in Seq(L)
           /\ \A id \in {FiveHours, SevenDays} : \A reset :
                 LET windows == [i \in DOMAIN FableLimits(answer) |->
                                    Used(Named("fable"), FableLimits(answer)[i].percent, reset)]
                 IN  Legal(windows) /\ Tells(windows, id) = {}
<1> DEFINE limits == answer.limits
           I == {i \in DOMAIN limits :
                     /\ limits[i].kind = "weekly_scoped" /\ limits[i].model \in {"fable", "fable 5"}
                     /\ Percentage(limits[i].percent)}
           fable == Only(limits, I)
           active == Only(fable, {i \in DOMAIN fable : fable[i].active})
           chosen == FableLimits(answer)
<1>1. fable \in Seq(L)
  BY OnlyMembers
<1> HIDE DEF I, limits
<1>2. active \in Seq(L)
  BY <1>1, OnlyMembers
<1>3. chosen = IF active # <<>> THEN <<active[1]>> ELSE IF fable # <<>> THEN <<fable[1]>> ELSE <<>>
  BY Zenon DEF FableLimits, limits, I
<1> HIDE DEF active, fable, chosen
<1>4. chosen \in Seq(L)
  BY <1>1, <1>2, <1>3
<1>5. ASSUME NEW id \in {FiveHours, SevenDays}, NEW reset
      PROVE  LET windows == [i \in DOMAIN chosen |-> Used(Named("fable"), chosen[i].percent, reset)]
             IN  Legal(windows) /\ Tells(windows, id) = {}
  <2> DEFINE n == Len(chosen)
             windows == [i \in 1 .. n |-> Used(Named("fable"), chosen[i].percent, reset)]
             S == {windows[i] : i \in 1 .. n}
  <2>1. n \in Nat /\ DOMAIN chosen = 1 .. n /\ \A i \in 1 .. n : chosen[i].percent \in Int
    BY <1>4
  <2> HIDE DEF n
  <2>2. \A i \in 1 .. n : windows[i].left \in Nat /\ windows[i].id = Named("fable")
    <3> TAKE i \in 1 .. n
    <3>1. windows[i] = Used(Named("fable"), chosen[i].percent, reset)
      OBVIOUS
    <3> HIDE DEF windows
    <3> QED BY <2>1, <3>1, UsedIsTyped
  <2>3. windows \in [1 .. n -> S] /\ \A x \in S : x.left \in Nat
    BY <2>2
  <2> HIDE DEF windows, S
  <2>4. /\ Legal(windows)
        /\ \A k, m : m \in Tells(windows, k)
              <=> \E i \in 1 .. n : windows[i].id = k /\ windows[i].left = m /\ m # Missing
    BY <2>1, <2>3, EachWindow
  <2>5. Tells(windows, id) = {}
    BY <2>2, <2>4, OtherIds
  <2> QED BY <2>1, <2>4, <2>5 DEF windows
<1> QED BY <1>4, <1>5 DEF chosen

LEMMA FetchClaudeTrue ==
    ASSUME NEW answers \in AtMostOne(ClaudeAnswer)
    PROVE  TrueTo(FetchClaude(answers), ClaudeReported(answers), {FiveHours, SevenDays})
<1> DEFINE answer == answers[1]
           usage == answer.usage
           fable == FableLimits(answer)
           Told(key) == Percentage(usage[key]) /\ (key = "iguana_necktie" => fable = <<>>)
           keys == Only(ClaudeKeys, {i \in DOMAIN ClaudeKeys : Told(ClaudeKeys[i])})
           u == [i \in DOMAIN keys |-> Used(ClaudeId(keys[i]), usage[keys[i]], answer.reset)]
           v == [i \in DOMAIN fable |-> Used(Named("fable"), fable[i].percent, answer.reset)]
           w == IF answer.extra.enabled /\ Percentage(answer.extra.used)
                THEN <<Used(Named("extra"), answer.extra.used, 0)>> ELSE <<>>
           windows == FetchClaude(answers)
<1>1. CASE answers = <<>>
  <2>1. windows = <<>> /\ ClaudeReported(answers) = {}
    BY <1>1 DEF FetchClaude, ClaudeReported
  <2> QED BY <2>1, NothingIsTrue
<1>2. CASE answers # <<>>
  <2> DEFINE L == [kind : STRING, model : STRING, percent : Int, active : BOOLEAN]
  <2>1. answer \in ClaudeAnswer
    BY <1>2 DEF AtMostOne
  <2>2. windows = (u \o v) \o w
    BY <1>2, Zenon DEF FetchClaude
  <2> HIDE DEF answer, L
  <2>3. /\ usage \in [Range(ClaudeKeys) -> Int] /\ answer.limits \in Seq(L)
        /\ answer.extra.used \in Int
    BY <2>1 DEF ClaudeAnswer, L
  <2>4. \A id \in {FiveHours, SevenDays} : Legal(v) /\ Tells(v, id) = {}
    <3>1. \A x \in L : x.percent \in Int
      BY DEF L
    <3> SUFFICES ASSUME NEW id \in {FiveHours, SevenDays}
                 PROVE  Legal(v) /\ Tells(v, id) = {}
      OBVIOUS
    <3>2. \A reset :
             LET told == [i \in DOMAIN FableLimits(answer) |->
                             Used(Named("fable"), FableLimits(answer)[i].percent, reset)]
             IN  Legal(told) /\ Tells(told, id) = {}
      BY <2>3, <3>1, FableFacts
    <3> QED BY <3>2
  <2>5. \A id \in {FiveHours, SevenDays} : Legal(w) /\ Tells(w, id) = {}
    <3>1. CASE answer.extra.enabled /\ Percentage(answer.extra.used)
      <4> DEFINE x == Used(Named("extra"), answer.extra.used, 0)
      <4>1. x.left \in Nat /\ x.id = Named("extra")
        BY <2>3, UsedIsTyped
      <4>2. w = <<x>>
        BY <3>1
      <4> HIDE DEF x, w
      <4> QED BY <4>1, <4>2, OneWindow, OtherIds
    <3>2. CASE ~(answer.extra.enabled /\ Percentage(answer.extra.used))
      <4>1. w = <<>>
        BY <3>2
      <4> QED BY <4>1, NoWindows
    <3> QED BY <3>1, <3>2
  <2> HIDE DEF v, w
  <2> DEFINE n == Len(keys)
             S == {u[i] : i \in 1 .. n}
  <2>6. /\ keys \in Seq(Range(ClaudeKeys))
        /\ Range(keys) = {k \in Range(ClaudeKeys) : Told(k)}
    <3>1. ClaudeKeys \in Seq(Range(ClaudeKeys))
      BY DEF ClaudeKeys, Range
    <3>2. /\ keys \in Seq(Range(ClaudeKeys))
          /\ Range(keys) = {ClaudeKeys[i] : i \in {j \in DOMAIN ClaudeKeys : Told(ClaudeKeys[j])} \cap DOMAIN ClaudeKeys}
      BY <3>1, OnlyMembers
    <3> QED BY <3>2 DEF Range
  <2> HIDE DEF keys, fable
  <2>7. n \in Nat /\ DOMAIN keys = 1 .. n /\ \A i \in 1 .. n : keys[i] \in Range(ClaudeKeys) /\ Told(keys[i])
    BY <2>6 DEF Range
  <2> HIDE DEF n
  <2>8. \A i \in 1 .. n : /\ u[i].id = ClaudeId(keys[i]) /\ u[i].left = 100 - usage[keys[i]]
                          /\ u[i].left \in Nat /\ u[i].left # Missing
    <3> TAKE i \in 1 .. n
    <3>1. usage[keys[i]] \in 0 .. 100
      <4>1. usage[keys[i]] \in Int /\ Percentage(usage[keys[i]])
        BY <2>3, <2>7
      <4> QED BY <4>1, PercentageFacts
    <3>2. u[i] = Used(ClaudeId(keys[i]), usage[keys[i]], answer.reset)
      BY <2>7
    <3> DEFINE id == ClaudeId(keys[i])
               x == usage[keys[i]]
               r == answer.reset
    <3>3. x \in 0 .. 100 /\ u[i] = Used(id, x, r)
      BY <3>1, <3>2
    <3> HIDE DEF u, id, x, r
    <3>4. u[i].id = id /\ u[i].left = 100 - x /\ u[i].left \in Nat /\ u[i].left # Missing
      BY <3>3, UsedFacts
    <3> QED BY <3>4 DEF id, x
  <2>9. u \in [1 .. n -> S] /\ \A x \in S : x.left \in Nat
    BY <2>7, <2>8
  <2> HIDE DEF u, S
  <2>10. /\ Legal(u)
         /\ \A id, m : m \in Tells(u, id)
              <=> \E i \in 1 .. n : u[i].id = id /\ u[i].left = m /\ m # Missing
    BY <2>7, <2>9, EachWindow
  <2> DEFINE Says1(key) == {100 - x : x \in {usage[key]} \cap 0 .. 100}
  <2>11. ASSUME NEW key \in {"five_hour", "seven_day"} PROVE Tells(u, ClaudeId(key)) = Says1(key)
    <3>1. \A k \in Range(ClaudeKeys) : ClaudeId(k) = ClaudeId(key) <=> k = key
      BY ClaudeIdFacts, OtherIds
    <3>2. key \in Range(ClaudeKeys) /\ key # "iguana_necktie"
      BY DEF ClaudeKeys, Range
    <3>3. \A i \in 1 .. n : u[i].id = ClaudeId(key) <=> keys[i] = key
      BY <2>7, <2>8, <3>1
    <3>4. Percentage(usage[key]) <=> usage[key] \in 0 .. 100
      <4>1. usage[key] \in Int
        BY <2>3, <3>2
      <4> QED BY <4>1, PercentageFacts
    <3>5. (\E i \in 1 .. n : keys[i] = key) <=> Percentage(usage[key])
      BY <2>6, <2>7, <3>2 DEF Range
    <3>6. \A m : m \in Tells(u, ClaudeId(key)) <=> Percentage(usage[key]) /\ m = 100 - usage[key]
      BY <2>8, <2>10, <3>3, <3>5
    <3> QED BY <3>4, <3>6
  <2>12. /\ Legal(windows)
         /\ \A id \in {FiveHours, SevenDays} : Tells(windows, id) = Tells(u, id)
    <3>1. Legal(u \o v) /\ \A id : Tells(u \o v, id) = Tells(u, id) \cup Tells(v, id)
      BY <2>4, <2>10, MoreWindows
    <3>2. Legal(windows) /\ \A id : Tells(windows, id) = Tells(u \o v, id) \cup Tells(w, id)
      BY <2>2, <2>5, <3>1, MoreWindows
    <3> QED BY <2>4, <2>5, <3>1, <3>2
  <2>13. ClaudeReported(answers) = ReportOf(Says1("five_hour"), Says1("seven_day"))
    BY <1>2, Zenon DEF ClaudeReported, ReportOf, answer
  <2>14. /\ Says(ClaudeReported(answers), FiveHours) = Says1("five_hour")
         /\ Says(ClaudeReported(answers), SevenDays) = Says1("seven_day")
    <3> HIDE DEF Says1
    <3> QED BY <2>13, SaysOfTwo
  <2>15. \A key : Says1(key) \subseteq 0 .. 100
    OBVIOUS
  <2>16. ASSUME NEW id \in {FiveHours, SevenDays}
         PROVE  /\ Tells(windows, id) = Says(ClaudeReported(answers), id)
                /\ Says(ClaudeReported(answers), id) \subseteq 0 .. 100
    <3> HIDE DEF Says1, windows
    <3> QED BY <2>11, <2>12, <2>14, <2>15, ClaudeIdFacts
  <2> QED BY <2>12, <2>16, SameIsTrue
<1> QED BY <1>1, <1>2

\* What a field set says is left: nothing, or one percentage.
KimiSays(fields) ==
    IF IsNumber(fields.limit) /\ fields.limit > 0 /\ IsNumber(fields.remaining)
    THEN {Percent((100 * fields.remaining) \div fields.limit)} ELSE {}

LEMMA KimiWindowFacts ==
    ASSUME NEW id, NEW fields,
           fields.limit \in Int, fields.remaining \in Int, fields.used \in Int
    PROVE  /\ Legal(KimiWindow(id, fields))
           /\ \A k : Tells(KimiWindow(id, fields), k) = IF k = id THEN KimiSays(fields) ELSE {}
           /\ KimiSays(fields) \subseteq 0 .. 100
<1> DEFINE Share(v) == IF IsNumber(v) THEN Percent((100 * v) \div fields.limit) ELSE Missing
           none == ~IsNumber(fields.limit) \/ fields.limit <= 0
                   \/ ~(IsNumber(fields.remaining) \/ IsNumber(fields.used))
           w == Window(id, Share(fields.remaining), Share(fields.used), fields.reset)
<1>1. KimiWindow(id, fields) = IF none THEN <<>> ELSE <<w>>
  BY Zenon DEF KimiWindow
<1>2. fields.limit > 0 => Percent((100 * fields.remaining) \div fields.limit) \in 0 .. 100
  <2> SUFFICES ASSUME fields.limit > 0 PROVE Percent((100 * fields.remaining) \div fields.limit) \in 0 .. 100
    OBVIOUS
  <2>1. (100 * fields.remaining) \div fields.limit \in Int
    OBVIOUS
  <2> QED BY <2>1, PercentFacts
<1>3. KimiSays(fields) \subseteq 0 .. 100
  BY <1>2 DEF KimiSays
<1>4. CASE none
  <2>1. KimiSays(fields) = {}
    BY <1>4 DEF KimiSays
  <2> QED BY <1>1, <1>3, <1>4, <2>1, NoWindows
<1>5. CASE ~none
  <2>1. w.id = id /\ w.left = Share(fields.remaining)
    BY DEF Window
  <2>2. w.left \in Nat /\ (w.left # Missing <=> IsNumber(fields.remaining))
    BY <1>2, <1>5, <2>1 DEF Missing
  <2>3. KimiSays(fields) = IF w.left # Missing THEN {w.left} ELSE {}
    <3>1. KimiSays(fields) = IF IsNumber(fields.remaining)
                             THEN {Percent((100 * fields.remaining) \div fields.limit)} ELSE {}
      BY <1>5 DEF KimiSays
    <3> QED BY <2>1, <2>2, <3>1
  <2> HIDE DEF w, none
  <2>4. Legal(<<w>>) /\ \A k : Tells(<<w>>, k) = IF w.id = k /\ w.left # Missing THEN {w.left} ELSE {}
    BY <2>2, OneWindow
  <2>5. ASSUME NEW k PROVE Tells(<<w>>, k) = IF k = id THEN KimiSays(fields) ELSE {}
    BY <2>1, <2>3, <2>4
  <2> QED BY <1>1, <1>3, <1>5, <2>4, <2>5
<1> QED BY <1>4, <1>5

LEMMA FetchKimiTrue ==
    ASSUME NEW answers \in AtMostOne(KimiAnswer)
    PROVE  TrueTo(FetchKimi(answers), KimiReported(answers), {FiveHours, SevenDays})
<1> DEFINE usage == answers[1].usage
           limits == answers[1].limits
           I == {i \in DOMAIN limits : limits[i].duration = 300 /\ limits[i].unit = "minute"}
           hours == {limits[i] : i \in I}
           told == Only(limits, I)
           parts == [i \in DOMAIN told |-> KimiWindow(FiveHours, told[i])]
           weekly == KimiWindow(SevenDays, usage)
           windows == FetchKimi(answers)
           Told(fields) == {Percent((100 * f.remaining) \div f.limit) :
                               f \in {g \in fields : /\ IsNumber(g.limit) /\ g.limit > 0
                                                     /\ IsNumber(g.remaining)}}
<1>1. CASE answers = <<>>
  <2>1. windows = <<>> /\ KimiReported(answers) = {}
    BY <1>1 DEF FetchKimi, KimiReported
  <2> QED BY <2>1, NothingIsTrue
<1>2. CASE answers # <<>>
  <2>1. usage \in KimiUsage /\ limits \in Seq(KimiLimit)
    <3>1. answers[1] \in KimiAnswer
      BY <1>2 DEF AtMostOne
    <3> QED BY <3>1 DEF KimiAnswer
  <2>2. windows = weekly \o FlattenSeq(parts)
    BY <1>2, Zenon DEF FetchKimi
  <2>3. KimiReported(answers) = ReportOf(Told(hours), Told({usage}))
    BY <1>2, Zenon DEF KimiReported, ReportOf
  <2>4. \A fields : Told(fields) = UNION {KimiSays(f) : f \in fields}
    BY DEF KimiSays
  <2> HIDE DEF Told
  <2>5. Says(KimiReported(answers), FiveHours) = Told(hours)
    BY <2>3, SaysOfTwo
  <2>6. Says(KimiReported(answers), SevenDays) = Told({usage})
    BY <2>3, SaysOfTwo
  <2>7. /\ Legal(weekly) /\ KimiSays(usage) \subseteq 0 .. 100
        /\ \A k : Tells(weekly, k) = IF k = SevenDays THEN KimiSays(usage) ELSE {}
    <3>1. usage.limit \in Int /\ usage.remaining \in Int /\ usage.used \in Int
      BY <2>1 DEF KimiUsage
    <3> QED BY <3>1, KimiWindowFacts
  <2> HIDE DEF usage, limits
  <2>8. told \in Seq(KimiLimit) /\ Range(told) = hours
    <3>1. Range(told) = {limits[i] : i \in I \cap DOMAIN limits}
      BY <2>1, OnlyMembers
    <3> QED BY <2>1, <3>1, OnlyMembers
  <2> HIDE DEF hours, told, weekly, windows
  <2> DEFINE n == Len(told)
             S == {parts[i] : i \in 1 .. n}
  <2>9. n \in Nat /\ DOMAIN told = 1 .. n /\ \A i \in 1 .. n : told[i] \in KimiLimit
    BY <2>8
  <2> HIDE DEF n
  <2>10. \A i \in 1 .. n :
            /\ Legal(parts[i]) /\ KimiSays(told[i]) \subseteq 0 .. 100
            /\ \A k : Tells(parts[i], k) = IF k = FiveHours THEN KimiSays(told[i]) ELSE {}
    <3> TAKE i \in 1 .. n
    <3>1. told[i].limit \in Int /\ told[i].remaining \in Int /\ told[i].used \in Int
      BY <2>9 DEF KimiLimit
    <3>2. parts[i] = KimiWindow(FiveHours, told[i])
      BY <2>9
    <3> DEFINE f == told[i]
    <3> HIDE DEF parts, f
    <3>3. /\ Legal(KimiWindow(FiveHours, f)) /\ KimiSays(f) \subseteq 0 .. 100
          /\ \A k : Tells(KimiWindow(FiveHours, f), k) = IF k = FiveHours THEN KimiSays(f) ELSE {}
      BY <3>1, KimiWindowFacts DEF f
    <3> QED BY <3>2, <3>3 DEF f
  <2>11. parts \in [1 .. n -> S] /\ DOMAIN parts = 1 .. n
    BY <2>9
  <2> HIDE DEF parts, S
  <2>12. /\ Legal(FlattenSeq(parts))
         /\ \A id : Tells(FlattenSeq(parts), id) = TellsAny(parts, id)
    BY <2>9, <2>10, <2>11, AllWindows
  <2>13. /\ Legal(windows)
         /\ \A id : Tells(windows, id) = Tells(weekly, id) \cup TellsAny(parts, id)
    BY <2>2, <2>7, <2>12, MoreWindows
  <2>14. /\ TellsAny(parts, FiveHours) = UNION {KimiSays(f) : f \in hours}
         /\ TellsAny(parts, SevenDays) = {}
    <3>1. hours = {told[i] : i \in 1 .. n}
      BY <2>8, <2>9 DEF Range
    <3> QED BY <3>1, <2>10, <2>11, OtherIds DEF TellsAny
  <2>15. /\ Tells(windows, FiveHours) = Says(KimiReported(answers), FiveHours)
         /\ Tells(windows, SevenDays) = Says(KimiReported(answers), SevenDays)
    <3>1. Told({usage}) = KimiSays(usage) /\ Told(hours) = UNION {KimiSays(f) : f \in hours}
      BY <2>4
    <3> QED BY <3>1, <2>5, <2>6, <2>7, <2>13, <2>14, OtherIds
  <2>16. /\ Tells(windows, FiveHours) \subseteq 0 .. 100
         /\ Tells(windows, SevenDays) \subseteq 0 .. 100
    <3>1. \A f \in hours : KimiSays(f) \subseteq 0 .. 100
      BY <2>8, <2>9, <2>10 DEF Range
    <3> QED BY <3>1, <2>7, <2>13, <2>14, OtherIds
  <2>17. \A id \in {FiveHours, SevenDays} :
            /\ Tells(windows, id) = Says(KimiReported(answers), id)
            /\ Says(KimiReported(answers), id) \subseteq 0 .. 100
    BY <2>15, <2>16
  <2> QED BY <2>13, <2>17, SameIsTrue DEF windows
<1> QED BY <1>1, <1>2

\* A Grok account reports nothing, or what its only window tells.
LEMMA XAIWindowFacts ==
    ASSUME NEW answers \in AtMostOne(XAIAnswer), Undrifted(answers)
    PROVE  \/ FetchXAI(answers) = <<>> /\ XAIReported(answers) = {}
           \/ \E w : /\ FetchXAI(answers) = <<w>> /\ XAIReported(answers) = {<<w.id, w.left>>}
                     /\ w.left \in 0 .. 100
<1> DEFINE a == answers[1]
           id == XAIId(a.period)
           share == Percent((100 * a.spent) \div a.limit)
           dated == a.periodEnd # 0 \/ a.periodStart # 0 \/ a.billingEnd # 0
           reset == IF a.periodEnd # 0 THEN a.periodEnd ELSE a.billingEnd
           w(used) == Used(id, used, reset)
<1>1. CASE answers = <<>>
  BY <1>1, Zenon DEF FetchXAI, XAIReported
<1>2. CASE answers # <<>>
  <2>1. a \in XAIAnswer
    BY <1>2 DEF AtMostOne
  <2>2. a.used \in Int /\ a.limit \in Int /\ a.spent \in Int
    BY <2>1 DEF XAIAnswer
  <2>3. a.used = Missing \/ Percentage(a.used) \/ Amounted(a)
    BY <1>2 DEF Undrifted
  <2>4. dated <=> {a.periodStart, a.periodEnd, a.billingEnd} # {0}
    OBVIOUS
  <2>5. \A used \in 0 .. 100 : w(used).id = id /\ w(used).left = 100 - used /\ 100 - used \in 0 .. 100
    <3> TAKE used \in 0 .. 100
    <3> HIDE DEF id, reset
    <3> QED BY UsedFacts
  <2>6. CASE Percentage(a.used)
    <3>1. FetchXAI(answers) = <<w(a.used)>> /\ XAIReported(answers) = {id} \X {100 - a.used}
      BY <1>2, <2>6, Zenon DEF FetchXAI, XAIReported
    <3>2. a.used \in 0 .. 100
      BY <2>2, <2>6, PercentageFacts
    <3> DEFINE x == w(a.used)
    <3>3. x.id = id /\ x.left = 100 - a.used /\ 100 - a.used \in 0 .. 100
      BY <2>5, <3>2
    <3> HIDE DEF a, id, w
    <3>4. FetchXAI(answers) = <<x>> /\ XAIReported(answers) = {<<x.id, x.left>>}
      BY <3>1, <3>3
    <3> QED BY <3>3, <3>4
  <2>7. CASE ~Percentage(a.used) /\ Amounted(a)
    <3>1. FetchXAI(answers) = <<w(share)>>
      BY <1>2, <2>7, Zenon DEF FetchXAI, Amounted
    <3>2. XAIReported(answers) = {id} \X {100 - share}
      BY <1>2, <2>7, Zenon DEF XAIReported
    <3>3. share \in 0 .. 100
      <4>1. (100 * a.spent) \div a.limit \in Int
        BY <2>2, <2>7 DEF Amounted
      <4> QED BY <4>1, PercentFacts
    <3> HIDE DEF share
    <3> DEFINE x == w(share)
    <3>4. x.id = id /\ x.left = 100 - share /\ 100 - share \in 0 .. 100
      BY <2>5, <3>3
    <3> HIDE DEF a, id, w
    <3>5. FetchXAI(answers) = <<x>> /\ XAIReported(answers) = {<<x.id, x.left>>}
      BY <3>1, <3>2, <3>4
    <3> QED BY <3>4, <3>5
  <2>8. CASE ~Percentage(a.used) /\ ~Amounted(a) /\ dated
    <3>1. FetchXAI(answers) = <<w(0)>>
      BY <1>2, <2>8, Zenon DEF FetchXAI, Amounted
    <3>2. XAIReported(answers) = {id} \X {100}
      BY <1>2, <2>3, <2>4, <2>8, Zenon DEF XAIReported
    <3>3. 0 \in 0 .. 100
      OBVIOUS
    <3> DEFINE x == w(0)
    <3>4. x.id = id /\ x.left = 100
      <4>1. \A used \in 0 .. 100 : w(used).id = id /\ w(used).left = 100 - used
        BY <2>5, Zenon
      <4> HIDE DEF w, id
      <4> QED BY <4>1, <3>3
    <3> HIDE DEF a, id, w
    <3>5. FetchXAI(answers) = <<x>> /\ XAIReported(answers) = {<<x.id, x.left>>}
      BY <3>1, <3>2, <3>4
    <3> QED BY <3>4, <3>5
  <2>9. CASE ~Percentage(a.used) /\ ~Amounted(a) /\ ~dated
    <3>1. FetchXAI(answers) = <<>>
      BY <1>2, <2>9, Zenon DEF FetchXAI, Amounted
    <3>2. XAIReported(answers) = {id} \X {}
      BY <1>2, <2>4, <2>9, Zenon DEF XAIReported
    <3> QED BY <3>1, <3>2
  <2> QED BY <2>6, <2>7, <2>8, <2>9
<1> QED BY <1>1, <1>2

LEMMA FetchXAITrue ==
    ASSUME NEW answers \in AtMostOne(XAIAnswer), Undrifted(answers), NEW ids
    PROVE  /\ TrueTo(FetchXAI(answers), XAIReported(answers), ids)
           /\ {x.id : x \in Range(FetchXAI(answers))} = {r[1] : r \in XAIReported(answers)}
<1>1. CASE FetchXAI(answers) = <<>> /\ XAIReported(answers) = {}
  <2>1. Range(<<>>) = {}
    BY DEF Range
  <2> QED BY <1>1, <2>1, NothingIsTrue
<1>2. ASSUME NEW w, w.left \in 0 .. 100, FetchXAI(answers) = <<w>>,
             XAIReported(answers) = {<<w.id, w.left>>}
      PROVE  /\ TrueTo(FetchXAI(answers), XAIReported(answers), ids)
             /\ {x.id : x \in Range(FetchXAI(answers))} = {r[1] : r \in XAIReported(answers)}
  <2> DEFINE report == {<<w.id, w.left>>}
  <2>1. Range(<<w>>) = {w}
    BY DEF Range
  <2>2. w.left \in Nat /\ w.left # Missing
    BY <1>2 DEF Missing
  <2>3. /\ Legal(<<w>>)
        /\ \A id : Tells(<<w>>, id) = IF w.id = id THEN {w.left} ELSE {}
    BY <2>2, OneWindow
  <2>4. ASSUME NEW id PROVE Says(report, id) = IF w.id = id THEN {w.left} ELSE {}
    <3>1. {q \in report : q[1] = id} = IF w.id = id THEN report ELSE {}
      OBVIOUS
    <3>2. {r[2] : r \in report} = {w.left} /\ {r[2] : r \in {}} = {}
      OBVIOUS
    <3> HIDE DEF report
    <3>3. CASE w.id = id
      BY <3>1, <3>2, <3>3, Zenon DEF Says
    <3>4. CASE w.id # id
      BY <3>1, <3>2, <3>4, Zenon DEF Says
    <3> QED BY <3>3, <3>4
  <2>5. {r[1] : r \in report} = {w.id}
    OBVIOUS
  <2> HIDE DEF report
  <2>6. TrueTo(<<w>>, report, ids)
    <3>1. \A id \in ids : Tells(<<w>>, id) = Says(report, id) /\ Says(report, id) \subseteq 0 .. 100
      BY <1>2, <2>3, <2>4
    <3> QED BY <2>3, <3>1, SameIsTrue
  <2>7. {x.id : x \in Range(<<w>>)} = {w.id}
    BY <2>1
  <2> QED BY <1>2, <2>5, <2>6, <2>7 DEF report
<1> QED BY <1>1, <1>2, XAIWindowFacts

LEMMA PassiveWindowFacts ==
    ASSUME NEW id, NEW signal \in Signal
    PROVE  /\ Legal(PassiveWindow(id, signal))
           /\ \A k : Tells(PassiveWindow(id, signal), k)
                       = IF k = id THEN {100 - v : v \in {signal.used} \cap 0 .. 100} ELSE {}
<1> DEFINE w == Used(id, signal.used, signal.reset)
           told == {100 - v : v \in {signal.used} \cap 0 .. 100}
<1>0. Percentage(signal.used) <=> signal.used \in 0 .. 100
  BY PercentageFacts DEF Signal
<1>1. CASE Percentage(signal.used)
  <2>1. PassiveWindow(id, signal) = <<w>>
    BY <1>1, Zenon DEF PassiveWindow
  <2>2. w.id = id /\ w.left = 100 - signal.used /\ w.left \in Nat /\ w.left # Missing
    <3> DEFINE u == signal.used
               r == signal.reset
    <3>1. w = Used(id, u, r) /\ u \in 0 .. 100
      BY <1>0, <1>1
    <3> HIDE DEF w, u, r
    <3>2. w.id = id /\ w.left = 100 - u /\ w.left \in Nat /\ w.left # Missing
      BY <3>1, UsedFacts
    <3> QED BY <3>2 DEF u
  <2>3. told = {w.left}
    BY <1>0, <1>1, <2>2
  <2> HIDE DEF w, told
  <2> QED BY <2>1, <2>2, <2>3, OneWindow DEF told
<1>2. CASE ~Percentage(signal.used)
  <2>1. PassiveWindow(id, signal) = <<>>
    BY <1>2, Zenon DEF PassiveWindow
  <2>2. told = {}
    BY <1>0, <1>2
  <2> HIDE DEF told
  <2> QED BY <2>1, <2>2, NoWindows DEF told
<1> QED BY <1>1, <1>2

LEMMA PassiveTrue ==
    ASSUME NEW signals \in Headers
    PROVE  TrueTo(PassiveWindows(signals), PassiveReported(signals), {FiveHours, SevenDays})
<1> DEFINE Told(signal) == {100 - v : v \in {signal.used} \cap 0 .. 100}
           first == PassiveWindow(FiveHours, signals.primary)
           second == PassiveWindow(SevenDays, signals.secondary)
           T == Told(signals.primary)
           U == Told(signals.secondary)
<1>0. signals.primary \in Signal /\ signals.secondary \in Signal
  BY DEF Headers
<1>1. Legal(first) /\ \A k : Tells(first, k) = IF k = FiveHours THEN T ELSE {}
  BY <1>0, PassiveWindowFacts
<1>2. Legal(second) /\ \A k : Tells(second, k) = IF k = SevenDays THEN U ELSE {}
  BY <1>0, PassiveWindowFacts
<1>3. T \subseteq 0 .. 100 /\ U \subseteq 0 .. 100
  OBVIOUS
<1>4. PassiveReported(signals) = ReportOf(T, U)
  BY Zenon DEF PassiveReported, ReportOf
<1>5. PassiveWindows(signals) = first \o second
  BY Zenon DEF PassiveWindows
<1> HIDE DEF first, second, T, U
<1>6. /\ Says(ReportOf(T, U), FiveHours) = T /\ Says(ReportOf(T, U), SevenDays) = U
  BY SaysOfTwo
<1>7. /\ Legal(first \o second)
      /\ \A k : Tells(first \o second, k) = Tells(first, k) \cup Tells(second, k)
  BY <1>1, <1>2, MoreWindows
<1>8. ASSUME NEW id \in {FiveHours, SevenDays}
      PROVE  /\ Tells(first \o second, id) = Says(ReportOf(T, U), id)
             /\ Says(ReportOf(T, U), id) \subseteq 0 .. 100
  <2> DEFINE both == first \o second
             report == ReportOf(T, U)
  <2>1. \A k : Tells(both, k) = Tells(first, k) \cup Tells(second, k)
    BY <1>7, Zenon
  <2>2. Says(report, FiveHours) = T /\ Says(report, SevenDays) = U
    BY <1>6, Zenon
  <2> HIDE DEF both, report
  <2>3. Tells(both, FiveHours) = T /\ Tells(both, SevenDays) = U
    BY <1>1, <1>2, <2>1, OtherIds
  <2>4. Tells(both, id) = Says(report, id) /\ Says(report, id) \subseteq 0 .. 100
    BY <1>3, <2>2, <2>3
  <2> QED BY <2>4 DEF both, report
<1>9. TrueTo(first \o second, ReportOf(T, U), {FiveHours, SevenDays})
  BY <1>7, <1>8, SameIsTrue
<1> QED BY <1>4, <1>5, <1>9

-----------------------------------------------------------------------------
(* Antigravity and OpenCode: groups of buckets.                              *)

LEMMA FlashGroupsFacts ==
    ASSUME NEW groups \in Seq(Group)
    PROVE  FlashGroups(groups) \in Seq(Group) /\ Range(FlashGroups(groups)) = FlashPool(groups)
<1> DEFINE I == {i \in Gemini(groups) : \A j \in Gemini(groups) :
                     GeminiFlashRank(groups[j]) <= GeminiFlashRank(groups[i])}
<1>1. \A g : /\ GeminiFlashRank(g) \in {0, 1, 2}
             /\ GeminiFlashRank(g) = 2 <=> g.family = "flash"
             /\ GeminiFlashRank(g) = 1 <=> g.family = "gemini"
  <2> TAKE g
  <2>1. CASE g.family = "flash"
    BY <2>1 DEF GeminiFlashRank
  <2>2. CASE g.family = "gemini"
    BY <2>2 DEF GeminiFlashRank
  <2>3. CASE g.family # "flash" /\ g.family # "gemini"
    <3>1. GeminiFlashRank(g) = 0
      BY <2>3, Zenon DEF GeminiFlashRank
    <3> QED BY <2>3, <3>1
  <2> QED BY <2>1, <2>2, <2>3
<1>2. Gemini(groups) = {i \in DOMAIN groups : groups[i].family \in {"flash", "gemini"}}
  BY <1>1 DEF Gemini
<1>3. \A i \in Gemini(groups) :
         i \in I <=> groups[i].family = "flash" \/ \A j \in Gemini(groups) : groups[j].family # "flash"
  BY <1>1, <1>2
<1> HIDE DEF I
<1>4. I \subseteq Gemini(groups)
  BY DEF I
<1>5. FlashGroups(groups) = Only(groups, I)
  BY Zenon DEF FlashGroups, I
<1>6. {groups[i] : i \in I \cap DOMAIN groups} = FlashPool(groups)
  <2>1. ASSUME NEW i \in I PROVE i \in DOMAIN groups /\ groups[i] \in FlashPool(groups)
    <3>1. i \in DOMAIN groups /\ groups[i].family \in {"flash", "gemini"}
      BY <1>2, <1>4, <2>1
    <3>2. ~(groups[i].family = "gemini" /\ \E h \in Range(groups) : h.family = "flash")
      BY <1>2, <1>3, <1>4, <2>1 DEF Range
    <3> QED BY <3>1, <3>2 DEF FlashPool, Range
  <2>2. ASSUME NEW g \in FlashPool(groups) PROVE \E i \in I : g = groups[i]
    <3>1. PICK i \in DOMAIN groups : g = groups[i] /\ g.family \in {"flash", "gemini"}
      BY <2>2 DEF FlashPool, Range
    <3>2. g.family = "flash" \/ \A j \in DOMAIN groups : groups[j].family # "flash"
      BY <2>2, <3>1 DEF FlashPool, Range
    <3>3. i \in I
      BY <1>2, <1>3, <3>1, <3>2
    <3> QED BY <3>1, <3>3
  <2> QED BY <2>1, <2>2
<1> QED BY <1>5, <1>6, OnlyMembers

Bucket == [id : Ids, left : Int, reset : Nat]

LEMMA UsableFacts ==
    ASSUME NEW group \in Group
    PROVE  /\ UsableBuckets(group) \in Seq(Bucket)
           /\ Range(UsableBuckets(group))
                = {b \in Range(group.buckets) : Percentage(b.left) /\ b.id # Named("")}
<1> DEFINE all == group.buckets
           I == {i \in DOMAIN all : Percentage(all[i].left) /\ all[i].id # Named("")}
<1>1. all \in Seq(Bucket)
  BY DEF Group, Bucket
<1> HIDE DEF all
<1>2. UsableBuckets(group) = Only(all, I)
  BY Zenon DEF UsableBuckets, all
<1>3. /\ Only(all, I) \in Seq(Bucket)
      /\ Range(Only(all, I)) = {all[i] : i \in I \cap DOMAIN all}
  BY <1>1, OnlyMembers
<1>4. {all[i] : i \in I \cap DOMAIN all}
        = {b \in Range(all) : Percentage(b.left) /\ b.id # Named("")}
  BY DEF Range
<1> QED BY <1>2, <1>3, <1>4 DEF all

\* What QuotaGroups tells is the least of each id, of those that are reported.
Pool(items, id) == Used(id, 100 - Least(items, id).left, Least(items, id).reset)

LEMMA PoolFacts ==
    ASSUME NEW items, NEW id, Least(items, id).left \in 0 .. 100
    PROVE  /\ Pool(items, id).id = id /\ Pool(items, id).left = Least(items, id).left
           /\ Pool(items, id).left \in Nat /\ Pool(items, id).left # Missing
<1> DEFINE l == Least(items, id).left
           r == Least(items, id).reset
<1>1. l \in 0 .. 100 /\ Pool(items, id) = Used(id, 100 - l, r)
  BY DEF Pool
<1> HIDE DEF l, r
<1>2. PICK u \in 0 .. 100 : u = 100 - l /\ 100 - u = l
  BY <1>1
<1>3. Used(id, u, r).id = id /\ Used(id, u, r).left = 100 - u /\ 100 - u \in Nat /\ 100 - u # Missing
  BY UsedFacts
<1> QED BY <1>1, <1>2, <1>3 DEF l

LEMMA QuotaGroupsTrue ==
    ASSUME NEW groups \in Seq(Group)
    PROVE  /\ \A ids : TrueTo(QuotaGroups(groups), GroupsReported(Range(groups)), ids)
           /\ QuotaGroups(groups) = <<>> <=> GroupsReported(Range(groups)) = {}
<1> DEFINE n == Len(groups)
           parts == [i \in DOMAIN groups |-> UsableBuckets(groups[i])]
           buckets == FlattenSeq(parts)
           ids == Arranged(<<FiveHours, SevenDays>>, buckets)
           Pooled(id) == Pool(buckets, id)
           windows == QuotaGroups(groups)
           reported == GroupsReported(Range(groups))
           usable == {c \in UNION {Range(g.buckets) : g \in Range(groups)} :
                         Percentage(c.left) /\ c.id # Named("")}
<1>1. n \in Nat /\ DOMAIN groups = 1 .. n /\ \A i \in 1 .. n : groups[i] \in Group
  OBVIOUS
<1>2. windows = [i \in DOMAIN ids |-> Pooled(ids[i])]
  BY Zenon DEF QuotaGroups, Pool
<1> HIDE DEF n
<1>3. /\ parts \in [1 .. n -> Seq(Bucket)]
      /\ \A i \in 1 .. n : Range(parts[i]) = {b \in Range(groups[i].buckets) : Percentage(b.left) /\ b.id # Named("")}
  BY <1>1, UsableFacts
<1> HIDE DEF parts
<1>4. buckets \in Seq(Bucket) /\ Range(buckets) = UNION {Range(parts[i]) : i \in 1 .. n}
  BY <1>1, <1>3, FlattenPlaces, FlattenRange
<1> HIDE DEF buckets
<1>5. Range(buckets) = usable
  <2>1. Range(groups) = {groups[i] : i \in 1 .. n}
    BY <1>1 DEF Range
  <2>2. ASSUME NEW b \in Range(buckets) PROVE b \in usable
    <3>1. PICK i \in 1 .. n : b \in Range(parts[i])
      BY <1>4, <2>2
    <3>2. groups[i] \in Range(groups) /\ b \in Range(groups[i].buckets) /\ Percentage(b.left) /\ b.id # Named("")
      BY <1>3, <2>1, <3>1
    <3> QED BY <3>2
  <2>3. ASSUME NEW b \in usable PROVE b \in Range(buckets)
    <3>1. PICK g \in Range(groups) : b \in Range(g.buckets)
      BY <2>3
    <3>2. PICK i \in 1 .. n : g = groups[i]
      BY <2>1
    <3>3. b \in Range(parts[i])
      BY <1>3, <2>3, <3>1, <3>2
    <3> QED BY <1>4, <3>3
  <2> QED BY <2>2, <2>3
<1>6. \A b \in Range(buckets) : b.left \in 0 .. 100 /\ b.left \in Nat /\ b.left # Missing
  <2> TAKE b \in Range(buckets)
  <2>1. b \in Bucket
    BY <1>4 DEF Range
  <2>2. b.left \in Int /\ Percentage(b.left)
    BY <1>5, <2>1 DEF Bucket
  <2> DEFINE left == b.left
  <2>3. left \in 0 .. 100
    BY <2>2, PercentageFacts
  <2> HIDE DEF left
  <2>4. left \in 0 .. 100 /\ left \in Nat /\ left # Missing
    BY <2>3 DEF Missing
  <2> QED BY <2>4 DEF left
<1>7. \A id : Says(reported, id) = Tells(buckets, id)
  <2> TAKE id
  <2>1. Tells(buckets, id) = {b.left : b \in {c \in usable : c.id = id}}
    BY <1>5, <1>6 DEF Tells
  <2>2. reported = {<<b.id, b.left>> : b \in usable}
    BY Zenon DEF GroupsReported
  <2> HIDE DEF usable, reported
  <2>3. ASSUME NEW b \in usable, b.id = id PROVE b.left \in Says(reported, id)
    <3> DEFINE q == <<b.id, b.left>>
    <3>1. q \in reported /\ q[1] = id /\ q[2] = b.left
      BY <2>2, <2>3
    <3> HIDE DEF q
    <3> QED BY <3>1 DEF Says
  <2>4. ASSUME NEW m \in Says(reported, id) PROVE \E b \in usable : b.id = id /\ b.left = m
    <3>1. PICK q \in reported : q[1] = id /\ q[2] = m
      BY <2>4 DEF Says
    <3>2. PICK b \in usable : q = <<b.id, b.left>>
      BY <2>2, <3>1
    <3> QED BY <3>1, <3>2
  <2> QED BY <2>1, <2>3, <2>4
<1>8. ids \in Seq(IdsOf(buckets)) /\ Range(ids) = IdsOf(buckets)
  <2>1. <<FiveHours, SevenDays>> \in Seq({FiveHours, SevenDays})
    OBVIOUS
  <2> QED BY <1>4, <2>1, ArrangedFacts
<1> HIDE DEF ids, windows, usable, reported
<1> DEFINE k == Len(ids)
<1>9. k \in Nat /\ DOMAIN ids = 1 .. k /\ IdsOf(buckets) = {ids[i] : i \in 1 .. k}
  BY <1>8 DEF Range
<1>10. IdsOf(buckets) = {b.id : b \in Range(buckets)}
  BY DEF IdsOf, Range
<1> HIDE DEF k
<1>11. ASSUME NEW id
       PROVE  /\ {Least(buckets, id).left} \ {Missing} = Minimum(Tells(buckets, id))
              /\ Tells(buckets, id) # {} => Least(buckets, id).left \in Tells(buckets, id)
  BY <1>4, <1>6, LeastFacts
<1>12. \A id : Tells(buckets, id) \subseteq 0 .. 100 /\ (Tells(buckets, id) # {} <=> id \in IdsOf(buckets))
  BY <1>6, <1>10 DEF Tells
<1>13. ASSUME NEW id \in IdsOf(buckets)
       PROVE  /\ Pooled(id).id = id /\ Pooled(id).left = Least(buckets, id).left
              /\ Pooled(id).left \in Nat /\ Pooled(id).left # Missing
  <2>1. Least(buckets, id).left \in 0 .. 100
    BY <1>11, <1>12
  <2> QED BY <2>1, PoolFacts
<1>14. /\ windows = [i \in 1 .. k |-> Pooled(ids[i])]
       /\ \A i \in 1 .. k : windows[i] = Pooled(ids[i]) /\ ids[i] \in IdsOf(buckets)
  BY <1>2, <1>9
<1> HIDE DEF Pooled
<1> DEFINE S == {windows[i] : i \in 1 .. k}
<1>15. windows \in [1 .. k -> S] /\ \A x \in S : x.left \in Nat
  BY <1>13, <1>14
<1> HIDE DEF S
<1>16. /\ Legal(windows)
       /\ \A id, m : m \in Tells(windows, id)
            <=> \E i \in 1 .. k : windows[i].id = id /\ windows[i].left = m /\ m # Missing
  BY <1>9, <1>15, EachWindow
<1>17. ASSUME NEW id
       PROVE  /\ Says(reported, id) \subseteq 0 .. 100
              /\ Tells(windows, id) \subseteq Says(reported, id)
              /\ \A m \in Says(reported, id) : \E x \in Tells(windows, id) : x <= m
  <2>1. Says(reported, id) \subseteq 0 .. 100
    BY <1>7, <1>12
  <2>2. ASSUME NEW m \in Tells(windows, id) PROVE m \in Tells(buckets, id)
    <3>1. PICK i \in 1 .. k : windows[i].id = id /\ windows[i].left = m
      BY <1>16, <2>2
    <3>2. ids[i] = id /\ m = Least(buckets, id).left /\ id \in IdsOf(buckets)
      BY <1>13, <1>14, <3>1
    <3> QED BY <1>11, <1>12, <3>2
  <2>3. ASSUME NEW m \in Tells(buckets, id) PROVE \E x \in Tells(windows, id) : x <= m
    <3>1. id \in IdsOf(buckets)
      BY <1>12, <2>3
    <3>2. PICK i \in 1 .. k : ids[i] = id
      BY <1>9, <3>1
    <3> DEFINE x == Least(buckets, id).left
    <3>3. windows[i].id = id /\ windows[i].left = x /\ x # Missing
      BY <1>13, <1>14, <3>1, <3>2
    <3> HIDE DEF x
    <3>4. x \in Tells(windows, id)
      BY <1>16, <3>3
    <3>5. x \in Minimum(Tells(buckets, id))
      BY <1>11, <3>3 DEF x
    <3> QED BY <2>3, <3>4, <3>5 DEF Minimum
  <2> QED BY <1>7, <2>1, <2>2, <2>3
<1>18. \A all : TrueTo(windows, reported, all)
  BY <1>16, <1>17 DEF TrueTo, Legal
<1>19. windows = <<>> <=> reported = {}
  <2>1. windows = <<>> <=> k = 0
    BY <1>9, <1>15
  <2>2. k = 0 <=> IdsOf(buckets) = {}
    <3>1. CASE k = 0
      BY <1>9, <3>1
    <3>2. CASE k # 0
      <4>1. 1 \in 1 .. k
        BY <1>9, <3>2
      <4>2. ids[1] \in IdsOf(buckets)
        BY <1>9, <4>1
      <4> QED BY <3>2, <4>2
    <3> QED BY <3>1, <3>2
  <2>3. IdsOf(buckets) = {} <=> Range(buckets) = {}
    BY <1>10
  <2>4. reported = {} <=> Range(buckets) = {}
    <3>1. reported = {<<b.id, b.left>> : b \in usable}
      BY Zenon DEF GroupsReported, reported, usable
    <3> QED BY <1>5, <3>1
  <2> QED BY <2>1, <2>2, <2>3, <2>4
<1> QED BY <1>18, <1>19 DEF windows, reported

LEMMA FetchOpenCodeTrue ==
    ASSUME NEW answers \in AtMostOne(Seq(Group)), NEW ids
    PROVE  TrueTo(FetchOpenCode(answers), OpenCodeReported(answers), ids)
<1>1. CASE answers = <<>>
  <2>1. FetchOpenCode(answers) = <<>> /\ OpenCodeReported(answers) = {}
    BY <1>1 DEF FetchOpenCode, OpenCodeReported
  <2> QED BY <2>1, NothingIsTrue
<1>2. CASE answers # <<>>
  <2>1. answers[1] \in Seq(Group)
    BY <1>2 DEF AtMostOne
  <2>2. /\ FetchOpenCode(answers) = QuotaGroups(answers[1])
        /\ OpenCodeReported(answers) = GroupsReported(Range(answers[1]))
    BY <1>2 DEF FetchOpenCode, OpenCodeReported
  <2> QED BY <2>1, <2>2, QuotaGroupsTrue
<1> QED BY <1>1, <1>2

LEMMA FetchAntigravityTrue ==
    ASSUME NEW account \in Antigravity, NEW ids
    PROVE  TrueTo(FetchAntigravity(account.project, account.loaded, account.answers),
                  AntigravityReported(account), ids)
<1> DEFINE answers == account.answers
           windows == [i \in DOMAIN answers |->
                          IF answers[i] = <<>> THEN <<>> ELSE QuotaGroups(FlashGroups(answers[i][1]))]
           useful == {i \in DOMAIN answers : windows[i] # <<>>}
           Told(i) == IF answers[i] = <<>> THEN {} ELSE GroupsReported(FlashPool(answers[i][1]))
           telling == {i \in DOMAIN answers : Told(i) # {}}
           shown == FetchAntigravity(account.project, account.loaded, answers)
           reported == AntigravityReported(account)
<1>1. answers \in Seq(AtMostOne(Seq(Group)))
  BY DEF Antigravity
<1>2. shown = IF (account.project = "" /\ account.loaded = "") \/ useful = {} THEN <<>>
              ELSE windows[CHOOSE i \in useful : \A j \in useful : i <= j]
  BY Zenon DEF FetchAntigravity
<1>3. reported = IF account.project = "" /\ account.loaded = "" THEN {}
                 ELSE UNION {Told(i) : i \in {j \in telling : \A k \in telling : j <= k}}
  BY Zenon DEF AntigravityReported
<1> HIDE DEF shown, reported
<1>4. DOMAIN answers = 1 .. Len(answers) /\ Len(answers) \in Nat
      /\ \A i \in DOMAIN answers : answers[i] \in AtMostOne(Seq(Group))
  BY <1>1
<1> HIDE DEF answers
<1>5. ASSUME NEW i \in DOMAIN answers
      PROVE  TrueTo(windows[i], Told(i), ids) /\ (windows[i] = <<>> <=> Told(i) = {})
  <2>1. CASE answers[i] = <<>>
    <3>1. windows[i] = <<>> /\ Told(i) = {}
      BY <2>1
    <3> QED BY <3>1, NothingIsTrue
  <2>2. CASE answers[i] # <<>>
    <3> DEFINE groups == FlashGroups(answers[i][1])
    <3>1. answers[i][1] \in Seq(Group)
      BY <1>4, <2>2 DEF AtMostOne
    <3>2. groups \in Seq(Group) /\ Range(groups) = FlashPool(answers[i][1])
      BY <3>1, FlashGroupsFacts
    <3>3. windows[i] = QuotaGroups(groups) /\ Told(i) = GroupsReported(Range(groups))
      BY <2>2, <3>2
    <3> HIDE DEF groups, windows, Told
    <3> QED BY <3>2, <3>3, QuotaGroupsTrue
  <2> QED BY <2>1, <2>2
<1> HIDE DEF windows, Told
<1>6. useful = telling
  BY <1>5
<1>7. CASE (account.project = "" /\ account.loaded = "") \/ useful = {}
  <2>1. shown = <<>>
    BY <1>2, <1>7
  <2>2. reported = {}
    BY <1>3, <1>6, <1>7
  <2> QED BY <2>1, <2>2, NothingIsTrue DEF shown, reported, answers
<1>8. CASE ~(account.project = "" /\ account.loaded = "") /\ useful # {}
  <2> DEFINE c == CHOOSE i \in useful : \A j \in useful : i <= j
  <2>1. useful \subseteq Nat
    BY <1>4
  <2>2. \E i \in useful : \A j \in useful : i <= j
    BY <1>8, <2>1, LeastNumber
  <2>3. c \in useful /\ \A j \in useful : c <= j
    BY <2>2
  <2>4. shown = windows[c]
    BY <1>2, <1>8
  <2> HIDE DEF c
  <2>5. {j \in telling : \A k \in telling : j <= k} = {c}
    BY <1>6, <2>1, <2>3
  <2>6. reported = Told(c)
    BY <1>3, <1>8, <2>5
  <2> QED BY <1>5, <2>3, <2>4, <2>6 DEF shown, reported, answers
<1> QED BY <1>7, <1>8
-----------------------------------------------------------------------------
(* The rows. *)

LEMMA PreferredIds ==
    /\ \A group \in {"codex", "claude", "kimi", "antigravity"} :
          group \in Grouped /\ Range(Preferred(group)) = {FiveHours, SevenDays}
    /\ "opencode" \in Grouped
<1>1. Range(<<FiveHours, SevenDays>>) = {FiveHours, SevenDays}
  BY DEF Range
<1>2. Preferred("codex") = <<FiveHours, SevenDays>> /\ Preferred("claude") = <<FiveHours, SevenDays>>
  BY DEF Preferred
<1>3. Preferred("kimi") = <<FiveHours, SevenDays>> /\ Preferred("antigravity") = <<FiveHours, SevenDays>>
  BY DEF Preferred
<1> QED BY <1>1, <1>2, <1>3 DEF Grouped

LEMMA CodexRowTrue ==
    ASSUME NEW row \in Seq(Calls(CodexAnswer)), \A i \in DOMAIN row : Distinguished(row[i])
    PROVE  ShowsLeast("codex", [i \in DOMAIN row |-> FetchCodex(row[i].answers, row[i].live, row[i].now)],
                      [i \in DOMAIN row |-> CodexReported(row[i])])
<1> DEFINE n == Len(row)
           windows == [i \in DOMAIN row |-> FetchCodex(row[i].answers, row[i].live, row[i].now)]
           reported == [i \in DOMAIN row |-> CodexReported(row[i])]
<1>1. /\ n \in Nat /\ DOMAIN row = 1 .. n
      /\ \A i \in 1 .. n : row[i] \in Calls(CodexAnswer) /\ Distinguished(row[i])
  OBVIOUS
<1> HIDE DEF n
<1>2. /\ windows = [i \in 1 .. n |-> windows[i]] /\ reported = [i \in 1 .. n |-> reported[i]]
      /\ \A i \in 1 .. n : windows[i] = FetchCodex(row[i].answers, row[i].live, row[i].now) /\ reported[i] = CodexReported(row[i])
  BY <1>1
<1> HIDE DEF windows, reported
<1>3. ASSUME NEW i \in 1 .. n
      PROVE  TrueTo(windows[i], reported[i], Range(Preferred("codex")))
  BY <1>1, <1>2, FetchCodexTrue, PreferredIds
<1>4. AllTrue(n, windows, reported, Range(Preferred("codex")))
  BY <1>1, <1>2, <1>3 DEF AllTrue
<1>5. ShowsLeast("codex", windows, reported)
  BY <1>4, RowShowsLeast, PreferredIds
<1> QED BY <1>5 DEF windows, reported

LEMMA ClaudeRowTrue ==
    ASSUME NEW row \in Seq(AtMostOne(ClaudeAnswer))
    PROVE  ShowsLeast("claude", [i \in DOMAIN row |-> FetchClaude(row[i])],
                      [i \in DOMAIN row |-> ClaudeReported(row[i])])
<1> DEFINE n == Len(row)
           windows == [i \in DOMAIN row |-> FetchClaude(row[i])]
           reported == [i \in DOMAIN row |-> ClaudeReported(row[i])]
<1>1. n \in Nat /\ DOMAIN row = 1 .. n /\ \A i \in 1 .. n : row[i] \in AtMostOne(ClaudeAnswer)
  OBVIOUS
<1> HIDE DEF n
<1>2. /\ windows = [i \in 1 .. n |-> windows[i]] /\ reported = [i \in 1 .. n |-> reported[i]]
      /\ \A i \in 1 .. n : windows[i] = FetchClaude(row[i]) /\ reported[i] = ClaudeReported(row[i])
  BY <1>1
<1> HIDE DEF windows, reported
<1>3. ASSUME NEW i \in 1 .. n
      PROVE  TrueTo(windows[i], reported[i], Range(Preferred("claude")))
  BY <1>1, <1>2, FetchClaudeTrue, PreferredIds
<1>4. AllTrue(n, windows, reported, Range(Preferred("claude")))
  BY <1>1, <1>2, <1>3 DEF AllTrue
<1>5. ShowsLeast("claude", windows, reported)
  BY <1>4, RowShowsLeast, PreferredIds
<1> QED BY <1>5 DEF windows, reported

LEMMA KimiRowTrue ==
    ASSUME NEW row \in Seq(AtMostOne(KimiAnswer))
    PROVE  ShowsLeast("kimi", [i \in DOMAIN row |-> FetchKimi(row[i])],
                      [i \in DOMAIN row |-> KimiReported(row[i])])
<1> DEFINE n == Len(row)
           windows == [i \in DOMAIN row |-> FetchKimi(row[i])]
           reported == [i \in DOMAIN row |-> KimiReported(row[i])]
<1>1. n \in Nat /\ DOMAIN row = 1 .. n /\ \A i \in 1 .. n : row[i] \in AtMostOne(KimiAnswer)
  OBVIOUS
<1> HIDE DEF n
<1>2. /\ windows = [i \in 1 .. n |-> windows[i]] /\ reported = [i \in 1 .. n |-> reported[i]]
      /\ \A i \in 1 .. n : windows[i] = FetchKimi(row[i]) /\ reported[i] = KimiReported(row[i])
  BY <1>1
<1> HIDE DEF windows, reported
<1>3. ASSUME NEW i \in 1 .. n
      PROVE  TrueTo(windows[i], reported[i], Range(Preferred("kimi")))
  BY <1>1, <1>2, FetchKimiTrue, PreferredIds
<1>4. AllTrue(n, windows, reported, Range(Preferred("kimi")))
  BY <1>1, <1>2, <1>3 DEF AllTrue
<1>5. ShowsLeast("kimi", windows, reported)
  BY <1>4, RowShowsLeast, PreferredIds
<1> QED BY <1>5 DEF windows, reported

LEMMA AntigravityRowTrue ==
    ASSUME NEW row \in Seq(Antigravity)
    PROVE  ShowsLeast("antigravity", [i \in DOMAIN row |-> FetchAntigravity(row[i].project, row[i].loaded, row[i].answers)],
                      [i \in DOMAIN row |-> AntigravityReported(row[i])])
<1> DEFINE n == Len(row)
           windows == [i \in DOMAIN row |-> FetchAntigravity(row[i].project, row[i].loaded, row[i].answers)]
           reported == [i \in DOMAIN row |-> AntigravityReported(row[i])]
<1>1. n \in Nat /\ DOMAIN row = 1 .. n /\ \A i \in 1 .. n : row[i] \in Antigravity
  OBVIOUS
<1> HIDE DEF n
<1>2. /\ windows = [i \in 1 .. n |-> windows[i]] /\ reported = [i \in 1 .. n |-> reported[i]]
      /\ \A i \in 1 .. n : windows[i] = FetchAntigravity(row[i].project, row[i].loaded, row[i].answers) /\ reported[i] = AntigravityReported(row[i])
  BY <1>1
<1> HIDE DEF windows, reported
<1>3. ASSUME NEW i \in 1 .. n
      PROVE  TrueTo(windows[i], reported[i], Range(Preferred("antigravity")))
  BY <1>1, <1>2, FetchAntigravityTrue, PreferredIds
<1>4. AllTrue(n, windows, reported, Range(Preferred("antigravity")))
  BY <1>1, <1>2, <1>3 DEF AllTrue
<1>5. ShowsLeast("antigravity", windows, reported)
  BY <1>4, RowShowsLeast, PreferredIds
<1> QED BY <1>5 DEF windows, reported

LEMMA OpenCodeRowTrue ==
    ASSUME NEW row \in Seq(AtMostOne(Seq(Group)))
    PROVE  ShowsLeast("opencode", [i \in DOMAIN row |-> FetchOpenCode(row[i])],
                      [i \in DOMAIN row |-> OpenCodeReported(row[i])])
<1> DEFINE n == Len(row)
           windows == [i \in DOMAIN row |-> FetchOpenCode(row[i])]
           reported == [i \in DOMAIN row |-> OpenCodeReported(row[i])]
<1>1. n \in Nat /\ DOMAIN row = 1 .. n /\ \A i \in 1 .. n : row[i] \in AtMostOne(Seq(Group))
  OBVIOUS
<1> HIDE DEF n
<1>2. /\ windows = [i \in 1 .. n |-> windows[i]] /\ reported = [i \in 1 .. n |-> reported[i]]
      /\ \A i \in 1 .. n : windows[i] = FetchOpenCode(row[i]) /\ reported[i] = OpenCodeReported(row[i])
  BY <1>1
<1> HIDE DEF windows, reported
<1>3. ASSUME NEW i \in 1 .. n
      PROVE  TrueTo(windows[i], reported[i], Range(Preferred("opencode")))
  BY <1>1, <1>2, FetchOpenCodeTrue, PreferredIds
<1>4. AllTrue(n, windows, reported, Range(Preferred("opencode")))
  BY <1>1, <1>2, <1>3 DEF AllTrue
<1>5. ShowsLeast("opencode", windows, reported)
  BY <1>4, RowShowsLeast, PreferredIds
<1> QED BY <1>5 DEF windows, reported

LEMMA PassiveRowTrue ==
    ASSUME NEW row \in Seq(Headers), NEW group \in {"codex", "claude"}
    PROVE  ShowsLeast(group, [i \in DOMAIN row |-> PassiveWindows(row[i])],
                      [i \in DOMAIN row |-> PassiveReported(row[i])])
<1> DEFINE n == Len(row)
           windows == [i \in DOMAIN row |-> PassiveWindows(row[i])]
           reported == [i \in DOMAIN row |-> PassiveReported(row[i])]
<1>1. n \in Nat /\ DOMAIN row = 1 .. n /\ \A i \in 1 .. n : row[i] \in Headers
  OBVIOUS
<1> HIDE DEF n
<1>2. /\ windows = [i \in 1 .. n |-> windows[i]] /\ reported = [i \in 1 .. n |-> reported[i]]
      /\ \A i \in 1 .. n : windows[i] = PassiveWindows(row[i]) /\ reported[i] = PassiveReported(row[i])
  BY <1>1
<1> HIDE DEF windows, reported
<1>3. ASSUME NEW i \in 1 .. n
      PROVE  TrueTo(windows[i], reported[i], Range(Preferred(group)))
  BY <1>1, <1>2, PassiveTrue, PreferredIds
<1>4. AllTrue(n, windows, reported, Range(Preferred(group)))
  BY <1>1, <1>2, <1>3 DEF AllTrue
<1>5. ShowsLeast(group, windows, reported)
  BY <1>4, RowShowsLeast, PreferredIds
<1> QED BY <1>5 DEF windows, reported

\* A Grok row shows each id that was reported, if they are two at most.
LEMMA GrokShowsAll ==
    ASSUME NEW S, NEW windows \in Seq(S), \A x \in Range(windows) : x.left \in Nat,
           NEW ids, IdsOf(windows) = ids, Cardinality(ids) <= 2, NEW id \in ids
    PROVE  id \in {AggregateWindows("xai", windows)[i].id :
                      i \in DOMAIN AggregateWindows("xai", windows)}
<1> DEFINE none == <<>>
           arranged == Arranged(none, windows)
           count == IF Len(arranged) > 2 THEN 2 ELSE Len(arranged)
           shown == AggregateWindows("xai", windows)
<1>1. shown = [i \in 1 .. count |-> Least(windows, arranged[i])]
  <2>1. Preferred("xai") = none
    BY DEF Preferred
  <2>2. "xai" # "opencode"
    OBVIOUS
  <2> QED BY <2>1, <2>2, Zenon DEF AggregateWindows
<1>2. arranged \in Seq(ids) /\ Range(arranged) = ids
  <2>1. none \in Seq({})
    BY EmptySeq
  <2> HIDE DEF none
  <2> QED BY <2>1, ArrangedFacts
<1>3. \A j, k \in DOMAIN arranged : arranged[j] = arranged[k] => j = k
  BY ArrangedDistinct, Zenon
<1> HIDE DEF arranged, shown
<1>4. DOMAIN arranged = 1 .. Len(arranged) /\ Len(arranged) \in Nat
  BY <1>2
<1>5. Len(arranged) <= 2
  <2>1. arranged \in Bijection(1 .. Len(arranged), ids)
    BY <1>2, <1>3, <1>4 DEF Range, Bijection, Injection, Surjection, IsInjective
  <2>2. IsFiniteSet(1 .. Len(arranged)) /\ Cardinality(1 .. Len(arranged)) = Len(arranged)
    BY <1>4, CountTo
  <2>3. Cardinality(ids) = Cardinality(1 .. Len(arranged))
    BY <2>1, <2>2, FS_Bijection DEF ExistsBijection
  <2> QED BY <2>2, <2>3
<1>6. PICK j \in 1 .. Len(arranged) : arranged[j] = id
  BY <1>2, <1>4 DEF Range
<1>7. j \in DOMAIN shown /\ shown[j] = Least(windows, id)
  BY <1>1, <1>4, <1>5, <1>6
<1>8. Least(windows, id).id = id
  BY LeastFacts
<1> QED BY <1>7, <1>8 DEF shown

LEMMA GrokRowTrue ==
    ASSUME NEW row \in Seq(AtMostOne(XAIAnswer)), \A i \in DOMAIN row : Undrifted(row[i])
    PROVE  GrokShowsLeast(row)
<1> DEFINE n == Len(row)
           windows == [i \in DOMAIN row |-> FetchXAI(row[i])]
           reported == [i \in DOMAIN row |-> XAIReported(row[i])]
           flat == FlattenSeq(windows)
           shown == AggregateWindows("xai", flat)
           places == {shown[i].id : i \in DOMAIN shown}
           told == {r[1] : r \in UNION Range(reported)}
           ids == GrokIds(windows, reported)
           Seen(id) == {shown[i].left : i \in {j \in DOMAIN shown : shown[j].id = id}}
<1>1. /\ n \in Nat /\ DOMAIN row = 1 .. n
      /\ \A i \in 1 .. n : row[i] \in AtMostOne(XAIAnswer) /\ Undrifted(row[i])
  OBVIOUS
<1>2. ids = places \cup (IF Cardinality(told) <= 2 THEN told ELSE {})
  BY Zenon DEF GrokIds
<1> SUFFICES ASSUME NEW id \in ids
             PROVE  Seen(id) \ {Missing} = Minimum(AnySays(reported, id))
  BY Zenon DEF GrokShowsLeast, ShowsLeastOf, AnySays, Minimum
<1> HIDE DEF n, ids
<1>3. /\ windows = [i \in 1 .. n |-> windows[i]] /\ reported = [i \in 1 .. n |-> reported[i]]
      /\ \A i \in 1 .. n : windows[i] = FetchXAI(row[i]) /\ reported[i] = XAIReported(row[i])
  BY <1>1
<1> HIDE DEF windows, reported
<1>4. \A i \in 1 .. n :
         /\ TrueTo(windows[i], reported[i], ids)
         /\ {x.id : x \in Range(windows[i])} = {r[1] : r \in reported[i]}
  BY <1>1, <1>3, FetchXAITrue
<1>5. AllTrue(n, windows, reported, ids)
  BY <1>1, <1>3, <1>4 DEF AllTrue
<1>6. Legal(flat) /\ Minimum(Tells(flat, id)) = Minimum(AnySays(reported, id))
  BY <1>5, LeastOfAll
<1>7. IdsOf(flat) = told
  <2> DEFINE W == UNION {Range(windows[i]) : i \in 1 .. n}
  <2>1. windows \in [1 .. n -> Seq(W)]
    <3> SUFFICES ASSUME NEW i \in 1 .. n PROVE windows[i] \in Seq(W)
      BY <1>3
    <3>1. windows[i] \in Seq(Range(windows[i])) /\ Range(windows[i]) \subseteq W
      BY <1>4 DEF TrueTo
    <3> QED BY <3>1, SeqMonotonic
  <2>2. Range(flat) = W
    BY <1>1, <2>1, FlattenRange
  <2> HIDE DEF flat
  <2>3. IdsOf(flat) = {x.id : x \in W}
    <3>1. IdsOf(flat) = {x.id : x \in Range(flat)}
      BY DEF IdsOf, Range
    <3> QED BY <2>2, <3>1
  <2>4. Range(reported) = {reported[i] : i \in 1 .. n}
    BY <1>3 DEF Range
  <2>5. told = UNION {{r[1] : r \in reported[i]} : i \in 1 .. n}
    BY <2>4
  <2>6. {x.id : x \in W} = UNION {{x.id : x \in Range(windows[i])} : i \in 1 .. n}
    OBVIOUS
  <2> QED BY <1>4, <2>3, <2>5, <2>6
<1> HIDE DEF flat, told
<1>8. id \in places
  <2>1. CASE id \in told /\ Cardinality(told) <= 2
    <3>1. flat \in Seq(Range(flat)) /\ \A x \in Range(flat) : x.left \in Nat
      BY <1>6 DEF Legal
    <3> QED BY <1>7, <2>1, <3>1, GrokShowsAll
  <2> QED BY <1>2, <2>1
<1>9. Seen(id) \ {Missing} = Minimum(Tells(flat, id))
  BY <1>6, <1>8, ShownIsLeast DEF Legal
<1> QED BY <1>6, <1>9

\* What a row shows, for each window it has a place for, is the least that was
\* reported for an account of it, and nothing is shown of which nothing was
\* reported (providers.go, layout.go:154).
THEOREM PercentagesAreShown == PercentagesShown
<1>1. /\ CodexRows \subseteq Seq(Calls(CodexAnswer))
      /\ ClaudeRows \subseteq Seq(AtMostOne(ClaudeAnswer))
      /\ KimiRows \subseteq Seq(AtMostOne(KimiAnswer))
      /\ AntigravityRows \subseteq Seq(Antigravity)
      /\ OpenCodeRows \subseteq Seq(AtMostOne(Seq(Group)))
      /\ XAIRows \subseteq Seq(AtMostOne(XAIAnswer))
      /\ PassiveRows \subseteq Seq(Headers)
  BY InputsAssumption
<1>2. \A row \in CodexRows :
          (\A i \in DOMAIN row : Distinguished(row[i])) =>
          ShowsLeast("codex", [i \in DOMAIN row |-> FetchCodex(row[i].answers, row[i].live, row[i].now)],
                     [i \in DOMAIN row |-> CodexReported(row[i])])
  <2> TAKE row \in CodexRows
  <2> HAVE \A i \in DOMAIN row : Distinguished(row[i])
  <2>1. row \in Seq(Calls(CodexAnswer))
    BY <1>1
  <2> QED BY <2>1, CodexRowTrue
<1>3. \A row \in ClaudeRows :
          ShowsLeast("claude", [i \in DOMAIN row |-> FetchClaude(row[i])],
                     [i \in DOMAIN row |-> ClaudeReported(row[i])])
  <2> TAKE row \in ClaudeRows
  <2>1. row \in Seq(AtMostOne(ClaudeAnswer))
    BY <1>1
  <2> QED BY <2>1, ClaudeRowTrue
<1>4. \A row \in KimiRows :
          ShowsLeast("kimi", [i \in DOMAIN row |-> FetchKimi(row[i])],
                     [i \in DOMAIN row |-> KimiReported(row[i])])
  <2> TAKE row \in KimiRows
  <2>1. row \in Seq(AtMostOne(KimiAnswer))
    BY <1>1
  <2> QED BY <2>1, KimiRowTrue
<1>5. \A row \in AntigravityRows :
          ShowsLeast("antigravity", [i \in DOMAIN row |-> FetchAntigravity(row[i].project, row[i].loaded, row[i].answers)],
                     [i \in DOMAIN row |-> AntigravityReported(row[i])])
  <2> TAKE row \in AntigravityRows
  <2>1. row \in Seq(Antigravity)
    BY <1>1
  <2> QED BY <2>1, AntigravityRowTrue
<1>6. \A row \in OpenCodeRows :
          ShowsLeast("opencode", [i \in DOMAIN row |-> FetchOpenCode(row[i])],
                     [i \in DOMAIN row |-> OpenCodeReported(row[i])])
  <2> TAKE row \in OpenCodeRows
  <2>1. row \in Seq(AtMostOne(Seq(Group)))
    BY <1>1
  <2> QED BY <2>1, OpenCodeRowTrue
<1>7. \A row \in XAIRows : (\A i \in DOMAIN row : Undrifted(row[i])) => GrokShowsLeast(row)
  BY <1>1, GrokRowTrue
<1>8. \A row \in PassiveRows, group \in {"codex", "claude"} :
          ShowsLeast(group, [i \in DOMAIN row |-> PassiveWindows(row[i])],
                     [i \in DOMAIN row |-> PassiveReported(row[i])])
  <2> TAKE row \in PassiveRows, group \in {"codex", "claude"}
  <2>1. row \in Seq(Headers)
    BY <1>1
  <2> QED BY <2>1, PassiveRowTrue
<1> QED BY <1>2, <1>3, <1>4, <1>5, <1>6, <1>7, <1>8 DEF PercentagesShown
-----------------------------------------------------------------------------
(* The reset cards. *)

LEMMA BijectionFacts ==
    ASSUME NEW S, NEW T, NEW f
    PROVE  f \in Bijection(S, T) <=> /\ f \in [S -> T]
                                     /\ \A a, b \in S : f[a] = f[b] => a = b
                                     /\ \A t \in T : \E a \in S : f[a] = t
BY DEF Bijection, Injection, Surjection, IsInjective

LEMMA Composed ==
    ASSUME NEW S, NEW T, NEW U, NEW f \in Bijection(S, T), NEW g \in Bijection(T, U)
    PROVE  [s \in S |-> g[f[s]]] \in Bijection(S, U)
<1> DEFINE h == [s \in S |-> g[f[s]]]
<1>1. /\ f \in [S -> T] /\ \A a, b \in S : f[a] = f[b] => a = b
      /\ \A t \in T : \E a \in S : f[a] = t
  BY BijectionFacts
<1>2. /\ g \in [T -> U] /\ \A a, b \in T : g[a] = g[b] => a = b
      /\ \A u \in U : \E a \in T : g[a] = u
  BY BijectionFacts
<1>3. h \in [S -> U] /\ \A s \in S : h[s] = g[f[s]]
  BY <1>1, <1>2
<1> HIDE DEF h
<1>4. \A a, b \in S : h[a] = h[b] => a = b
  BY <1>1, <1>2, <1>3
<1>5. \A u \in U : \E a \in S : h[a] = u
  BY <1>1, <1>2, <1>3
<1> QED BY <1>3, <1>4, <1>5, BijectionFacts DEF h

\* The expiries of the cards of one account, and the places of these cards.
AccountCards(call) ==
    IF ResetCards(call.answers, call.live, call.now) = <<>>
    THEN <<>> ELSE ResetCards(call.answers, call.live, call.now)[1]

OpenCards(call) ==
    IF Answered(call) = <<>> THEN {}
    ELSE {k \in DOMAIN Answered(call)[1].credits :
             Available(Answered(call)[1].credits[k], call.now)}

LEMMA AccountCardsFacts ==
    ASSUME NEW call \in Calls(CardAnswer)
    PROVE  /\ AccountCards(call) \in Seq(Nat)
           /\ \E card \in Bijection(1 .. Len(AccountCards(call)), OpenCards(call)) :
                 \A k \in 1 .. Len(AccountCards(call)) :
                    AccountCards(call)[k] = Answered(call)[1].credits[card[k]].expires
<1> DEFINE answer == Answered(call)
           credits == answer[1].credits
           available == {i \in DOMAIN credits : Available(credits[i], call.now)}
           open == Only(credits, available)
           expiries == [i \in DOMAIN open |-> open[i].expires]
           cards == AccountCards(call)
<1>1. Retried(call.answers, call.live) = answer /\ (answer # <<>> => answer[1] \in CardAnswer)
  BY RetriedFacts
<1>2. CASE answer = <<>>
  <2>1. cards = <<>> /\ OpenCards(call) = {}
    BY <1>1, <1>2 DEF AccountCards, ResetCards, OpenCards
  <2>2. <<>> \in [1 .. Len(<<>>) -> {}] /\ Len(<<>>) = 0 /\ <<>> \in Seq(Nat)
    OBVIOUS
  <2>3. <<>> \in Bijection(1 .. Len(<<>>), {})
    BY <2>2, BijectionFacts
  <2> QED BY <2>1, <2>2, <2>3
<1>3. CASE answer # <<>>
  <2>1. ResetCards(call.answers, call.live, call.now) = <<Sorted(expiries)>>
    BY <1>1, <1>3, Zenon DEF ResetCards
  <2>2. cards = Sorted(expiries) /\ OpenCards(call) = available
    <3>1. <<Sorted(expiries)>> # <<>> /\ <<Sorted(expiries)>>[1] = Sorted(expiries)
      OBVIOUS
    <3> QED BY <1>3, <2>1, <3>1, Zenon DEF AccountCards, OpenCards
  <2> DEFINE Card == [status : STRING, expires : Nat]
  <2>3. credits \in Seq(Card)
    BY <1>1, <1>3 DEF CardAnswer
  <2>4. \A c \in Card : c.expires \in Nat
    OBVIOUS
  <2>5. available \subseteq DOMAIN credits
    OBVIOUS
  <2> HIDE DEF Card, credits, available
  <2> DEFINE n == Len(open)
  <2>6. open \in Seq(Card) /\ \E place : Picks(place, open, credits, available)
    <3>1. available \cap DOMAIN credits = available
      BY <2>5
    <3> QED BY <2>3, <3>1, OnlyPlaces
  <2> HIDE DEF open
  <2>7. n \in Nat /\ DOMAIN open = 1 .. n /\ \A k \in 1 .. n : open[k] \in Card
    BY <2>6
  <2>8. /\ expiries \in Seq(Nat) /\ Len(expiries) = n
        /\ \A k \in 1 .. n : expiries[k] = open[k].expires
    BY <2>4, <2>7
  <2> HIDE DEF n, expiries
  <2>9. /\ Sorted(expiries) \in Seq(Nat) /\ Len(Sorted(expiries)) = n
        /\ \E order \in Bijection(1 .. n, 1 .. n) :
              \A k \in 1 .. n : Sorted(expiries)[k] = expiries[order[k]]
    BY <2>8, SortedFacts
  <2>16. PICK place : Picks(place, open, credits, available)
    BY <2>6
  <2>10. place \in Bijection(1 .. n, available) /\ \A k \in 1 .. n : open[k] = credits[place[k]]
    BY <2>16 DEF Picks, n
  <2>11. PICK order \in Bijection(1 .. n, 1 .. n) :
            \A k \in 1 .. n : Sorted(expiries)[k] = expiries[order[k]]
    BY <2>9
  <2> DEFINE card == [k \in 1 .. n |-> place[order[k]]]
  <2>12. card \in Bijection(1 .. n, available)
    BY <2>10, <2>11, Composed
  <2>13. \A k \in 1 .. n : order[k] \in 1 .. n /\ card[k] = place[order[k]]
    <3>1. order \in [1 .. n -> 1 .. n]
      BY <2>11, BijectionFacts
    <3> QED BY <3>1
  <2> HIDE DEF card
  <2>14. \A k \in 1 .. n : Sorted(expiries)[k] = credits[card[k]].expires
    <3> TAKE k \in 1 .. n
    <3>1. Sorted(expiries)[k] = expiries[order[k]] /\ order[k] \in 1 .. n /\ card[k] = place[order[k]]
      BY <2>11, <2>13
    <3> QED BY <2>8, <2>10, <3>1
  <2>15. /\ cards \in Seq(Nat) /\ Len(cards) = n
         /\ \A k \in 1 .. n : cards[k] = credits[card[k]].expires
    BY <2>2, <2>9, <2>14
  <2> HIDE DEF cards, answer
  <2>17. /\ cards \in Seq(Nat)
         /\ \E b \in Bijection(1 .. Len(cards), OpenCards(call)) :
               \A k \in 1 .. Len(cards) : cards[k] = credits[b[k]].expires
    BY <2>2, <2>12, <2>15
  <2> QED BY <2>17 DEF cards, credits, answer
<1> QED BY <1>2, <1>3

\* The cards of a row are listed by the expiries of a sequence.
Lists(card, s, row) ==
    /\ card \in Bijection(1 .. Len(s), CardsOf(row))
    /\ \A k \in 1 .. Len(s) : s[k] = Expiry(row, card[k])

Listing(card, call) ==
    /\ card \in Bijection(1 .. Len(AccountCards(call)), OpenCards(call))
    /\ \A k \in 1 .. Len(AccountCards(call)) :
          AccountCards(call)[k] = Answered(call)[1].credits[card[k]].expires

LEMMA CardsOfFacts ==
    ASSUME NEW row
    PROVE  \A c : c \in CardsOf(row) <=> /\ c = <<c[1], c[2]>>
                                         /\ c[1] \in DOMAIN row /\ c[2] \in OpenCards(row[c[1]])
<1> DEFINE Of(i) == {i} \X OpenCards(row[i])
           Told(i) == LET answer == Answered(row[i])
                      IN  IF answer = <<>> THEN {}
                          ELSE {i} \X {k \in DOMAIN answer[1].credits : Available(answer[1].credits[k], row[i].now)}
<1>1. CardsOf(row) = UNION {Of(i) : i \in DOMAIN row}
  <2>1. \A i \in DOMAIN row : Of(i) = Told(i)
    BY DEF OpenCards
  <2>2. CardsOf(row) = UNION {Told(i) : i \in DOMAIN row}
    BY Zenon DEF CardsOf
  <2> HIDE DEF Of, Told
  <2> QED BY <2>1, <2>2
<1>2. \A i \in DOMAIN row : \A c : c \in Of(i) <=> c = <<c[1], c[2]>> /\ c[1] = i /\ c[2] \in OpenCards(row[i])
  OBVIOUS
<1> HIDE DEF Of
<1> QED BY <1>1, <1>2

LEMMA RowCardsListed ==
    ASSUME NEW row \in Seq(Calls(CardAnswer)), NEW lists,
           lists = [i \in DOMAIN row |-> AccountCards(row[i])]
    PROVE  FlattenSeq(lists) \in Seq(Nat) /\ \E card : Lists(card, FlattenSeq(lists), row)
<1> DEFINE n == Len(row)
           flat == FlattenSeq(lists)
<1>1. n \in Nat /\ DOMAIN row = 1 .. n /\ \A i \in 1 .. n : row[i] \in Calls(CardAnswer)
  OBVIOUS
<1> HIDE DEF n
<1>2. \A i \in 1 .. n : AccountCards(row[i]) \in Seq(Nat) /\ \E card : Listing(card, row[i])
  BY <1>1, AccountCardsFacts DEF Listing
<1>3. lists \in [1 .. n -> Seq(Nat)] /\ \A i \in 1 .. n : lists[i] = AccountCards(row[i])
  BY <1>1, <1>2
<1>4. flat \in Seq(Nat) /\ \E place : Numbers(place, flat, lists, n)
  BY <1>1, <1>3, FlattenPlaces
<1>5. PICK place : Numbers(place, flat, lists, n)
  BY <1>4
<1> HIDE DEF flat
<1> DEFINE N == Len(flat)
           its == [i \in 1 .. n |-> CHOOSE card : Listing(card, row[i])]
           card == [k \in 1 .. N |-> <<place[k][1], its[place[k][1]][place[k][2]]>>]
<1>6. \A i \in 1 .. n : Listing(its[i], row[i])
  BY <1>2
<1> HIDE DEF its
<1>7. /\ place \in [1 .. N -> Places(lists, n)]
      /\ \A j, k \in 1 .. N : place[j] = place[k] => j = k
      /\ \A p \in Places(lists, n) : \E k \in 1 .. N : place[k] = p
      /\ \A k \in 1 .. N : flat[k] = lists[place[k][1]][place[k][2]]
  BY <1>5, BijectionFacts DEF Numbers
<1>8. \A p : p \in Places(lists, n) <=>
          /\ p = <<p[1], p[2]>> /\ p[1] \in 1 .. n /\ p[2] \in Nat
          /\ p[2] \in 1 .. Len(AccountCards(row[p[1]]))
  BY <1>3 DEF Places
<1>9. ASSUME NEW i \in 1 .. n
      PROVE  /\ its[i] \in [1 .. Len(AccountCards(row[i])) -> OpenCards(row[i])]
             /\ \A j, k \in 1 .. Len(AccountCards(row[i])) : its[i][j] = its[i][k] => j = k
             /\ \A c \in OpenCards(row[i]) : \E k \in 1 .. Len(AccountCards(row[i])) : its[i][k] = c
             /\ \A k \in 1 .. Len(AccountCards(row[i])) :
                   AccountCards(row[i])[k] = Answered(row[i])[1].credits[its[i][k]].expires
  BY <1>6, BijectionFacts DEF Listing
<1>10. ASSUME NEW k \in 1 .. N
       PROVE  /\ place[k][1] \in 1 .. n
              /\ place[k][2] \in 1 .. Len(AccountCards(row[place[k][1]]))
              /\ place[k] = <<place[k][1], place[k][2]>>
  BY <1>7, <1>8
<1>11. ASSUME NEW k \in 1 .. N
       PROVE  /\ card[k] = <<place[k][1], its[place[k][1]][place[k][2]]>>
              /\ card[k][1] = place[k][1] /\ card[k][2] = its[place[k][1]][place[k][2]]
              /\ card[k][2] \in OpenCards(row[place[k][1]])
  BY <1>9, <1>10
<1>12. card = [k \in 1 .. N |-> card[k]]
  OBVIOUS
<1> HIDE DEF card
<1>13. card \in [1 .. N -> CardsOf(row)]
  <2>1. \A k \in 1 .. N : card[k] \in CardsOf(row)
    BY <1>1, <1>10, <1>11, CardsOfFacts
  <2> QED BY <1>12, <2>1
<1>14. ASSUME NEW j \in 1 .. N, NEW k \in 1 .. N, card[j] = card[k] PROVE j = k
  <2>1. place[j][1] = place[k][1]
    BY <1>11, <1>14
  <2>2. its[place[k][1]][place[j][2]] = its[place[k][1]][place[k][2]]
    BY <1>11, <1>14, <2>1
  <2>3. /\ place[k][1] \in 1 .. n
        /\ place[j][2] \in 1 .. Len(AccountCards(row[place[k][1]]))
        /\ place[k][2] \in 1 .. Len(AccountCards(row[place[k][1]]))
    BY <1>10, <2>1
  <2>4. place[j][2] = place[k][2]
    <3> DEFINE i == place[k][1]
               a == place[j][2]
               b == place[k][2]
               last == Len(AccountCards(row[i]))
    <3>1. i \in 1 .. n /\ a \in 1 .. last /\ b \in 1 .. last /\ its[i][a] = its[i][b]
      BY <2>2, <2>3
    <3>2. i \in 1 .. n => \A u, v \in 1 .. last : its[i][u] = its[i][v] => u = v
      BY <1>9
    <3> HIDE DEF i, a, b, last
    <3>3. a = b
      BY <3>1, <3>2
    <3> QED BY <3>3 DEF a, b
  <2>5. place[j] = place[k]
    BY <1>10, <2>1, <2>4
  <2> QED BY <1>7, <2>5
<1>15. ASSUME NEW c \in CardsOf(row) PROVE \E k \in 1 .. N : card[k] = c
  <2>1. c = <<c[1], c[2]>> /\ c[1] \in 1 .. n /\ c[2] \in OpenCards(row[c[1]])
    BY <1>1, CardsOfFacts
  <2>2. PICK m \in 1 .. Len(AccountCards(row[c[1]])) : its[c[1]][m] = c[2]
    BY <1>9, <2>1
  <2> DEFINE p == <<c[1], m>>
  <2>3. p[1] = c[1] /\ p[2] = m /\ p = <<p[1], p[2]>>
    OBVIOUS
  <2> HIDE DEF p
  <2>4. m \in Nat
    OBVIOUS
  <2>5. p \in Places(lists, n)
    BY <1>8, <2>1, <2>3, <2>4
  <2>6. PICK k \in 1 .. N : place[k] = p
    BY <1>7, <2>5
  <2>7. card[k] = <<c[1], c[2]>>
    BY <1>11, <2>2, <2>3, <2>6
  <2> QED BY <2>1, <2>7
<1>16. ASSUME NEW k \in 1 .. N PROVE flat[k] = Expiry(row, card[k])
  <2>1. flat[k] = AccountCards(row[place[k][1]])[place[k][2]]
    BY <1>3, <1>7, <1>10
  <2>2. flat[k] = Answered(row[place[k][1]])[1].credits[its[place[k][1]][place[k][2]]].expires
    <3> DEFINE i == place[k][1]
               m == place[k][2]
    <3>1. i \in 1 .. n /\ m \in 1 .. Len(AccountCards(row[i])) /\ flat[k] = AccountCards(row[i])[m]
      BY <1>10, <2>1
    <3> HIDE DEF i, m
    <3>2. flat[k] = Answered(row[i])[1].credits[its[i][m]].expires
      BY <1>9, <3>1
    <3> QED BY <3>2 DEF i, m
  <2> QED BY <1>11, <2>2 DEF Expiry
<1>17. Lists(card, flat, row)
  BY <1>13, <1>14, <1>15, <1>16, BijectionFacts DEF Lists
<1> QED BY <1>4, <1>17 DEF flat

LEMMA RowCardsShown ==
    ASSUME NEW row \in Seq(Calls(CardAnswer))
    PROVE  /\ Len(RowCards(row)[1]) + RowCards(row)[2] = Cardinality(CardsOf(row))
           /\ \A i, j \in DOMAIN RowCards(row)[1] : i < j => ~Sooner(RowCards(row)[1][j], RowCards(row)[1][i])
           /\ \E card \in Injection(DOMAIN RowCards(row)[1], CardsOf(row)) :
                 \A i \in DOMAIN RowCards(row)[1] :
                    /\ Expiry(row, card[i]) = RowCards(row)[1][i]
                    /\ \A c \in CardsOf(row) \ Range(card) : ~Sooner(Expiry(row, c), RowCards(row)[1][i])
<1> DEFINE lists == [i \in DOMAIN row |-> AccountCards(row[i])]
           flat == FlattenSeq(lists)
           N == Len(flat)
           count == IF N > 3 THEN 3 ELSE N
           sorted == Sorted(flat)
           shown == SubSeq(sorted, 1, count)
           all == CardsOf(row)
<1>1. RowCards(row) = <<shown, N - count>>
  <2>1. RowCards(row) = ShownCards(flat)
    BY Zenon DEF RowCards, AccountCards
  <2> QED BY <2>1 DEF ShownCards
<1>2. flat \in Seq(Nat) /\ \E card : Lists(card, flat, row)
  BY RowCardsListed
<1> HIDE DEF flat, all
<1>3. PICK places : Lists(places, flat, row)
  BY <1>2
<1>4. places \in Bijection(1 .. N, all) /\ \A k \in 1 .. N : flat[k] = Expiry(row, places[k])
  BY <1>3 DEF Lists, all
<1>5. N \in Nat /\ count \in Nat /\ count <= N
  BY <1>2
<1> HIDE DEF N, count
<1>6. /\ sorted \in Seq(Nat) /\ Len(sorted) = N
      /\ \E order \in Bijection(1 .. N, 1 .. N) : \A k \in 1 .. N : sorted[k] = flat[order[k]]
      /\ \A j, k \in 1 .. N : j < k => ~Sooner(sorted[k], sorted[j])
  BY <1>2, SortedFacts DEF N
<1> HIDE DEF sorted
<1>7. PICK order \in Bijection(1 .. N, 1 .. N) : \A k \in 1 .. N : sorted[k] = flat[order[k]]
  BY <1>6
<1> DEFINE total == [k \in 1 .. N |-> places[order[k]]]
<1>8. total \in Bijection(1 .. N, all)
  BY <1>4, <1>7, Composed
<1>9. \A k \in 1 .. N : order[k] \in 1 .. N /\ total[k] = places[order[k]]
  <2>1. order \in [1 .. N -> 1 .. N]
    BY <1>7, BijectionFacts
  <2> QED BY <2>1
<1> HIDE DEF total
<1>10. \A k \in 1 .. N : sorted[k] = Expiry(row, total[k])
  <2> TAKE k \in 1 .. N
  <2>1. sorted[k] = flat[order[k]] /\ order[k] \in 1 .. N /\ total[k] = places[order[k]]
    BY <1>7, <1>9
  <2> QED BY <1>4, <2>1
<1>11. /\ total \in [1 .. N -> all] /\ \A a, b \in 1 .. N : total[a] = total[b] => a = b
       /\ \A c \in all : \E k \in 1 .. N : total[k] = c
  <2> DEFINE numbers == 1 .. N
  <2>1. total \in Bijection(numbers, all)
    BY <1>8
  <2> HIDE DEF numbers
  <2>2. /\ total \in [numbers -> all] /\ \A a, b \in numbers : total[a] = total[b] => a = b
        /\ \A c \in all : \E k \in numbers : total[k] = c
    BY <2>1, BijectionFacts
  <2> QED BY <2>2 DEF numbers
<1>12. Cardinality(all) = N
  <2>1. IsFiniteSet(1 .. N) /\ Cardinality(1 .. N) = N
    BY <1>5, CountTo
  <2>2. ExistsBijection(1 .. N, all)
    BY <1>8 DEF ExistsBijection
  <2> QED BY <2>1, <2>2, FS_Bijection
<1>13. Len(shown) = count /\ DOMAIN shown = 1 .. count /\ \A i \in 1 .. count : shown[i] = sorted[i]
  BY <1>5, <1>6
<1> HIDE DEF shown
<1> DEFINE card == [i \in 1 .. count |-> total[i]]
<1>14. \A i \in 1 .. count : i \in 1 .. N
  BY <1>5
<1>15. \A i \in 1 .. count : card[i] = total[i]
  OBVIOUS
<1>16. card \in Injection(1 .. count, all)
  <2>1. card \in [1 .. count -> all]
    BY <1>11, <1>14
  <2>2. \A a, b \in 1 .. count : card[a] = card[b] => a = b
    BY <1>11, <1>14, <1>15
  <2> HIDE DEF card
  <2> QED BY <2>1, <2>2 DEF Injection, IsInjective
<1>17. Range(card) = {total[i] : i \in 1 .. count}
  BY DEF Range
<1> HIDE DEF card
<1>18. ASSUME NEW i \in 1 .. count, NEW c \in all \ Range(card)
       PROVE  ~Sooner(Expiry(row, c), shown[i])
  <2>1. PICK k \in 1 .. N : total[k] = c
    BY <1>11
  <2>2. k \notin 1 .. count
    BY <1>17, <1>18, <2>1
  <2>3. i < k
    BY <1>5, <2>2
  <2>4. ~Sooner(sorted[k], sorted[i])
    BY <1>6, <1>14, <2>3
  <2> QED BY <1>10, <1>13, <2>1, <2>4
<1>19. \A i, j \in 1 .. count : i < j => ~Sooner(shown[j], shown[i])
  BY <1>6, <1>13, <1>14
<1>20. \A i \in 1 .. count : Expiry(row, card[i]) = shown[i]
  BY <1>10, <1>13, <1>14, <1>15
<1>21. RowCards(row)[1] = shown /\ RowCards(row)[2] = N - count
  BY <1>1
<1>22. Len(shown) + (N - count) = Cardinality(all)
  BY <1>5, <1>12, <1>13
<1> QED BY <1>13, <1>16, <1>18, <1>19, <1>20, <1>21, <1>22 DEF all

(* The cards shown are cards to be had, each of them once and the soonest first,
   and none of those that are only counted expires before one of them
   (providers.go:322, viewmodel.go:246). *)
THEOREM CardsAreShown == CardsShown
<1>1. CardRows \subseteq Seq(Calls(CardAnswer))
  BY InputsAssumption
<1> SUFFICES ASSUME NEW row \in CardRows
             PROVE  LET all == CardsOf(row)
                        shown == RowCards(row)[1]
                    IN  /\ Len(shown) + RowCards(row)[2] = Cardinality(all)
                        /\ \A i, j \in DOMAIN shown : i < j => ~Sooner(shown[j], shown[i])
                        /\ \E card \in Injection(DOMAIN shown, all) :
                              \A i \in DOMAIN shown :
                                 /\ Expiry(row, card[i]) = shown[i]
                                 /\ \A c \in all \ Range(card) : ~Sooner(Expiry(row, c), shown[i])
  BY DEF CardsShown
<1>2. row \in Seq(Calls(CardAnswer))
  BY <1>1
<1> QED BY <1>2, RowCardsShown

-----------------------------------------------------------------------------
(* The usage of the last days. *)

LEMMA TimesGrows == \A m, x, y \in Nat : x <= y => m * x <= m * y
<1> TAKE m, x, y \in Nat
<1> SUFFICES ASSUME x <= y PROVE m * x <= m * y
  OBVIOUS
<1>1. PICK d \in Nat : y = x + d
  <2>1. y - x \in Nat /\ y = x + (y - x)
    OBVIOUS
  <2> QED BY <2>1
<1>2. m * y = m * x + m * d
  BY <1>1
<1>3. m * d \in Nat /\ m * x \in Nat
  OBVIOUS
<1> QED BY <1>2, <1>3

LEMMA Quotient ==
    ASSUME NEW a \in Nat, NEW m \in Nat, m # 0
    PROVE  /\ a \div m \in Nat
           /\ m * (a \div m) <= a /\ a < m * (a \div m) + m
OBVIOUS

LEMMA QuotientsGrow ==
    ASSUME NEW a \in Nat, NEW b \in Nat, a <= b, NEW m \in Nat, m # 0
    PROVE  a \div m <= b \div m
<1> DEFINE q == a \div m
           r == b \div m
<1>1. q \in Nat /\ m * q <= a
  BY Quotient
<1>2. r \in Nat /\ b < m * r + m
  BY Quotient
<1> HIDE DEF q, r
<1>3. ASSUME r + 1 <= q PROVE FALSE
  <2>1. m * (r + 1) <= m * q
    BY <1>1, <1>2, <1>3, TimesGrows
  <2>2. m * (r + 1) = m * r + m
    BY <1>2
  <2>3. m * q \in Nat /\ m * r \in Nat
    BY <1>1, <1>2
  <2> QED BY <1>1, <1>2, <2>1, <2>2, <2>3
<1>4. q <= r
  BY <1>1, <1>2, <1>3
<1> QED BY <1>4 DEF q, r

LEMMA HeightFacts ==
    ASSUME NEW most \in Nat, NEW t \in 0 .. most, NEW u \in 0 .. most
    PROVE  /\ UsageBarHeight(t, most) \in 0 .. 100
           /\ t = 0 <=> UsageBarHeight(t, most) = 0
           /\ t = most /\ t # 0 => UsageBarHeight(t, most) = 100
           /\ t <= u => UsageBarHeight(t, most) <= UsageBarHeight(u, most)
<1> DEFINE q == (100 * t) \div most
           r == (100 * u) \div most
           Height(x, v) == IF x <= 0 \/ most <= 0 THEN 0 ELSE IF v < 4 THEN 4 ELSE IF v > 100 THEN 100 ELSE v
<1>1. UsageBarHeight(t, most) = Height(t, q) /\ UsageBarHeight(u, most) = Height(u, r)
  BY DEF UsageBarHeight
<1>2. most # 0 => q \in Nat /\ r \in Nat /\ (t <= u => q <= r)
  <2>1. 100 * t \in Nat /\ 100 * u \in Nat /\ (t <= u => 100 * t <= 100 * u)
    OBVIOUS
  <2> QED BY <2>1, Quotient, QuotientsGrow
<1>3. t = most /\ most # 0 => q = 100
  <2> SUFFICES ASSUME t = most, most # 0 PROVE q = 100
    OBVIOUS
  <2>1. 100 * t = most * 100 /\ 100 * t \in Nat
    OBVIOUS
  <2>2. q \in Nat /\ most * q <= most * 100 /\ most * 100 < most * q + most
    BY <2>1, Quotient
  <2> HIDE DEF q
  <2>3. ASSUME q <= 99 PROVE FALSE
    <3>1. most * (q + 1) <= most * 100
      BY <2>2, <2>3, TimesGrows
    <3>2. most * (q + 1) = most * q + most
      BY <2>2
    <3>3. most * q \in Nat /\ most * 100 \in Nat
      BY <2>2
    <3> QED BY <2>2, <3>1, <3>2, <3>3
  <2>4. ASSUME 101 <= q PROVE FALSE
    <3>1. most * 101 <= most * q
      BY <2>2, <2>4, TimesGrows
    <3> QED BY <2>2, <3>1
  <2> QED BY <2>2, <2>3, <2>4
<1> HIDE DEF q, r
<1>4. CASE most = 0
  <2>1. Height(t, q) = 0 /\ Height(u, r) = 0 /\ t = 0
    BY <1>4
  <2> HIDE DEF Height
  <2> QED BY <1>1, <2>1
<1>5. CASE most # 0
  <2>1. CASE t = 0
    <3>1. Height(t, q) = 0 /\ Height(u, r) \in 0 .. 100
      BY <1>2, <1>5, <2>1
    <3> HIDE DEF Height
    <3> QED BY <1>1, <2>1, <3>1
  <2>2. CASE t # 0
    <3> DEFINE Cut(v) == IF v < 4 THEN 4 ELSE IF v > 100 THEN 100 ELSE v
    <3>0. \A x \in 0 .. most, v \in Nat : x # 0 => Height(x, v) = Cut(v)
      <4> TAKE x \in 0 .. most, v \in Nat
      <4>1. x # 0 => ~(x <= 0 \/ most <= 0)
        OBVIOUS
      <4> HIDE DEF Cut
      <4> QED BY <4>1, Zenon DEF Cut
    <3>2. q \in Nat /\ r \in Nat /\ (t <= u => q <= r) /\ (t <= u => u # 0)
      BY <1>2, <1>5, <2>2
    <3> HIDE DEF Height
    <3>1. Height(t, q) = Cut(q) /\ (u # 0 => Height(u, r) = Cut(r))
      BY <2>2, <3>0, <3>2
    <3>3. Height(t, q) \in 4 .. 100 /\ (t = most => Height(t, q) = 100)
      BY <1>3, <1>5, <3>1, <3>2
    <3>4. t <= u => Height(t, q) <= Height(u, r)
      BY <3>1, <3>2
    <3> HIDE DEF Height
    <3> QED BY <1>1, <2>2, <3>3, <3>4
  <2> QED BY <2>1, <2>2
<1> QED BY <1>4, <1>5

LEMMA GreatestExists ==
    ASSUME NEW s \in Seq(Nat)
    PROVE  \E m \in {0} \cup Range(s) : \A t \in {0} \cup Range(s) : t <= m
<1> DEFINE n == Len(s)
           To(k) == {0} \cup {s[i] : i \in 1 .. k}
           None == {k \in 0 .. n : ~\E m \in To(k) : \A t \in To(k) : t <= m}
<1>1. n \in Nat /\ DOMAIN s = 1 .. n /\ \A i \in 1 .. n : s[i] \in Nat
  OBVIOUS
<1>2. {0} \cup Range(s) = To(n)
  BY <1>1 DEF Range
<1> SUFFICES ASSUME None # {} PROVE FALSE
  <2>1. n \in 0 .. n
    BY <1>1
  <2> HIDE DEF To, n
  <2>2. n \notin None => \E m \in To(n) : \A t \in To(n) : t <= m
    BY <2>1
  <2> HIDE DEF None
  <2> QED BY <1>2, <2>2
<1> HIDE DEF n
<1>3. PICK k \in None : \A j \in None : k <= j
  <2>1. None \subseteq Nat
    BY <1>1
  <2> HIDE DEF None
  <2> QED BY <2>1, LeastNumber
<1>4. k \in 0 .. n /\ ~\E m \in To(k) : \A t \in To(k) : t <= m
  OBVIOUS
<1>5. k # 0
  <2>1. To(0) = {0}
    OBVIOUS
  <2> HIDE DEF To
  <2>2. 0 <= 0
    OBVIOUS
  <2> QED BY <1>4, <2>1, <2>2
<1>6. k - 1 \in 0 .. n /\ k \in 1 .. n
  BY <1>1, <1>4, <1>5
<1>7. PICK m \in To(k - 1) : \A t \in To(k - 1) : t <= m
  <2>1. k - 1 \notin None
    <3>1. k \in Nat /\ ~(k <= k - 1)
      BY <1>6
    <3> HIDE DEF None
    <3> QED BY <1>3, <3>1
  <2> QED BY <1>6, <2>1
<1>8. To(k) = To(k - 1) \cup {s[k]}
  BY <1>1, <1>6
<1>9. To(k - 1) \subseteq Nat /\ s[k] \in Nat
  BY <1>1, <1>6
<1> HIDE DEF To, None
<1> QED BY <1>4, <1>7, <1>8, <1>9

LEMMA DaysShown ==
    ASSUME NEW answers \in Seq(AtMostOne(Nat)) \ {<<>>}, FetchUsage(answers) # <<>>
    PROVE  LET days == LastDays(FetchUsage(answers)[1])
               data == UsageData(FetchUsage(answers)[1])
           IN  \A i, j \in DOMAIN days :
                  /\ days[i] <= data.peak /\ data.heights[i] \in 0 .. 100
                  /\ days[i] = 0 <=> data.heights[i] = 0
                  /\ days[i] = data.peak /\ days[i] # 0 => data.heights[i] = 100
                  /\ days[i] <= days[j] => data.heights[i] <= data.heights[j]
<1> DEFINE all == [i \in DOMAIN answers |-> IF answers[i] = <<>> THEN 0 ELSE answers[i][1]]
           days == LastDays(all)
           tokens == {0} \cup Range(days)
           most == CHOOSE m \in tokens : \A t \in tokens : t <= m
           data == UsageData(all)
<1>1. FetchUsage(answers)[1] = all
  <2>1. FetchUsage(answers) = <<all>>
    BY Zenon DEF FetchUsage
  <2> QED BY <2>1
<1>2. all \in Seq(Nat)
  <2>1. \A i \in DOMAIN answers : (IF answers[i] = <<>> THEN 0 ELSE answers[i][1]) \in Nat
    <3> TAKE i \in DOMAIN answers
    <3>1. answers[i] \in AtMostOne(Nat)
      OBVIOUS
    <3> QED BY <3>1 DEF AtMostOne
  <2> QED BY <2>1
<1> HIDE DEF all
<1>3. days \in Seq(Nat)
  <2> DEFINE n == Len(all)
             first == IF n > 7 THEN n - 6 ELSE 1
  <2>1. n \in Nat /\ first \in 1 .. n + 1
    BY <1>2
  <2>2. days = SubSeq(all, first, n)
    BY DEF LastDays
  <2> HIDE DEF first, days
  <2> QED BY <1>2, <2>1, <2>2, SubSeqProperties
<1>4. data.heights = [i \in DOMAIN days |-> UsageBarHeight(days[i], most)] /\ data.peak = most
  <2>1. data = [heights |-> [i \in DOMAIN days |-> UsageBarHeight(days[i], most)],
                peak |-> most, total |-> FoldLeft(+, 0, days)]
    BY Zenon DEF UsageData
  <2> HIDE DEF days, most, data
  <2> QED BY <2>1
<1> HIDE DEF days, data
<1>5. tokens \subseteq Nat /\ \A i \in DOMAIN days : days[i] \in tokens
  BY <1>3 DEF Range
<1>6. most \in tokens /\ \A t \in tokens : t <= most
  BY <1>3, GreatestExists
<1> HIDE DEF tokens, most
<1>7. most \in Nat /\ \A i \in DOMAIN days : days[i] \in 0 .. most
  <2>1. most \in Nat
    BY <1>5, <1>6
  <2>2. ASSUME NEW i \in DOMAIN days PROVE days[i] \in 0 .. most
    <3>1. days[i] \in Nat /\ days[i] <= most
      BY <1>5, <1>6
    <3> QED BY <2>1, <3>1
  <2> QED BY <2>1, <2>2
<1>8. ASSUME NEW i \in DOMAIN days, NEW j \in DOMAIN days
      PROVE  /\ days[i] <= data.peak /\ data.heights[i] \in 0 .. 100
             /\ days[i] = 0 <=> data.heights[i] = 0
             /\ days[i] = data.peak /\ days[i] # 0 => data.heights[i] = 100
             /\ days[i] <= days[j] => data.heights[i] <= data.heights[j]
  <2> DEFINE t == days[i]
             u == days[j]
  <2>1. /\ data.heights[i] = UsageBarHeight(t, most) /\ data.heights[j] = UsageBarHeight(u, most)
        /\ data.peak = most
    BY <1>4
  <2>2. t \in 0 .. most /\ u \in 0 .. most
    BY <1>7
  <2> HIDE DEF t, u
  <2>3. /\ UsageBarHeight(t, most) \in 0 .. 100
        /\ t = 0 <=> UsageBarHeight(t, most) = 0
        /\ t = most /\ t # 0 => UsageBarHeight(t, most) = 100
        /\ t <= u => UsageBarHeight(t, most) <= UsageBarHeight(u, most)
    BY <1>7, <2>2, HeightFacts
  <2>4. t <= most
    BY <1>7, <2>2
  <2> DEFINE h == data.heights[i]
             g == data.heights[j]
  <2>5. h = UsageBarHeight(t, most) /\ g = UsageBarHeight(u, most)
    BY <2>1
  <2> HIDE DEF h, g
  <2>6. /\ t <= most /\ h \in 0 .. 100
        /\ t = 0 <=> h = 0
        /\ t = most /\ t # 0 => h = 100
        /\ t <= u => h <= g
    BY <2>3, <2>4, <2>5
  <2> QED BY <2>1, <2>6 DEF t, u, h, g
<1> QED BY <1>1, <1>8 DEF days, data

(* Of the days shown one has a bar exactly when it has tokens, the bars are in
   the order of the tokens, and the peak is as high as a bar can be
   (viewmodel.go:320). *)
THEOREM UsageIsShown == UsageShown
<1>1. UsageDays \subseteq Seq(AtMostOne(Nat)) \ {<<>>}
  BY InputsAssumption
<1> SUFFICES ASSUME NEW answers \in UsageDays, FetchUsage(answers) # <<>>
             PROVE  LET days == LastDays(FetchUsage(answers)[1])
                        data == UsageData(FetchUsage(answers)[1])
                    IN  \A i, j \in DOMAIN days :
                           /\ days[i] <= data.peak /\ data.heights[i] \in 0 .. 100
                           /\ days[i] = 0 <=> data.heights[i] = 0
                           /\ days[i] = data.peak /\ days[i] # 0 => data.heights[i] = 100
                           /\ days[i] <= days[j] => data.heights[i] <= data.heights[j]
  BY DEF UsageShown
<1> QED BY <1>1, DaysShown

-----------------------------------------------------------------------------
(* The configured rows, and the theorem. *)

LEMMA RowsParsed ==
    ASSUME NEW slots \in Seq(Seq(STRING))
    PROVE  LET rows == ParseDisplayProviders(slots)
           IN  /\ Len(rows) <= 5
               /\ \A i, j \in DOMAIN rows : rows[i].group = rows[j].group => i = j
<1> DEFINE Canonical(id) == CASE id \in {"anthropic"} -> "claude"
                              [] id = "anti-gravity" -> "antigravity"
                              [] id = "grok" -> "xai"
                              [] id \in {"opencode-go", "opencode-go-oauth"} -> "opencode"
                              [] OTHER -> id
           named == Only(slots, {i \in DOMAIN slots : slots[i] # <<>>})
           Of(slot) == Arranged(<<>>, [i \in DOMAIN slot |-> [id |-> Canonical(slot[i])]])
           parsed == [i \in DOMAIN named |-> [ids |-> Of(named[i]), group |-> Of(named[i])[1]]]
           removed == {"gemini", "gemini-cli", "gemini-cli-oauth", "google"}
           refused == \/ \E i \in DOMAIN named : Range(named[i]) \cap (removed \cup {""}) # {}
                      \/ \E i, j \in DOMAIN parsed : i # j /\ parsed[i].group = parsed[j].group
           rows == ParseDisplayProviders(slots)
<1>1. rows = IF slots = <<>> THEN DefaultDisplayProviders
             ELSE IF parsed = <<>> \/ Len(parsed) > 5 \/ refused THEN <<>> ELSE parsed
  BY Zenon DEF ParseDisplayProviders
<1>2. named \in Seq(Seq(STRING))
  BY OnlyMembers
<1> HIDE DEF named, Of, parsed, rows
<1>3. ~refused => \A i, j \in DOMAIN parsed : parsed[i].group = parsed[j].group => i = j
  OBVIOUS
<1> HIDE DEF refused
<1>4. Len(parsed) \in Nat
  <2>1. DOMAIN named = 1 .. Len(named) /\ Len(named) \in Nat
    BY <1>2
  <2> QED BY <2>1 DEF parsed
<1>5. CASE slots = <<>>
  <2>1. rows = <<[ids |-> <<"codex">>, group |-> "codex"], [ids |-> <<"xai">>, group |-> "xai"],
                 [ids |-> <<"kimi">>, group |-> "kimi"]>>
    BY <1>1, <1>5 DEF DefaultDisplayProviders
  <2>2. Len(rows) = 3 /\ DOMAIN rows = {1, 2, 3}
    BY <2>1
  <2>3. rows[1].group = "codex" /\ rows[2].group = "xai" /\ rows[3].group = "kimi"
    BY <2>1
  <2> QED BY <2>2, <2>3 DEF rows
<1>6. CASE slots # <<>> /\ (parsed = <<>> \/ Len(parsed) > 5 \/ refused)
  <2>1. rows = <<>>
    BY <1>1, <1>6
  <2>2. Len(rows) = 0 /\ DOMAIN rows = {}
    BY <2>1
  <2> QED BY <2>2 DEF rows
<1>7. CASE slots # <<>> /\ ~(parsed = <<>> \/ Len(parsed) > 5 \/ refused)
  <2>1. rows = parsed /\ Len(parsed) <= 5
    BY <1>1, <1>4, <1>7
  <2> QED BY <1>3, <1>7, <2>1 DEF rows
<1> QED BY <1>5, <1>6, <1>7

(* The rows that are configured are at most five, of a group each
   (config.go, ParseDisplayProviders). *)
THEOREM RowsAreConfigured == RowsConfigured
<1>1. Slots \subseteq Seq(Seq(STRING))
  BY InputsAssumption
<1> SUFFICES ASSUME NEW slots \in Slots
             PROVE  LET rows == ParseDisplayProviders(slots)
                    IN  /\ Len(rows) <= 5
                        /\ \A i, j \in DOMAIN rows : rows[i].group = rows[j].group => i = j
  BY DEF RowsConfigured
<1> QED BY <1>1, RowsParsed

(* The percentages, the cards, the usage and the rows of the frame are those
   that the answers of the providers report, for every set of accounts and every
   answer of the types Inputs gives them, in the rows that ShownAsReported is
   about. *)
THEOREM ShownAsReportedHolds == Spec => []ShownAsReported
<1>1. ShownAsReported
  BY PercentagesAreShown, CardsAreShown, UsageIsShown, RowsAreConfigured DEF ShownAsReported
<1> QED BY <1>1, PTL

=============================================================================

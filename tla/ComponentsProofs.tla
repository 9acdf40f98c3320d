-------------------------- MODULE ComponentsProofs --------------------------
(***************************************************************************)
(* Proofs about the graph with DFS and the programs that work on it, for   *)
(* graphs of any order with any number of arcs.                            *)
(***************************************************************************)
EXTENDS Programs, CommonLemmas, FiniteSetTheorems, FunctionTheorems, SequenceTheorems, TLAPS

-----------------------------------------------------------------------------
(* The graph of FindComponents, and how many arcs it has                   *)
\* The lists are strictly increasing.
Strict(g, n) == \A x \in 1 .. n : Rises(g.neighbors[x], 1)

\* The places in the lists of the vertices up to m.
Slots(g, m) == UNION {{x} \X DOMAIN g.neighbors[x] : x \in 1 .. m}

\* Which places of the adjacency lists are slots.
LEMMA InSlots ==
  ASSUME NEW g, NEW m, NEW p
  PROVE  p \in Slots(g, m) <=>
           \E x \in 1 .. m : \E k \in DOMAIN g.neighbors[x] : p = <<x, k>>
  BY DEF Slots

\* The slots of one more vertex are as many more as its list is long.
LEMMA MoreSlots ==
  ASSUME NEW g, NEW n \in Nat, IsDigraph(g, n), NEW m \in Nat, m < n,
         IsFiniteSet(Slots(g, m))
  PROVE  /\ IsFiniteSet(Slots(g, m + 1))
         /\ Cardinality(Slots(g, m + 1))
              = Cardinality(Slots(g, m)) + Len(g.neighbors[m + 1])
  <1> DEFINE L == g.neighbors[m + 1]
             T == {m + 1} \X (1 .. Len(L))
  <1>1. L \in Seq(1 .. n)
    BY SMTT(60) DEF IsDigraph
  <1>2. DOMAIN L = 1 .. Len(L) /\ Len(L) \in Nat
    BY <1>1, LenProperties
  <1> HIDE DEF L
  <1>3. IsFiniteSet(T) /\ Cardinality(T) = Len(L)
    <2>1. IsFiniteSet({m + 1}) /\ Cardinality({m + 1}) = 1
      BY FS_Singleton
    <2>2. IsFiniteSet(1 .. Len(L)) /\ Cardinality(1 .. Len(L)) = Len(L)
      <3>1. PICK l \in Nat : l = Len(L)
        BY <1>2
      <3>2. /\ IsFiniteSet(1 .. l)
            /\ Cardinality(1 .. l) = IF 1 > l THEN 0 ELSE l - 1 + 1
        <4>1. 1 \in Int /\ l \in Int
          OBVIOUS
        <4>2. QED
          BY <4>1, FS_Interval
      <3>3. QED
        BY <3>1, <3>2
    <2>3. IsFiniteSet(T) /\ Cardinality(T) = Cardinality({m + 1}) * Cardinality(1 .. Len(L))
      BY <2>1, <2>2, FS_Product
    <2>4. QED
      BY <1>2, <2>1, <2>2, <2>3
  <1>4. Slots(g, m + 1) = Slots(g, m) \cup T
    <2>1. ASSUME NEW p PROVE p \in Slots(g, m + 1) <=> p \in Slots(g, m) \cup T
      <3>1. p \in T <=> \E k \in DOMAIN L : p = <<m + 1, k>>
        BY <1>2
      <3>2. \A x : x \in 1 .. (m + 1) <=> x \in 1 .. m \/ x = m + 1
        OBVIOUS
      <3>3. p \in Slots(g, m) <=>
              \E x \in 1 .. m : \E k \in DOMAIN g.neighbors[x] : p = <<x, k>>
        BY InSlots
      <3>4. p \in Slots(g, m + 1) <=>
              \E x \in 1 .. (m + 1) : \E k \in DOMAIN g.neighbors[x] : p = <<x, k>>
        BY InSlots
      <3>5. QED
        BY <3>1, <3>2, <3>3, <3>4 DEF L
    <2>2. QED
      BY <2>1
  <1>5. Slots(g, m) \cap T = {}
    <2>1. ASSUME NEW p \in Slots(g, m), p \in T PROVE FALSE
      <3>1. PICK x \in 1 .. m : \E k \in DOMAIN g.neighbors[x] : p = <<x, k>>
        BY InSlots
      <3>2. PICK k : p = <<x, k>>
        BY <3>1
      <3>3. x = m + 1
        BY <2>1, <3>2
      <3>4. QED
        BY <3>1, <3>3
    <2>2. QED
      BY <2>1
  <1> HIDE DEF T
  <1>6. /\ IsFiniteSet(Slots(g, m) \cup T)
        /\ Cardinality(Slots(g, m) \cup T)
             = Cardinality(Slots(g, m)) + Cardinality(T) - Cardinality(Slots(g, m) \cap T)
    BY <1>3, FS_Union
  <1>7. Cardinality(Slots(g, m) \cap T) = 0 /\ Cardinality(Slots(g, m)) \in Nat
    BY <1>5, FS_EmptySet, FS_CardinalityType
  <1>8. Cardinality(Slots(g, m + 1)) = Cardinality(Slots(g, m)) + Len(L)
    <2>1. PICK a \in Nat, b \in Nat : a = Cardinality(Slots(g, m)) /\ b = Len(L)
      BY <1>2, <1>7
    <2>2. Cardinality(Slots(g, m + 1)) = a + b - 0
      BY <1>3, <1>4, <1>6, <1>7, <2>1
    <2>3. a + b - 0 = a + b
      OBVIOUS
    <2>4. QED
      BY <2>1, <2>2, <2>3, SMTT(30)
  <1>9. QED
    BY <1>4, <1>6, <1>8 DEF L

\* No vertex, no slot.
LEMMA NoSlots ==
  ASSUME NEW g
  PROVE  Slots(g, 0) = {} /\ IsFiniteSet(Slots(g, 0)) /\ Cardinality(Slots(g, 0)) = 0
  <1>1. Slots(g, 0) = {}
    BY DEF Slots
  <1>2. QED
    BY <1>1, FS_EmptySet

\* Slots can be counted.
LEMMA SlotsAreFinite ==
  ASSUME NEW g, NEW n \in Nat, IsDigraph(g, n)
  PROVE  \A m \in 0 .. n : IsFiniteSet(Slots(g, m)) /\ Cardinality(Slots(g, m)) \in Nat
  <1> DEFINE P == {m \in Nat : m <= n => IsFiniteSet(Slots(g, m))}
  <1>1. 0 \in P
    BY NoSlots
  <1>2. ASSUME NEW m \in P PROVE m + 1 \in P
    <2>1. ASSUME m + 1 <= n PROVE IsFiniteSet(Slots(g, m + 1))
      <3>1. m \in Nat /\ m < n /\ IsFiniteSet(Slots(g, m))
        BY <2>1
      <3>2. QED
        BY <3>1, MoreSlots
    <2>2. QED
      BY <2>1
  <1>3. P \in SUBSET Nat
    OBVIOUS
  <1> HIDE DEF P
  <1>4. P = Nat
    BY <1>1, <1>2, <1>3, EveryNat
  <1>5. \A m \in 0 .. n : IsFiniteSet(Slots(g, m))
    BY <1>4 DEF P
  <1>6. QED
    BY <1>5, FS_CardinalityType

\* The number of arcs is the number of slots, and a list has its vertex's successors.
LEMMA NumArcsIs ==
  ASSUME NEW g, NEW n \in Nat, IsDigraph(g, n)
  PROVE  /\ Components!NumArcs(g) = Cardinality(Slots(g, n))
         /\ Components!Vertices(g) = 1 .. n /\ Len(g.neighbors) = n
         /\ \A x \in 1 .. n : g.neighbors[x] \in Seq(1 .. n)
         /\ \A x \in 1 .. n : \A y : y \in Components!ToSet(g.neighbors[x]) <=> IsArc(g, x, y)
  <1>1. g.neighbors \in [1 .. n -> Seq(1 .. n)]
    BY DEF IsDigraph
  <1>2. Components!Vertices(g) = 1 .. n /\ Len(g.neighbors) = n
    BY <1>1, FunIsSeq DEF Components!Vertices
  <1>3. \A x \in 1 .. n : \A y : y \in Components!ToSet(g.neighbors[x]) <=> IsArc(g, x, y)
    BY <1>1 DEF Components!ToSet, IsArc
  <1>4. Components!NumArcs(g) = Cardinality(Slots(g, n))
    BY <1>2 DEF Components!NumArcs, Slots, Components!Cardinality, Cardinality
  <1>5. QED
    BY <1>1, <1>2, <1>3, <1>4

\* h is g with an arc from x to y that was not there.
Entered(h, g, n, x, y) ==
  /\ IsDigraph(h, n) /\ Strict(h, n)
  /\ h.size = g.size + 1
  /\ Cardinality(Slots(h, n)) = Cardinality(Slots(g, n)) + 1
  /\ \A a \in 1 .. n : \A b : IsArc(h, a, b) <=> IsArc(g, a, b) \/ (a = x /\ b = y)

\* addArc of a new arc enters it and makes one slot more.
LEMMA EntersArc ==
  ASSUME NEW g, NEW n \in Nat, IsDigraph(g, n), Strict(g, n),
         NEW x \in 1 .. n, NEW y \in 1 .. n, ~IsArc(g, x, y)
  PROVE  Entered(Components!addArc(g, x, y), g, n, x, y)
  <1> DEFINE L == g.neighbors[x]
             S == {0} \cup {k \in DOMAIN L : L[k] <= y}
             at == Components!Max(S)
             h == Components!addArc(g, x, y)
             M == Inserted(L, at, y)
  <1>1. g.neighbors \in [1 .. n -> Seq(1 .. n)] /\ g.size \in Int
    BY DEF IsDigraph
  <1>2. L \in Seq(1 .. n) /\ Len(L) \in Nat /\ DOMAIN L = 1 .. Len(L)
    <2>1. L \in Seq(1 .. n)
      BY <1>1
    <2>2. QED
      BY <2>1, LenProperties
  <1>3. S \in SUBSET Nat /\ 0 \in S /\ \A k \in S : k <= Len(L)
    BY <1>2
  <1>4. \E m \in S : \A k \in S : m >= k
    <2> HIDE DEF S
    <2>1. QED
      BY <1>2, <1>3, HasGreatest
  <1>5. at \in S /\ \A k \in S : at >= k
    BY <1>4 DEF Components!Max
  <1> HIDE DEF at, L
  <1>6. Behind(L, y, at)
    <2>1. at \in 0 .. Len(L) /\ (at > 0 => L[at] <= y)
      BY <1>2, <1>3, <1>5
    <2>2. ASSUME at < Len(L), L[at + 1] <= y PROVE FALSE
      <3>1. at + 1 \in DOMAIN L /\ ~(at >= at + 1)
        BY <1>2, <2>1, <2>2
      <3>2. at + 1 \in S
        BY <2>2, <3>1
      <3>3. QED
        BY <1>5, <3>1, <3>2
    <2>3. QED
      BY <2>1, <2>2 DEF Behind
  <1>7. h = [g EXCEPT !.neighbors[x] = M, !.size = @ + 1]
    <2>1. at \in Nat /\ (at + 1) - 1 = at
      BY <1>3, <1>5
    <2>2. y \notin Components!ToSet(g.neighbors[x])
      BY NumArcsIs
    <2>3. h = [g EXCEPT !.neighbors[x] = Components!InsertAt(L, at + 1, y), !.size = @ + 1]
      BY <2>2 DEF Components!addArc, L, at
    <2>4. Components!InsertAt(L, at + 1, y) = M
      BY DEF Components!InsertAt, Inserted
    <2>5. QED
      BY <2>3, <2>4
  <1> HIDE DEF S, h
  <1>8. at \in 0 .. Len(L)
    BY <1>6 DEF Behind
  <1>9. /\ M \in Seq(1 .. n) /\ Len(M) = Len(L) + 1
        /\ \A i \in 1 .. (Len(L) + 1) :
             M[i] = IF i <= at THEN L[i] ELSE IF i = at + 1 THEN y ELSE L[i - 1]
    <2>1. PICK T : T = 1 .. n
      OBVIOUS
    <2>2. L \in Seq(T) /\ y \in T
      BY <1>2, <2>1
    <2>3. M \in Seq(T)
      BY <1>8, <2>2, InsertedIs
    <2>4. Len(M) = Len(L) + 1
      BY <1>8, <2>2, InsertedIs
    <2>5. \A i \in 1 .. (Len(L) + 1) :
             M[i] = IF i <= at THEN L[i] ELSE IF i = at + 1 THEN y ELSE L[i - 1]
      BY <1>8, <2>2, InsertedIs
    <2>6. QED
      BY <2>1, <2>3, <2>4, <2>5
  <1> HIDE DEF M
  <1>10. /\ h.neighbors = [g.neighbors EXCEPT ![x] = M]
         /\ h.size = g.size + 1 /\ IsDigraph(h, n)
    <2> DEFINE nb == [g.neighbors EXCEPT ![x] = M]
    <2>1. nb \in [1 .. n -> Seq(1 .. n)]
      BY <1>1, <1>9
    <2>2. g.size + 1 \in Int
      BY <1>1
    <2> HIDE DEF nb
    <2>3. h = [g EXCEPT !.neighbors = nb, !.size = g.size + 1]
      BY <1>7 DEF nb, IsDigraph
    <2>4. h.neighbors = nb /\ h.size = g.size + 1 /\ IsDigraph(h, n)
      BY <2>1, <2>2, <2>3 DEF IsDigraph
    <2>5. QED
      BY <2>4 DEF nb
  <1>11. \A v \in 1 .. n : h.neighbors[v] = IF v = x THEN M ELSE g.neighbors[v]
    BY <1>1, <1>10
  <1>12. \A k \in 1 .. Len(L) : L[k] # y /\ L[k] \in 1 .. n
    <2>1. \A k \in 1 .. Len(L) : L[k] # y
      BY <1>2 DEF IsArc, L
    <2>2. QED
      BY <1>2, <2>1, ElementOfSeq
  <1>13. Strict(h, n)
    <2>1. Rises(L, 1)
      BY DEF Strict, L
    <2>2. at > 0 => L[at] + 1 <= y
      <3>1. SUFFICES ASSUME at > 0 PROVE L[at] + 1 <= y
        OBVIOUS
      <3>2. at \in 1 .. Len(L) /\ L[at] <= y
        BY <1>2, <1>6, <1>8, <3>1 DEF Behind
      <3>3. QED
        BY <1>12, <3>2
    <2>3. at < Len(L) => y + 1 <= L[at + 1]
      <3>1. SUFFICES ASSUME at < Len(L) PROVE y + 1 <= L[at + 1]
        OBVIOUS
      <3>2. at + 1 \in 1 .. Len(L) /\ ~(L[at + 1] <= y)
        BY <1>2, <1>6, <1>8, <3>1 DEF Behind
      <3>3. QED
        BY <1>12, <3>2
    <2>4. Rises(M, 1)
      BY <1>2, <1>6, <2>1, <2>2, <2>3, StaysRising DEF M
    <2>5. QED
      BY <1>11, <2>4 DEF Strict
  <1>14. Cardinality(Slots(h, n)) = Cardinality(Slots(g, n)) + 1
    <2> DEFINE p == <<x, Len(L) + 1>>
    <2>1. DOMAIN M = 1 .. (Len(L) + 1)
      BY <1>9, LenProperties
    <2>2. ASSUME NEW q PROVE q \in Slots(h, n) <=> q \in Slots(g, n) \cup {p}
      <3>1. q \in Slots(h, n) <=>
              \E a \in 1 .. n : \E k \in DOMAIN h.neighbors[a] : q = <<a, k>>
        BY InSlots
      <3>2. q \in Slots(g, n) <=>
              \E a \in 1 .. n : \E k \in DOMAIN g.neighbors[a] : q = <<a, k>>
        BY InSlots
      <3>3. \A a \in 1 .. n : \A k : k \in DOMAIN h.neighbors[a] <=>
              k \in DOMAIN g.neighbors[a] \/ (a = x /\ k = Len(L) + 1)
        <4>1. ASSUME NEW a \in 1 .. n, a # x PROVE h.neighbors[a] = g.neighbors[a]
          BY <1>11, <4>1
        <4>2. h.neighbors[x] = M /\ g.neighbors[x] = L
          BY <1>11 DEF L
        <4>3. \A k : k \in 1 .. (Len(L) + 1) <=> k \in 1 .. Len(L) \/ k = Len(L) + 1
          BY <1>2
        <4>4. QED
          BY <1>2, <2>1, <4>1, <4>2, <4>3
      <3>4. QED
        BY <3>1, <3>2, <3>3
    <2>3. p \notin Slots(g, n)
      <3>1. ASSUME NEW a \in 1 .. n, NEW k \in DOMAIN g.neighbors[a], p = <<a, k>> PROVE FALSE
        <4>1. a = x /\ k = Len(L) + 1
          BY <3>1
        <4>2. QED
          BY <1>2, <4>1 DEF L
      <3>2. QED
        BY <3>1, InSlots
    <2>4. Slots(h, n) = Slots(g, n) \cup {p}
      BY <2>2
    <2>5. IsFiniteSet(Slots(g, n))
      BY SlotsAreFinite
    <2>6. Cardinality(Slots(g, n) \cup {p}) = Cardinality(Slots(g, n)) + 1
      BY <2>3, <2>5, FS_AddElement
    <2>7. QED
      BY <2>4, <2>6
  <1>15. ASSUME NEW a \in 1 .. n, NEW b
         PROVE  IsArc(h, a, b) <=> IsArc(g, a, b) \/ (a = x /\ b = y)
    <2>1. CASE a # x
      BY <1>11, <2>1 DEF IsArc
    <2>2. CASE a = x
      <3>1. IsArc(h, a, b) <=> \E i \in 1 .. (Len(L) + 1) : M[i] = b
        <4>1. DOMAIN M = 1 .. (Len(L) + 1)
          BY <1>9, LenProperties
        <4>2. h.neighbors[a] = M
          BY <1>11, <2>2
        <4>3. QED
          BY <4>1, <4>2 DEF IsArc
      <3>2. IsArc(g, a, b) <=> \E i \in 1 .. Len(L) : L[i] = b
        BY <1>2, <2>2 DEF IsArc, L
      <3>3. ASSUME NEW i \in 1 .. (Len(L) + 1), M[i] = b
            PROVE  b = y \/ \E k \in 1 .. Len(L) : L[k] = b
        <4>1. CASE i <= at
          <5>1. i \in 1 .. Len(L) /\ L[i] = b
            BY <1>2, <1>8, <1>9, <3>3, <4>1
          <5>2. QED
            BY <5>1
        <4>2. CASE i = at + 1
          <5>1. ~(i <= at)
            BY <1>8, <4>2
          <5>2. QED
            BY <1>9, <3>3, <4>2, <5>1
        <4>3. CASE i > at + 1
          <5>1. i - 1 \in 1 .. Len(L) /\ ~(i <= at) /\ i # at + 1
            BY <1>2, <1>8, <4>3
          <5>2. L[i - 1] = b
            BY <1>9, <3>3, <5>1
          <5>3. QED
            BY <5>1, <5>2
        <4>4. QED
          BY <1>2, <1>8, <4>1, <4>2, <4>3
      <3>4. M[at + 1] = y /\ at + 1 \in 1 .. (Len(L) + 1)
        <4>1. at + 1 \in 1 .. (Len(L) + 1) /\ ~(at + 1 <= at)
          BY <1>2, <1>8
        <4>2. QED
          BY <1>9, <4>1
      <3>5. ASSUME NEW k \in 1 .. Len(L), L[k] = b
            PROVE  \E i \in 1 .. (Len(L) + 1) : M[i] = b
        <4>1. CASE k <= at
          <5>1. k \in 1 .. (Len(L) + 1)
            BY <1>2
          <5>2. M[k] = b
            BY <1>9, <3>5, <4>1, <5>1
          <5>3. QED
            BY <5>1, <5>2
        <4>2. CASE ~(k <= at)
          <5>1. k + 1 \in 1 .. (Len(L) + 1) /\ ~(k + 1 <= at) /\ k + 1 # at + 1 /\ (k + 1) - 1 = k
            BY <1>2, <1>8, <4>2
          <5>2. M[k + 1] = b
            BY <1>9, <3>5, <5>1, SMTT(30)
          <5>3. QED
            BY <5>1, <5>2
        <4>3. QED
          BY <4>1, <4>2
      <3>6. QED
        BY <2>2, <3>1, <3>2, <3>3, <3>4, <3>5
    <2>3. QED
      BY <2>1, <2>2
  <1>16. QED
    BY <1>10, <1>13, <1>14, <1>15 DEF Entered, h

\* What addArc gives, whether the arc was there or not.
LEMMA AddsArc ==
  ASSUME NEW g, NEW n \in Nat, IsDigraph(g, n), Strict(g, n),
         NEW x \in 1 .. n, NEW y \in 1 .. n
  PROVE  IF IsArc(g, x, y) THEN Components!addArc(g, x, y) = g
         ELSE Entered(Components!addArc(g, x, y), g, n, x, y)
  <1>1. CASE IsArc(g, x, y)
    <2>1. y \in Components!ToSet(g.neighbors[x])
      BY <1>1, NumArcsIs
    <2>2. QED
      BY <1>1, <2>1 DEF Components!addArc
  <1>2. CASE ~IsArc(g, x, y)
    BY <1>2, EntersArc
  <1>3. QED
    BY <1>1, <1>2

(* The arcs that Arcs lists after k vertices: as many as there are places, *)
(* each once.                                                              *)
Listed(q, g, n, k) ==
  /\ q \in Seq((1 .. n) \X (1 .. n))
  /\ Len(q) = Cardinality(Slots(g, k))
  /\ \A i \in 1 .. Len(q) : q[i][1] <= k
  /\ \A i, j \in 1 .. Len(q) : q[i] = q[j] => i = j
  /\ \A x, y \in 1 .. n : Has(q, Len(q), <<x, y>>) <=> x <= k /\ IsArc(g, x, y)

\* The arcs of x.
HasArcsOf(q, l, g, x) == \A e : Has(q, l, e) <=> \E y : e = <<x, y>> /\ IsArc(g, x, y)

ArcsOf(g, x) == [k \in DOMAIN g.neighbors[x] |-> <<x, g.neighbors[x][k]>>]

\* The arcs of x, as listed: each once.
LEMMA ArcsOfIs ==
  ASSUME NEW g, NEW n \in Nat, IsDigraph(g, n), Strict(g, n), NEW x \in 1 .. n
  PROVE  /\ ArcsOf(g, x) \in Seq((1 .. n) \X (1 .. n))
         /\ Len(ArcsOf(g, x)) = Len(g.neighbors[x]) /\ Len(g.neighbors[x]) \in Nat
         /\ \A i \in 1 .. Len(g.neighbors[x]) : ArcsOf(g, x)[i][1] = x
         /\ \A i, j \in 1 .. Len(g.neighbors[x]) : ArcsOf(g, x)[i] = ArcsOf(g, x)[j] => i = j
         /\ HasArcsOf(ArcsOf(g, x), Len(g.neighbors[x]), g, x)
  <1> DEFINE L == g.neighbors[x]
             r == ArcsOf(g, x)
  <1>1. L \in Seq(1 .. n)
    BY DEF IsDigraph
  <1>2. Len(L) \in Nat /\ DOMAIN L = 1 .. Len(L) /\ \A i \in 1 .. Len(L) : L[i] \in 1 .. n
    BY <1>1, LenProperties, ElementOfSeq
  <1>3. Rises(L, 1)
    BY DEF Strict
  <1>4. r = [k \in 1 .. Len(L) |-> <<x, L[k]>>]
    BY <1>2 DEF ArcsOf
  <1> HIDE DEF L, r
  <1>5. r \in [1 .. Len(L) -> (1 .. n) \X (1 .. n)]
    BY <1>2, <1>4
  <1>6. r \in Seq((1 .. n) \X (1 .. n)) /\ Len(r) = Len(L)
    BY <1>2, <1>5, FunIsSeq
  <1>7. \A i \in 1 .. Len(L) : r[i] = <<x, L[i]>>
    BY <1>4
  <1>8. \A i, j \in 1 .. Len(L) : i < j => L[i] < L[j]
    BY <1>1, <1>3, RisesApart
  <1>9. \A i, j \in 1 .. Len(L) : r[i] = r[j] => i = j
    <2>1. SUFFICES ASSUME NEW i \in 1 .. Len(L), NEW j \in 1 .. Len(L), r[i] = r[j]
                   PROVE  i = j
      OBVIOUS
    <2>2. L[i] = L[j]
      BY <1>7, <2>1
    <2>3. ~(i < j) /\ ~(j < i)
      BY <1>2, <1>8, <2>2
    <2>4. QED
      BY <1>2, <2>3
  <1>10. HasArcsOf(r, Len(L), g, x)
    <2>1. \A y : IsArc(g, x, y) <=> \E k \in 1 .. Len(L) : L[k] = y
      BY <1>2 DEF IsArc, L
    <2>2. QED
      BY <1>7, <2>1 DEF Has, HasArcsOf
  <1>11. QED
    BY <1>2, <1>6, <1>7, <1>9, <1>10 DEF L, r

\* Arcs lists every arc of the graph once.
LEMMA ArcsAre ==
  ASSUME NEW g, NEW n \in Nat, IsDigraph(g, n), Strict(g, n)
  PROVE  Listed(Components!Arcs(g), g, n, n)
  <1> DEFINE B == Seq((1 .. n) \X (1 .. n))
             Along(f) == [s \in SUBSET (1 .. n) |->
                            IF s = {} THEN <<>>
                            ELSE f[s \ {Highest(s)}] \o ArcsOf(g, Highest(s))]
             step == [p \in (1 .. n) \X B |-> p[2] \o ArcsOf(g, p[1])]
             F == CHOOSE f : f = Along(f)
  <1>1. Components!Arcs(g) = F[1 .. n]
    <2> DEFINE q == [x \in 1 .. n |-> x]
               op(x) == [k \in DOMAIN g.neighbors[q[x]] |-> <<q[x], g.neighbors[q[x]][k]>>]
    <2>1. Components!Vertices(g) = 1 .. n
      BY NumArcsIs
    <2>2. DOMAIN q = 1 .. n
      OBVIOUS
    <2>3. Components!Arcs(g)
            = (CHOOSE f : f = [s \in SUBSET (DOMAIN q) |->
                                 IF s = {} THEN <<>>
                                 ELSE f[s \ {Components!Max(s)}] \o op(Components!Max(s))])[DOMAIN q]
      BY <2>1 DEF Components!Arcs, Components!FoldLeft, Components!MapThenFoldSet
    <2>4. \A s \in SUBSET (1 .. n) : s # {} =>
            op(Components!Max(s)) = ArcsOf(g, Highest(s))
      <3>1. SUFFICES ASSUME NEW s \in SUBSET (1 .. n), s # {}
                     PROVE  op(Components!Max(s)) = ArcsOf(g, Highest(s))
        OBVIOUS
      <3>2. Components!Max(s) = Highest(s)
        BY DEF Components!Max, Highest
      <3>3. Highest(s) \in 1 .. n
        BY <3>1, HighestIs
      <3>4. q[Highest(s)] = Highest(s)
        BY <3>3
      <3> HIDE DEF q
      <3>5. QED
        BY <3>2, <3>4 DEF ArcsOf
    <2>5. \A s : Components!Max(s) = Highest(s)
      BY DEF Components!Max, Highest
    <2> HIDE DEF op
    <2>6. \A f : [s \in SUBSET (DOMAIN q) |->
                    IF s = {} THEN <<>>
                    ELSE f[s \ {Components!Max(s)}] \o op(Components!Max(s))] = Along(f)
      BY <2>2, <2>4, <2>5
    <2> HIDE DEF q, Along
    <2>7. QED
      BY <2>2, <2>3, <2>6
  <1>2. <<>> \in B /\ \A x \in 1 .. n : ArcsOf(g, x) \in B
    BY ArcsOfIs
  <1>3. step \in [(1 .. n) \X B -> B]
    <2> HIDE DEF B
    <2>1. \A p \in (1 .. n) \X B : p[1] \in 1 .. n /\ p[2] \in B
      OBVIOUS
    <2>2. \A x \in 1 .. n : \A s \in B : s \o ArcsOf(g, x) \in B
      BY <1>2 DEF B
    <2>3. \A p \in (1 .. n) \X B : p[2] \o ArcsOf(g, p[1]) \in B
      BY <2>1, <2>2
    <2>4. QED
      BY <2>3
  <1>4. \A x \in 1 .. n : \A s \in B : step[<<x, s>>] = s \o ArcsOf(g, x)
    <2> HIDE DEF B
    <2>1. QED
      OBVIOUS
  <1> HIDE DEF step, B
  <1>5. PICK f \in [SUBSET (1 .. n) -> B] : Folding(f, step, <<>>, n)
    BY <1>2, <1>3, Folds
  <1>6. f = Along(f)
    <2>1. f = [s \in SUBSET (1 .. n) |->
                 IF s = {} THEN <<>> ELSE step[<<Highest(s), f[s \ {Highest(s)}]>>]]
      BY <1>5 DEF Folding
    <2>2. ASSUME NEW s \in SUBSET (1 .. n), s # {}
          PROVE  step[<<Highest(s), f[s \ {Highest(s)}]>>]
                   = f[s \ {Highest(s)}] \o ArcsOf(g, Highest(s))
      <3>1. Highest(s) \in 1 .. n
        BY <2>2, HighestIs
      <3>2. f[s \ {Highest(s)}] \in B
        BY <1>5
      <3>3. QED
        BY <1>4, <3>1, <3>2
    <2>3. QED
      BY <2>1, <2>2
  <1>7. F = Along(F)
    <2> HIDE DEF Along
    <2>1. QED
      BY <1>6
  <1> HIDE DEF F
  <1>8. F[{}] = <<>> /\ \A k \in 1 .. n : F[1 .. k] = F[1 .. (k - 1)] \o ArcsOf(g, k)
    <2>1. \A s \in SUBSET (1 .. n) :
            F[s] = IF s = {} THEN <<>> ELSE F[s \ {Highest(s)}] \o ArcsOf(g, Highest(s))
      BY <1>7
    <2>2. F[{}] = <<>>
      BY <2>1
    <2>3. ASSUME NEW k \in 1 .. n
          PROVE  F[1 .. k] = F[1 .. (k - 1)] \o ArcsOf(g, k)
      <3>1. /\ 1 .. k \in SUBSET (1 .. n) /\ 1 .. k # {}
            /\ Highest(1 .. k) = k /\ (1 .. k) \ {k} = 1 .. (k - 1)
        BY FirstOnes
      <3>2. QED
        BY <2>1, <3>1
    <2>4. QED
      BY <2>2, <2>3
  <1> HIDE DEF Along
  <1> DEFINE P == {k \in Nat : k <= n => Listed(F[1 .. k], g, n, k)}
  <1>9. 0 \in P
    <2>1. 1 .. 0 = {} /\ F[1 .. 0] = <<>>
      BY <1>8
    <2>2. Len(<<>>) = 0
      OBVIOUS
    <2>3. \A e : ~Has(<<>>, 0, e)
      BY DEF Has
    <2>4. Listed(<<>>, g, n, 0)
      BY <1>2, <2>2, <2>3, NoSlots DEF Listed, B
    <2>5. QED
      BY <2>1, <2>4
  <1>10. ASSUME NEW k \in P PROVE k + 1 \in P
    <2>0. k + 1 \in Nat
      OBVIOUS
    <2>1. SUFFICES ASSUME k + 1 <= n PROVE Listed(F[1 .. (k + 1)], g, n, k + 1)
      BY <2>0, Zenon
    <2>2. k \in Nat /\ k < n /\ k + 1 \in 1 .. n /\ (k + 1) - 1 = k
      BY <2>1
    <2>3. PICK q : q = F[1 .. k]
      OBVIOUS
    <2>4. PICK r : r = ArcsOf(g, k + 1)
      OBVIOUS
    <2>5. F[1 .. (k + 1)] = q \o r
      BY <1>8, <2>2, <2>3, <2>4
    <2>6. Listed(q, g, n, k)
      BY <2>2, <2>3
    <2>7. PICK l : l = Len(g.neighbors[k + 1])
      OBVIOUS
    <2>8. /\ r \in B /\ Len(r) = l /\ l \in Nat
          /\ \A i \in 1 .. l : r[i][1] = k + 1
          /\ \A i, j \in 1 .. l : r[i] = r[j] => i = j
          /\ HasArcsOf(r, l, g, k + 1)
      <3>1. PICK x \in 1 .. n : x = k + 1
        BY <2>2
      <3>2. r = ArcsOf(g, x) /\ l = Len(g.neighbors[x])
        BY <2>4, <2>7, <3>1
      <3>3. r \in B /\ Len(r) = l /\ l \in Nat
        BY <3>2, ArcsOfIs DEF B
      <3>4. \A i \in 1 .. l : r[i][1] = x
        <4>1. \A i \in 1 .. Len(g.neighbors[x]) : ArcsOf(g, x)[i][1] = x
          BY ArcsOfIs
        <4>2. QED
          BY <3>2, <4>1, Zenon
      <3>5. \A i, j \in 1 .. l : r[i] = r[j] => i = j
        <4>1. \A i, j \in 1 .. Len(g.neighbors[x]) : ArcsOf(g, x)[i] = ArcsOf(g, x)[j] => i = j
          BY ArcsOfIs
        <4>2. QED
          BY <3>2, <4>1, Zenon
      <3>6. HasArcsOf(r, l, g, x)
        BY <3>2, ArcsOfIs
      <3>7. QED
        BY <3>1, <3>3, <3>4, <3>5, <3>6
    <2>9. Listed(q \o r, g, n, k + 1)
      <3>1. q \in B /\ Len(q) \in Nat
        BY <2>6, LenProperties DEF Listed, B
      <3>2. /\ q \o r \in B /\ Len(q \o r) = Len(q) + l
            /\ \A i \in 1 .. (Len(q) + l) :
                 (q \o r)[i] = IF i <= Len(q) THEN q[i] ELSE r[i - Len(q)]
        <4>1. PICK T : T = (1 .. n) \X (1 .. n)
          OBVIOUS
        <4>2. q \in Seq(T) /\ r \in Seq(T)
          BY <2>8, <3>1, <4>1 DEF B
        <4>3. Len(r) = l
          BY <2>8
        <4>4. q \o r \in Seq(T) /\ Len(q \o r) = Len(q) + l
          BY <4>2, <4>3, ConcatProperties
        <4>5. \A i \in 1 .. (Len(q) + l) :
                 (q \o r)[i] = IF i <= Len(q) THEN q[i] ELSE r[i - Len(q)]
          BY <4>2, <4>3, ConcatProperties
        <4>6. QED
          BY <4>1, <4>4, <4>5 DEF B
      <3>3. PICK m \in Nat : m = Len(q)
        BY <3>1
      <3>4. m + l = Cardinality(Slots(g, k + 1))
        <4>1. IsFiniteSet(Slots(g, k))
          BY <2>2, SlotsAreFinite
        <4>2. Cardinality(Slots(g, k + 1)) = Cardinality(Slots(g, k)) + Len(g.neighbors[k + 1])
          BY <2>2, <4>1, MoreSlots
        <4>3. QED
          BY <2>6, <2>7, <3>3, <4>2 DEF Listed
      <3> DEFINE p == q \o r
      <3>5. \A i \in 1 .. (m + l) : p[i] = IF i <= m THEN q[i] ELSE r[i - m]
        BY <3>2, <3>3
      <3>6. /\ \A i \in 1 .. m : q[i][1] <= k
            /\ \A i, j \in 1 .. m : q[i] = q[j] => i = j
        BY <2>6, <3>3 DEF Listed
      <3>7. \A i \in 1 .. m : q[i][1] \in 1 .. n
        BY <3>1, <3>3, ElementOfSeq DEF B
      <3>8. p \in B /\ Len(p) = m + l
        BY <3>2, <3>3
      <3> HIDE DEF p
      <3>9. \A i \in 1 .. (m + l) :
              IF i <= m THEN i \in 1 .. m ELSE i - m \in 1 .. l
        BY <2>8
      <3>10. \A i \in 1 .. (m + l) :
              IF i <= m THEN p[i][1] <= k /\ p[i][1] # k + 1 ELSE p[i][1] = k + 1
        <4>1. ASSUME NEW i \in 1 .. (m + l), i <= m PROVE p[i][1] <= k /\ p[i][1] # k + 1
          <5>1. p[i] = q[i] /\ q[i][1] <= k /\ q[i][1] \in 1 .. n
            BY <3>5, <3>6, <3>7, <3>9, <4>1
          <5>2. PICK a \in Nat : a = q[i][1]
            BY <5>1
          <5>3. QED
            BY <2>2, <5>1, <5>2
        <4>2. ASSUME NEW i \in 1 .. (m + l), ~(i <= m) PROVE p[i][1] = k + 1
          BY <2>8, <3>5, <3>9, <4>2
        <4>3. QED
          BY <4>1, <4>2
      <3>11. \A i \in 1 .. (m + l) : p[i][1] <= k + 1
        <4>1. SUFFICES ASSUME NEW i \in 1 .. (m + l) PROVE p[i][1] <= k + 1
          OBVIOUS
        <4>2. p[i] \in (1 .. n) \X (1 .. n)
          BY <3>8, ElementOfSeq DEF B
        <4>3. PICK a \in Nat : a = p[i][1]
          BY <4>2
        <4>4. QED
          BY <2>2, <3>10, <4>3
      <3>12. ASSUME NEW i \in 1 .. (m + l), NEW j \in 1 .. (m + l), p[i] = p[j]
             PROVE  i = j
        <4>1. CASE i <= m
          <5>1. j <= m
            BY <3>10, <3>12, <4>1
          <5>2. q[i] = q[j] /\ i \in 1 .. m /\ j \in 1 .. m
            BY <3>5, <3>9, <3>12, <4>1, <5>1
          <5>3. QED
            BY <3>6, <5>2
        <4>2. CASE ~(i <= m)
          <5>1. ~(j <= m)
            BY <3>10, <3>12, <4>2
          <5>2. r[i - m] = r[j - m] /\ i - m \in 1 .. l /\ j - m \in 1 .. l
            BY <3>5, <3>9, <3>12, <4>2, <5>1
          <5>3. i - m = j - m
            BY <2>8, <5>2
          <5>4. QED
            BY <5>3
        <4>3. QED
          BY <4>1, <4>2
      <3>13. \A x, y \in 1 .. n : Has(p, m + l, <<x, y>>) <=> x <= k + 1 /\ IsArc(g, x, y)
        <4>1. SUFFICES ASSUME NEW x \in 1 .. n, NEW y \in 1 .. n
                       PROVE  Has(p, m + l, <<x, y>>) <=> x <= k + 1 /\ IsArc(g, x, y)
          OBVIOUS
        <4>2. Has(p, m + l, <<x, y>>) <=> Has(q, m, <<x, y>>) \/ Has(r, l, <<x, y>>)
          <5>1. Together(p, q, r, m, l)
            BY <2>8, <3>5, HasEither
          <5>2. QED
            BY <5>1, Zenon DEF Together
        <4>3. Has(q, m, <<x, y>>) <=> x <= k /\ IsArc(g, x, y)
          BY <2>6, <3>3 DEF Listed
        <4>4. Has(r, l, <<x, y>>) <=> x = k + 1 /\ IsArc(g, x, y)
          BY <2>8 DEF HasArcsOf
        <4>5. x <= k + 1 <=> x <= k \/ x = k + 1
          BY <2>2
        <4>6. QED
          BY <4>2, <4>3, <4>4, <4>5
      <3>14. QED
        BY <3>4, <3>8, <3>11, <3>12, <3>13 DEF Listed, B, p
    <2>10. QED
      BY <2>5, <2>9
  <1>11. P \in SUBSET Nat
    OBVIOUS
  <1> HIDE DEF P
  <1>12. P = Nat
    BY <1>9, <1>10, <1>11, EveryNat
  <1>13. n \in P /\ n <= n
    BY <1>12
  <1>14. QED
    BY <1>1, <1>13 DEF P

-----------------------------------------------------------------------------
(* The transpose                                                           *)
LEMMA NewDigraphIs ==
  ASSUME NEW n \in Nat
  PROVE  /\ IsDigraph(Components!newGraph(n), n) /\ Strict(Components!newGraph(n), n)
         /\ Components!newGraph(n).size = 0
         /\ Cardinality(Slots(Components!newGraph(n), n)) = 0
         /\ \A x, y \in 1 .. n : ~IsArc(Components!newGraph(n), x, y)
  <1> DEFINE h == Components!newGraph(n)
  <1>1. <<>> \in Seq(1 .. n) /\ "WHITE" \in Colors /\ 0 \in 0 .. n /\ -1 \in Int
    BY DEF Colors
  <1>2. /\ Components!All(n, <<>>) \in [1 .. n -> Seq(1 .. n)]
        /\ Components!All(n, "WHITE") \in [1 .. n -> Colors]
        /\ Components!All(n, 0) \in [1 .. n -> 0 .. n]
        /\ Components!All(n, -1) \in [1 .. n -> Int]
        /\ \A x \in 1 .. n : Components!All(n, <<>>)[x] = <<>>
    BY <1>1 DEF Components!All
  <1>3. IsDigraph(h, n) /\ h.size = 0 /\ h.neighbors = Components!All(n, <<>>)
    BY <1>2 DEF IsDigraph, Components!newGraph, Components!NIL, Components!UNDEF
  <1> HIDE DEF h
  <1>4. \A x \in 1 .. n : h.neighbors[x] = <<>>
    BY <1>2, <1>3
  <1>5. Len(<<>>) = 0 /\ DOMAIN <<>> = {} /\ 2 .. 0 = {}
    OBVIOUS
  <1>6. Strict(h, n)
    BY <1>4, <1>5 DEF Strict, Rises
  <1>7. \A x, y \in 1 .. n : ~IsArc(h, x, y)
    BY <1>4, <1>5 DEF IsArc
  <1>8. Slots(h, n) = {}
    BY <1>4, <1>5, InSlots
  <1>9. QED
    BY <1>3, <1>6, <1>7, <1>8, FS_EmptySet DEF h

\* The digraphs whose lists are strictly increasing.
Digraphs(n) ==
  {g \in [neighbors : [1 .. n -> Seq(1 .. n)], color : [1 .. n -> Colors],
          parent : [1 .. n -> 0 .. n], discover : [1 .. n -> Int],
          finish : [1 .. n -> Int], size : Int] : Strict(g, n)}

\* What a digraph with rising lists is.
LEMMA InDigraphs ==
  ASSUME NEW g, NEW n
  PROVE  g \in Digraphs(n) <=> IsDigraph(g, n) /\ Strict(g, n)
  BY DEF Digraphs, IsDigraph

\* t has the first k arcs of q turned round, and no other.
Turned(t, q, n, k) ==
  /\ IsDigraph(t, n) /\ Strict(t, n) /\ Cardinality(Slots(t, n)) = k
  /\ \A x, y \in 1 .. n : IsArc(t, x, y) <=> \E i \in 1 .. k : q[i] = <<y, x>>

\* One round of the loop of transpose turns one more arc.
LEMMA TurnsOne ==
  ASSUME NEW n \in Nat, NEW q \in Seq((1 .. n) \X (1 .. n)),
         \A i, j \in 1 .. Len(q) : q[i] = q[j] => i = j,
         NEW k \in Nat, k + 1 <= Len(q), NEW t, Turned(t, q, n, k)
  PROVE  Turned(Components!addArc(t, q[k + 1][2], q[k + 1][1]), q, n, k + 1)
  <1>1. Len(q) \in Nat
    BY LenProperties
  <1>2. k + 1 \in 1 .. Len(q)
    BY <1>1
  <1>3. PICK v \in 1 .. n, w \in 1 .. n : q[k + 1] = <<v, w>>
    <2>1. q[k + 1] \in (1 .. n) \X (1 .. n)
      BY <1>2, ElementOfSeq
    <2>2. PICK p : p = q[k + 1]
      OBVIOUS
    <2>3. p[1] \in 1 .. n /\ p[2] \in 1 .. n /\ p = <<p[1], p[2]>>
      BY <2>1, <2>2, SMTT(30)
    <2>4. QED
      BY <2>2, <2>3
  <1>4. q[k + 1][1] = v /\ q[k + 1][2] = w
    BY <1>3
  <1>5. ~IsArc(t, w, v)
    <2>1. ASSUME NEW i \in 1 .. k, q[i] = <<v, w>> PROVE FALSE
      <3>1. i \in 1 .. Len(q) /\ i # k + 1
        BY <1>1
      <3>2. QED
        BY <1>2, <1>3, <2>1, <3>1
    <2>2. IsArc(t, w, v) <=> \E i \in 1 .. k : q[i] = <<v, w>>
      BY DEF Turned
    <2>3. QED
      BY <2>1, <2>2
  <1>6. PICK h : h = Components!addArc(t, w, v)
    OBVIOUS
  <1>7. IsDigraph(t, n) /\ Strict(t, n)
    BY DEF Turned
  <1>8. Entered(h, t, n, w, v)
    BY <1>5, <1>6, <1>7, EntersArc
  <1>9. ASSUME NEW x \in 1 .. n, NEW y \in 1 .. n
        PROVE  IsArc(h, x, y) <=> \E i \in 1 .. (k + 1) : q[i] = <<y, x>>
    <2>1. IsArc(h, x, y) <=> IsArc(t, x, y) \/ (x = w /\ y = v)
      BY <1>8 DEF Entered
    <2>2. IsArc(t, x, y) <=> \E i \in 1 .. k : q[i] = <<y, x>>
      BY DEF Turned
    <2>3. \A i : i \in 1 .. (k + 1) <=> i \in 1 .. k \/ i = k + 1
      OBVIOUS
    <2>4. q[k + 1] = <<y, x>> <=> y = v /\ x = w
      BY <1>3
    <2>5. QED
      BY <2>1, <2>2, <2>3, <2>4
  <1>10. Cardinality(Slots(h, n)) = k + 1
    BY <1>8 DEF Entered, Turned
  <1>11. Turned(h, q, n, k + 1)
    BY <1>8, <1>9, <1>10 DEF Turned, Entered
  <1>12. QED
    BY <1>4, <1>6, <1>11

\* The transpose has every arc turned round, and nothing else of it is another.
Transposed(h, g, n) ==
  /\ IsDigraph(h, n) /\ Strict(h, n) /\ h.size = g.size
  /\ Cardinality(Slots(h, n)) = Cardinality(Slots(g, n))
  /\ \A x, y \in 1 .. n : IsArc(h, x, y) <=> IsArc(g, y, x)

\* transpose turns every arc, and adds none.
LEMMA TransposeIs ==
  ASSUME NEW g, NEW n \in Nat, IsDigraph(g, n), Strict(g, n)
  PROVE  Transposed(Components!transpose(g), g, n)
  <1> DEFINE q == Components!Arcs(g)
             B == Digraphs(n)
             b == Components!newGraph(n)
             Along(f) == [s \in SUBSET (1 .. Len(q)) |->
                            IF s = {} THEN b
                            ELSE Components!addArc(f[s \ {Highest(s)}],
                                                   q[Highest(s)][2], q[Highest(s)][1])]
             step == [p \in (1 .. Len(q)) \X B |-> Components!addArc(p[2], q[p[1]][2], q[p[1]][1])]
             F == CHOOSE f : f = Along(f)
  <1>1. Listed(q, g, n, n)
    BY ArcsAre
  <1>2. q \in Seq((1 .. n) \X (1 .. n)) /\ Len(q) \in Nat /\ DOMAIN q = 1 .. Len(q)
    BY <1>1, LenProperties DEF Listed
  <1>3. Components!transpose(g) = [g EXCEPT !.neighbors = F[1 .. Len(q)].neighbors]
    <2>1. Len(g.neighbors) = n
      BY NumArcsIs
    <2>2. \A s : Components!Max(s) = Highest(s)
      BY DEF Components!Max, Highest
    <2>3. Components!transpose(g) =
            [g EXCEPT !.neighbors =
               (CHOOSE f : f = [s \in SUBSET (DOMAIN q) |->
                   IF s = {} THEN Components!newGraph(Len(g.neighbors))
                   ELSE Components!addArc(f[s \ {Components!Max(s)}],
                                          q[Components!Max(s)][2],
                                          q[Components!Max(s)][1])])[DOMAIN q].neighbors]
      BY DEF Components!transpose, Components!FoldLeft, Components!MapThenFoldSet
    <2> HIDE DEF q
    <2>4. \A f : [s \in SUBSET (DOMAIN q) |->
                   IF s = {} THEN Components!newGraph(Len(g.neighbors))
                   ELSE Components!addArc(f[s \ {Components!Max(s)}],
                                          q[Components!Max(s)][2],
                                          q[Components!Max(s)][1])] = Along(f)
      BY <1>2, <2>1, <2>2
    <2> HIDE DEF Along
    <2>5. QED
      BY <1>2, <2>3, <2>4
  <1> HIDE DEF q
  <1>4. b \in B
    BY NewDigraphIs, InDigraphs
  <1>5. \A k \in 1 .. Len(q) : \A t \in B : Components!addArc(t, q[k][2], q[k][1]) \in B
    <2>1. SUFFICES ASSUME NEW k \in 1 .. Len(q), NEW t \in B
                   PROVE  Components!addArc(t, q[k][2], q[k][1]) \in B
      OBVIOUS
    <2>2. q[k] \in (1 .. n) \X (1 .. n)
      BY <1>2, ElementOfSeq
    <2>3. PICK x \in 1 .. n, y \in 1 .. n : x = q[k][2] /\ y = q[k][1]
      BY <2>2
    <2>4. IsDigraph(t, n) /\ Strict(t, n)
      BY InDigraphs
    <2>5. PICK h : h = Components!addArc(t, x, y)
      OBVIOUS
    <2>6. h = t \/ Entered(h, t, n, x, y)
      BY <2>4, <2>5, AddsArc
    <2>7. IsDigraph(h, n) /\ Strict(h, n)
      BY <2>4, <2>6 DEF Entered
    <2>8. h \in B
      BY <2>7, InDigraphs
    <2>9. QED
      BY <2>3, <2>5, <2>8
  <1> HIDE DEF B
  <1>6. step \in [(1 .. Len(q)) \X B -> B]
    <2>1. \A p \in (1 .. Len(q)) \X B : p[1] \in 1 .. Len(q) /\ p[2] \in B
      OBVIOUS
    <2>2. \A p \in (1 .. Len(q)) \X B : Components!addArc(p[2], q[p[1]][2], q[p[1]][1]) \in B
      BY <1>5, <2>1
    <2>3. QED
      BY <2>2
  <1>7. \A k \in 1 .. Len(q) : \A t \in B :
          step[<<k, t>>] = Components!addArc(t, q[k][2], q[k][1])
    OBVIOUS
  <1> HIDE DEF step, b
  <1>8. PICK f \in [SUBSET (1 .. Len(q)) -> B] : Folding(f, step, b, Len(q))
    BY <1>2, <1>4, <1>6, Folds
  <1>9. f = Along(f)
    <2>1. f = [s \in SUBSET (1 .. Len(q)) |->
                 IF s = {} THEN b ELSE step[<<Highest(s), f[s \ {Highest(s)}]>>]]
      BY <1>8 DEF Folding
    <2>2. ASSUME NEW s \in SUBSET (1 .. Len(q)), s # {}
          PROVE  step[<<Highest(s), f[s \ {Highest(s)}]>>]
                   = Components!addArc(f[s \ {Highest(s)}], q[Highest(s)][2], q[Highest(s)][1])
      <3>1. Highest(s) \in 1 .. Len(q)
        BY <1>2, <2>2, HighestIs
      <3>2. f[s \ {Highest(s)}] \in B
        BY <1>8
      <3>3. QED
        BY <1>7, <3>1, <3>2
    <2>3. QED
      BY <2>1, <2>2
  <1>10. F = Along(F)
    <2> HIDE DEF Along
    <2>1. QED
      BY <1>9
  <1> HIDE DEF F
  <1>11. /\ F[{}] = b
         /\ \A k \in 1 .. Len(q) :
              F[1 .. k] = Components!addArc(F[1 .. (k - 1)], q[k][2], q[k][1])
    <2>1. \A s \in SUBSET (1 .. Len(q)) :
            F[s] = IF s = {} THEN b
                   ELSE Components!addArc(F[s \ {Highest(s)}], q[Highest(s)][2], q[Highest(s)][1])
      BY <1>10
    <2>2. F[{}] = b
      BY <2>1
    <2>3. ASSUME NEW k \in 1 .. Len(q)
          PROVE  F[1 .. k] = Components!addArc(F[1 .. (k - 1)], q[k][2], q[k][1])
      <3>1. /\ 1 .. k \in SUBSET (1 .. Len(q)) /\ 1 .. k # {}
            /\ Highest(1 .. k) = k /\ (1 .. k) \ {k} = 1 .. (k - 1)
        BY <1>2, FirstOnes
      <3>2. QED
        BY <2>1, <3>1
    <2>4. QED
      BY <2>2, <2>3
  <1> HIDE DEF Along
  <1> DEFINE P == {k \in Nat : k <= Len(q) => Turned(F[1 .. k], q, n, k)}
  <1>12. 0 \in P
    <2>1. 1 .. 0 = {} /\ F[1 .. 0] = b
      BY <1>11
    <2>2. Turned(b, q, n, 0)
      <3>1. IsDigraph(b, n) /\ Strict(b, n) /\ Cardinality(Slots(b, n)) = 0
        BY NewDigraphIs DEF b
      <3>2. \A x, y \in 1 .. n : ~IsArc(b, x, y)
        BY NewDigraphIs DEF b
      <3>3. QED
        BY <2>1, <3>1, <3>2 DEF Turned
    <2>3. QED
      BY <2>1, <2>2
  <1>13. ASSUME NEW k \in P PROVE k + 1 \in P
    <2>0. k + 1 \in Nat
      OBVIOUS
    <2>1. SUFFICES ASSUME k + 1 <= Len(q) PROVE Turned(F[1 .. (k + 1)], q, n, k + 1)
      BY <2>0, Zenon
    <2>2. k \in Nat /\ k <= Len(q) /\ k + 1 \in 1 .. Len(q) /\ (k + 1) - 1 = k
      <3>1. k \in Nat
        BY Zenon DEF P
      <3>2. Len(q) \in Nat
        BY <1>2
      <3> HIDE DEF P
      <3>3. QED
        BY <2>1, <3>1, <3>2
    <2>3. PICK t : t = F[1 .. k]
      OBVIOUS
    <2>4. Turned(t, q, n, k)
      BY <2>2, <2>3
    <2>5. F[1 .. (k + 1)] = Components!addArc(t, q[k + 1][2], q[k + 1][1])
      BY <1>11, <2>2, <2>3
    <2>6. \A i, j \in 1 .. Len(q) : q[i] = q[j] => i = j
      BY <1>1 DEF Listed
    <2>7. Turned(Components!addArc(t, q[k + 1][2], q[k + 1][1]), q, n, k + 1)
      BY <1>2, <2>1, <2>2, <2>4, <2>6, TurnsOne
    <2>8. QED
      BY <2>5, <2>7
  <1>14. P \in SUBSET Nat
    OBVIOUS
  <1> HIDE DEF P
  <1>15. P = Nat
    BY <1>12, <1>13, <1>14, EveryNat
  <1>16. Turned(F[1 .. Len(q)], q, n, Len(q))
    <2>1. Len(q) \in P /\ Len(q) <= Len(q)
      BY <1>2, <1>15
    <2>2. QED
      BY <2>1 DEF P
  <1>17. PICK t : t = F[1 .. Len(q)]
    OBVIOUS
  <1>18. IsDigraph(t, n) /\ Strict(t, n) /\ Cardinality(Slots(t, n)) = Cardinality(Slots(g, n))
    BY <1>1, <1>16, <1>17 DEF Turned, Listed
  <1>19. \A x, y \in 1 .. n : IsArc(t, x, y) <=> IsArc(g, y, x)
    <2>1. SUFFICES ASSUME NEW x \in 1 .. n, NEW y \in 1 .. n
                   PROVE  IsArc(t, x, y) <=> IsArc(g, y, x)
      OBVIOUS
    <2>2. IsArc(t, x, y) <=> Has(q, Len(q), <<y, x>>)
      BY <1>16, <1>17 DEF Turned, Has
    <2>3. Has(q, Len(q), <<y, x>>) <=> y <= n /\ IsArc(g, y, x)
      BY <1>1 DEF Listed
    <2>4. QED
      BY <2>2, <2>3
  <1>20. PICK h : h = Components!transpose(g)
    OBVIOUS
  <1>21. h.neighbors = t.neighbors /\ h.size = g.size /\ IsDigraph(h, n)
    BY <1>3, <1>17, <1>18, <1>20 DEF IsDigraph
  <1>22. Strict(h, n) /\ Slots(h, n) = Slots(t, n)
    BY <1>18, <1>21 DEF Strict, Slots
  <1>23. \A x, y \in 1 .. n : IsArc(h, x, y) <=> IsArc(t, x, y)
    BY <1>21 DEF IsArc
  <1>24. QED
    BY <1>18, <1>19, <1>20, <1>21, <1>22, <1>23 DEF Transposed

-----------------------------------------------------------------------------
(* The size of a graph, through every operation on it                      *)
\* The size of g is its number of arcs less e.
Sized(g, n, e) ==
  /\ IsDigraph(g, n) /\ Strict(g, n) /\ e \in Nat
  /\ g.size = Cardinality(Slots(g, n)) - e

\* A new graph has size 0.
LEMMA SizedNew ==
  ASSUME NEW n \in Nat
  PROVE  Sized(Components!newGraph(n), n, 0)
  <1>1. PICK h : h = Components!newGraph(n)
    OBVIOUS
  <1>2. IsDigraph(h, n) /\ Strict(h, n) /\ h.size = 0 /\ Cardinality(Slots(h, n)) = 0
    BY <1>1, NewDigraphIs
  <1>3. Sized(h, n, 0)
    BY <1>2 DEF Sized
  <1>4. QED
    BY <1>1, <1>3

\* The arcs and the size are all that matters.
LEMMA SizedSame ==
  ASSUME NEW g, NEW n, NEW e, Sized(g, n, e),
         NEW h, IsDigraph(h, n), h.neighbors = g.neighbors, h.size = g.size
  PROVE  Sized(h, n, e)
  <1>1. Strict(h, n) /\ Slots(h, n) = Slots(g, n)
    BY DEF Sized, Strict, Slots
  <1>2. QED
    BY <1>1 DEF Sized

\* addArc keeps the size right, also for an arc that is there.
LEMMA SizedAddArc ==
  ASSUME NEW n \in Nat, NEW g, NEW e, Sized(g, n, e), NEW x \in 1 .. n, NEW y \in 1 .. n
  PROVE  Sized(Components!addArc(g, x, y), n, e)
  <1>1. PICK h : h = Components!addArc(g, x, y)
    OBVIOUS
  <1>2. IsDigraph(g, n) /\ Strict(g, n) /\ e \in Nat /\ g.size = Cardinality(Slots(g, n)) - e
    BY DEF Sized
  <1>3. h = g \/ Entered(h, g, n, x, y)
    BY <1>1, <1>2, AddsArc
  <1>4. CASE h = g
    BY <1>1, <1>4
  <1>5. CASE Entered(h, g, n, x, y)
    <2>1. PICK c \in Nat : c = Cardinality(Slots(g, n))
      <3>1. n \in 0 .. n
        OBVIOUS
      <3>2. QED
        BY <1>2, <3>1, SlotsAreFinite
    <2>2. h.size = (c - e) + 1 /\ Cardinality(Slots(h, n)) = c + 1
      BY <1>2, <1>5, <2>1 DEF Entered
    <2>3. h.size = Cardinality(Slots(h, n)) - e
      BY <1>2, <2>2
    <2>4. Sized(h, n, e)
      BY <1>2, <1>5, <2>3 DEF Entered, Sized
    <2>5. QED
      BY <1>1, <2>4
  <1>6. QED
    BY <1>3, <1>4, <1>5

\* addEdge counts one where it enters two arcs.
LEMMA SizedAddEdge ==
  ASSUME NEW n \in Nat, NEW g, NEW e, Sized(g, n, e), NEW x \in 1 .. n, NEW y \in 1 .. n
  PROVE  Sized(Components!addEdge(g, x, y), n, e + 1)
  <1>1. PICK k : k = Components!addArc(g, x, y)
    OBVIOUS
  <1>2. PICK h : h = IF x = y THEN k ELSE Components!addArc(k, y, x)
    OBVIOUS
  <1>3. Sized(k, n, e)
    BY <1>1, SizedAddArc
  <1>4. Sized(h, n, e)
    <2>1. Sized(Components!addArc(k, y, x), n, e)
      BY <1>3, SizedAddArc
    <2>2. QED
      BY <1>2, <1>3, <2>1
  <1>5. PICK j : j = [h EXCEPT !.size = @ - 1]
    OBVIOUS
  <1>6. j = Components!addEdge(g, x, y)
    BY <1>1, <1>2, <1>5 DEF Components!addEdge
  <1>7. /\ IsDigraph(h, n) /\ Strict(h, n) /\ e \in Nat
        /\ h.size = Cardinality(Slots(h, n)) - e
    BY <1>4 DEF Sized
  <1>8. h.size \in Int
    BY <1>7 DEF IsDigraph
  <1>9. h.size - 1 \in Int
    BY <1>8
  <1>10. IsDigraph(j, n) /\ j.neighbors = h.neighbors /\ j.size = h.size - 1
    BY <1>5, <1>7, <1>9 DEF IsDigraph
  <1>11. Strict(j, n) /\ Slots(j, n) = Slots(h, n)
    BY <1>7, <1>10 DEF Strict, Slots
  <1>12. PICK c \in Nat : c = Cardinality(Slots(h, n))
    <2>1. n \in 0 .. n
      OBVIOUS
    <2>2. QED
      BY <1>7, <2>1, SlotsAreFinite
  <1>13. j.size = (c - e) - 1 /\ Cardinality(Slots(j, n)) = c
    BY <1>7, <1>10, <1>11, <1>12
  <1>14. j.size = Cardinality(Slots(j, n)) - (e + 1) /\ e + 1 \in Nat
    BY <1>7, <1>13
  <1>15. Sized(j, n, e + 1)
    BY <1>10, <1>11, <1>14 DEF Sized
  <1>16. QED
    BY <1>6, <1>15

\* copyGraph copies the size with the arcs.
LEMMA SizedCopy ==
  ASSUME NEW n \in Nat, NEW g, NEW e, Sized(g, n, e)
  PROVE  Sized(Components!copyGraph(g), n, e)
  <1>1. IsDigraph(g, n) /\ IsDigraph(Components!newGraph(n), n)
    BY NewDigraphIs DEF Sized
  <1>2. Len(g.neighbors) = n
    BY <1>1, NumArcsIs
  <1>3. PICK b : b = Components!newGraph(n)
    OBVIOUS
  <1>4. Components!copyGraph(g) =
          [b EXCEPT !.neighbors = g.neighbors, !.color = g.color, !.parent = g.parent,
                    !.discover = g.discover, !.finish = g.finish, !.size = g.size]
    BY <1>2, <1>3 DEF Components!copyGraph
  <1>5. PICK h : h = Components!copyGraph(g)
    OBVIOUS
  <1>6. IsDigraph(h, n) /\ h.neighbors = g.neighbors /\ h.size = g.size
    BY <1>1, <1>3, <1>4, <1>5 DEF IsDigraph
  <1>7. Sized(h, n, e)
    BY <1>6, SizedSame
  <1>8. QED
    BY <1>5, <1>7

\* What DFS starts with.
LEMMA SizedFresh ==
  ASSUME NEW n \in Nat, NEW g, NEW e, Sized(g, n, e)
  PROVE  Sized([g EXCEPT !.color = Components!All(n, "WHITE"),
                         !.parent = Components!All(n, Components!NIL),
                         !.discover = Components!All(n, Components!UNDEF),
                         !.finish = Components!All(n, Components!UNDEF)], n, e)
  <1> DEFINE h == [g EXCEPT !.color = Components!All(n, "WHITE"),
                            !.parent = Components!All(n, Components!NIL),
                            !.discover = Components!All(n, Components!UNDEF),
                            !.finish = Components!All(n, Components!UNDEF)]
  <1>1. "WHITE" \in Colors /\ 0 \in 0 .. n /\ -1 \in Int
    BY DEF Colors
  <1>2. /\ Components!All(n, "WHITE") \in [1 .. n -> Colors]
        /\ Components!All(n, Components!NIL) \in [1 .. n -> 0 .. n]
        /\ Components!All(n, Components!UNDEF) \in [1 .. n -> Int]
    BY <1>1 DEF Components!All, Components!NIL, Components!UNDEF
  <1>3. IsDigraph(g, n)
    BY DEF Sized
  <1>4. IsDigraph(h, n) /\ h.neighbors = g.neighbors /\ h.size = g.size
    BY <1>2, <1>3 DEF IsDigraph
  <1> HIDE DEF h
  <1>5. Sized(h, n, e)
    BY <1>4, SizedSame
  <1>6. QED
    BY <1>5 DEF h

\* The transpose has the size of the graph.
LEMMA SizedTranspose ==
  ASSUME NEW n \in Nat, NEW g, NEW e, Sized(g, n, e)
  PROVE  Sized(Components!transpose(g), n, e)
  <1>1. IsDigraph(g, n) /\ Strict(g, n)
    BY DEF Sized
  <1>2. PICK h : h = Components!transpose(g)
    OBVIOUS
  <1>3. Transposed(h, g, n)
    BY <1>1, <1>2, TransposeIs
  <1>4. Sized(h, n, e)
    BY <1>3 DEF Transposed, Sized
  <1>5. QED
    BY <1>2, <1>4

\* Entering and leaving a vertex.
LEMMA SizedEnter ==
  ASSUME NEW n \in Nat, NEW g, NEW e, Sized(g, n, e),
         NEW v \in 1 .. n, NEW p \in 0 .. n, NEW t \in Int
  PROVE  Sized([g EXCEPT !.discover[v] = t, !.color[v] = "GRAY", !.parent[v] = p], n, e)
  <1> DEFINE h == [g EXCEPT !.discover[v] = t, !.color[v] = "GRAY", !.parent[v] = p]
             d == [g.discover EXCEPT ![v] = t]
             c == [g.color EXCEPT ![v] = "GRAY"]
             r == [g.parent EXCEPT ![v] = p]
  <1>1. IsDigraph(g, n)
    BY DEF Sized
  <1>2. d \in [1 .. n -> Int] /\ c \in [1 .. n -> Colors] /\ r \in [1 .. n -> 0 .. n]
    BY <1>1 DEF IsDigraph, Colors
  <1> HIDE DEF d, c, r
  <1>3. h = [g EXCEPT !.discover = d, !.color = c, !.parent = r]
    BY <1>1 DEF IsDigraph, d, c, r
  <1>4. IsDigraph(h, n) /\ h.neighbors = g.neighbors /\ h.size = g.size
    <2> HIDE DEF h
    <2>1. QED
      BY <1>1, <1>2, <1>3 DEF IsDigraph
  <1> HIDE DEF h
  <1>5. Sized(h, n, e)
    BY <1>4, SizedSame
  <1>6. QED
    BY <1>5 DEF h

\* The end of a call of DFS_Visit does not touch the size.
LEMMA SizedLeave ==
  ASSUME NEW n \in Nat, NEW g, NEW e, Sized(g, n, e), NEW v \in 1 .. n, NEW t \in Int
  PROVE  Sized([g EXCEPT !.finish[v] = t, !.color[v] = "BLACK"], n, e)
  <1> DEFINE h == [g EXCEPT !.finish[v] = t, !.color[v] = "BLACK"]
             d == [g.finish EXCEPT ![v] = t]
             c == [g.color EXCEPT ![v] = "BLACK"]
  <1>1. IsDigraph(g, n)
    BY DEF Sized
  <1>2. d \in [1 .. n -> Int] /\ c \in [1 .. n -> Colors]
    BY <1>1 DEF IsDigraph, Colors
  <1> HIDE DEF d, c
  <1>3. h = [g EXCEPT !.finish = d, !.color = c]
    BY <1>1 DEF IsDigraph, d, c
  <1>4. IsDigraph(h, n) /\ h.neighbors = g.neighbors /\ h.size = g.size
    <2> HIDE DEF h
    <2>1. QED
      BY <1>1, <1>2, <1>3 DEF IsDigraph
  <1> HIDE DEF h
  <1>5. Sized(h, n, e)
    BY <1>4, SizedSame
  <1>6. QED
    BY <1>5 DEF h

-----------------------------------------------------------------------------
(* What EndDFS sorts                                                       *)
LEMMA InsertsInPlace ==
  ASSUME NEW n \in Nat, NEW q \in Seq(1 .. n), NEW k, k = Len(q), NEW v \in 1 .. n
  PROVE  \E a : PlaceFor(q, v, c_G.finish, a, k) /\ Components!Inserted(q, v) = Inserted(q, a, v)
  <1> DEFINE Q == {0} \cup {i \in DOMAIN q : c_G.finish[q[i]] >= c_G.finish[v]}
  <1>1. k \in Nat /\ DOMAIN q = 1 .. k
    BY LenProperties
  <1>2. Q \in SUBSET Nat /\ 0 \in Q /\ \A i \in Q : i <= k
    BY <1>1
  <1>3. Components!Inserted(q, v) = Components!InsertAt(q, 1 + Components!Max(Q), v)
    BY DEF Components!Inserted
  <1>4. \A i \in 1 .. k : c_G.finish[q[i]] >= c_G.finish[v] => i \in Q
    BY <1>1
  <1>5. \A i \in Q : i > 0 => c_G.finish[q[i]] >= c_G.finish[v]
    BY <1>1
  <1> HIDE DEF Q
  <1>6. \E a \in Q : \A i \in Q : a >= i
    BY <1>1, <1>2, HasGreatest
  <1>7. PICK a : a = Components!Max(Q)
    OBVIOUS
  <1>8. a \in Q /\ \A i \in Q : a >= i
    BY <1>6, <1>7 DEF Components!Max
  <1>9. a \in Nat /\ a <= k
    BY <1>2, <1>8
  <1>10. PlaceFor(q, v, c_G.finish, a, k)
    BY <1>1, <1>2, <1>4, <1>5, <1>8, <1>9 DEF PlaceFor
  <1>11. 1 + a = a + 1 /\ (a + 1) - 1 = (1 + a) - 1
    BY <1>9, SMTT(30)
  <1>12. Components!InsertAt(q, 1 + a, v) = Inserted(q, a, v)
    BY <1>11, Zenon DEF Components!InsertAt, Inserted
  <1>13. QED
    BY <1>3, <1>7, <1>10, <1>12

\* What EndDFS makes of the list: the same vertices, the last finished first.
LEMMA SortedIs ==
  ASSUME NEW n \in Nat, c_S \in Seq(1 .. n), c_G.finish \in [1 .. n -> Int]
  PROVE  Sorts(Components!FoldLeft(Components!Inserted, <<>>, c_S), c_S, c_G.finish, Len(c_S), n)
  <1> DEFINE B == Seq(1 .. n)
             m == Len(c_S)
             Along(f) == [s \in SUBSET (1 .. m) |->
                            IF s = {} THEN <<>>
                            ELSE Components!Inserted(f[s \ {Highest(s)}], c_S[Highest(s)])]
             step == [p \in (1 .. m) \X B |-> Components!Inserted(p[2], c_S[p[1]])]
             F == CHOOSE f : f = Along(f)
  <1>1. m \in Nat /\ DOMAIN c_S = 1 .. m /\ \A k \in 1 .. m : c_S[k] \in 1 .. n
    BY LenProperties, ElementOfSeq
  <1>2. Components!FoldLeft(Components!Inserted, <<>>, c_S) = F[1 .. m]
    <2>1. \A s : Components!Max(s) = Highest(s)
      BY DEF Components!Max, Highest
    <2>2. Components!FoldLeft(Components!Inserted, <<>>, c_S) =
            (CHOOSE f : f = [s \in SUBSET (DOMAIN c_S) |->
                IF s = {} THEN <<>>
                ELSE Components!Inserted(f[s \ {Components!Max(s)}],
                                         c_S[Components!Max(s)])])[DOMAIN c_S]
      BY DEF Components!FoldLeft, Components!MapThenFoldSet
    <2> HIDE DEF m
    <2>3. \A f : [s \in SUBSET (DOMAIN c_S) |->
                IF s = {} THEN <<>>
                ELSE Components!Inserted(f[s \ {Components!Max(s)}],
                                         c_S[Components!Max(s)])] = Along(f)
      BY <1>1, <2>1
    <2> HIDE DEF Along
    <2>4. QED
      BY <1>1, <2>2, <2>3
  <1>3. <<>> \in B
    OBVIOUS
  <1>4. ASSUME NEW L \in B, NEW v \in 1 .. n
        PROVE  Components!Inserted(L, v) \in B
    <2>1. PICK l : l = Len(L)
      OBVIOUS
    <2>2. PICK a : PlaceFor(L, v, c_G.finish, a, l) /\ Components!Inserted(L, v) = Inserted(L, a, v)
      BY <2>1, InsertsInPlace
    <2>3. PICK T : T = 1 .. n
      OBVIOUS
    <2>4. L \in Seq(T) /\ v \in T /\ a \in 0 .. Len(L)
      BY <2>1, <2>2, <2>3 DEF PlaceFor
    <2>5. Inserted(L, a, v) \in Seq(T)
      BY <2>4, InsertedIs
    <2>6. QED
      BY <2>2, <2>3, <2>5
  <1> HIDE DEF B, m
  <1>5. step \in [(1 .. m) \X B -> B]
    <2>1. \A p \in (1 .. m) \X B : p[1] \in 1 .. m /\ p[2] \in B
      OBVIOUS
    <2>2. \A p \in (1 .. m) \X B : Components!Inserted(p[2], c_S[p[1]]) \in B
      BY <1>1, <1>4, <2>1
    <2>3. QED
      BY <2>2
  <1>6. \A k \in 1 .. m : \A L \in B : step[<<k, L>>] = Components!Inserted(L, c_S[k])
    OBVIOUS
  <1> HIDE DEF step
  <1>7. PICK f \in [SUBSET (1 .. m) -> B] : Folding(f, step, <<>>, m)
    BY <1>1, <1>3, <1>5, Folds
  <1>8. f = Along(f)
    <2>1. f = [s \in SUBSET (1 .. m) |->
                 IF s = {} THEN <<>> ELSE step[<<Highest(s), f[s \ {Highest(s)}]>>]]
      BY <1>7 DEF Folding
    <2>2. ASSUME NEW s \in SUBSET (1 .. m), s # {}
          PROVE  step[<<Highest(s), f[s \ {Highest(s)}]>>]
                   = Components!Inserted(f[s \ {Highest(s)}], c_S[Highest(s)])
      <3>1. Highest(s) \in 1 .. m
        BY <1>1, <2>2, HighestIs
      <3>2. f[s \ {Highest(s)}] \in B
        BY <1>7
      <3>3. QED
        BY <1>6, <3>1, <3>2
    <2>3. QED
      BY <2>1, <2>2
  <1>9. F = Along(F)
    <2> HIDE DEF Along
    <2>1. QED
      BY <1>8
  <1> HIDE DEF F
  <1>10. /\ F[{}] = <<>>
         /\ \A k \in 1 .. m : F[1 .. k] = Components!Inserted(F[1 .. (k - 1)], c_S[k])
    <2>1. \A s \in SUBSET (1 .. m) :
            F[s] = IF s = {} THEN <<>>
                   ELSE Components!Inserted(F[s \ {Highest(s)}], c_S[Highest(s)])
      BY <1>9
    <2>2. F[{}] = <<>>
      BY <2>1
    <2>3. ASSUME NEW k \in 1 .. m
          PROVE  F[1 .. k] = Components!Inserted(F[1 .. (k - 1)], c_S[k])
      <3>1. /\ 1 .. k \in SUBSET (1 .. m) /\ 1 .. k # {}
            /\ Highest(1 .. k) = k /\ (1 .. k) \ {k} = 1 .. (k - 1)
        BY <1>1, FirstOnes
      <3>2. QED
        BY <2>1, <3>1
    <2>4. QED
      BY <2>2, <2>3
  <1> HIDE DEF Along
  <1> DEFINE P == {k \in Nat : k <= m => Sorts(F[1 .. k], c_S, c_G.finish, k, n)}
  <1>11. 0 \in P
    <2>1. 1 .. 0 = {} /\ F[1 .. 0] = <<>>
      BY <1>10
    <2>2. <<>> \in Seq(1 .. n) /\ Len(<<>>) = 0
      OBVIOUS
    <2>3. Sorts(<<>>, c_S, c_G.finish, 0, n)
      BY <2>1, <2>2 DEF Sorts, Falls
    <2>4. QED
      BY <2>1, <2>3
  <1>12. ASSUME NEW k \in P PROVE k + 1 \in P
    <2>1. k \in Nat /\ k + 1 \in Nat
      OBVIOUS
    <2>2. ASSUME k + 1 <= m PROVE Sorts(F[1 .. (k + 1)], c_S, c_G.finish, k + 1, n)
      <3>1. k <= m /\ k + 1 \in 1 .. m /\ (k + 1) - 1 = k
        BY <1>1, <2>1, <2>2
      <3>2. PICK q : q = F[1 .. k]
        OBVIOUS
      <3>3. Sorts(q, c_S, c_G.finish, k, n)
        BY <3>1, <3>2
      <3>4. PICK v \in 1 .. n : v = c_S[k + 1]
        BY <1>1, <3>1
      <3>5. F[1 .. (k + 1)] = Components!Inserted(q, v)
        BY <1>10, <3>1, <3>2, <3>4
      <3>6. q \in Seq(1 .. n) /\ k = Len(q)
        BY <3>3 DEF Sorts
      <3>7. PICK a : PlaceFor(q, v, c_G.finish, a, k) /\ Components!Inserted(q, v) = Inserted(q, a, v)
        BY <3>6, InsertsInPlace
      <3>8. Sorts(Inserted(q, a, v), c_S, c_G.finish, k + 1, n)
        <4>1. PICK e \in [1 .. n -> Int], w \in Seq(1 .. n) : e = c_G.finish /\ w = c_S
          OBVIOUS
        <4>2. Sorts(q, w, e, k, n) /\ PlaceFor(q, v, e, a, k) /\ v = w[k + 1]
          BY <3>3, <3>4, <3>7, <4>1
        <4>3. Sorts(Inserted(q, a, v), w, e, k + 1, n)
          BY <2>1, <4>2, SortsOne
        <4>4. QED
          BY <4>1, <4>3
      <3>9. QED
        BY <3>5, <3>7, <3>8
    <2>3. QED
      BY <2>1, <2>2
  <1>13. P \in SUBSET Nat
    OBVIOUS
  <1> HIDE DEF P
  <1>14. P = Nat
    BY <1>11, <1>12, <1>13, EveryNat
  <1>15. m \in P /\ m <= m
    BY <1>1, <1>14
  <1>16. Sorts(F[1 .. m], c_S, c_G.finish, m, n)
    BY <1>15 DEF P
  <1>17. QED
    BY <1>2, <1>16 DEF m

-----------------------------------------------------------------------------
\* DFS while it runs: its stack and its cursors.
Running(n) ==
  /\ c_main \in {"first DFS", "second DFS"}
  /\ c_stack \in Seq(1 .. n) /\ c_at \in [1 .. n -> Nat]
  /\ c_next \in Nat \ {0} /\ c_time \in Int
  /\ \A k \in 1 .. Len(c_stack) : c_at[c_stack[k]] > 0

\* A graph of n vertices whose size is right, and where the program is.
CompInvOf(n) ==
  /\ n \in Nat
  /\ Sized(c_G, n, c_edges)
  /\ c_edges # 0 => n # 0 /\ c_main \in {Components!Client, "failed"}
  /\ c_S \in Seq(1 .. n)
  /\ c_main \notin {"first DFS", "second DFS", "done"} => c_S = <<>>
  /\ c_pc = "idle" \/ (c_pc = "roots" /\ Running(n))

CompInv == \E n \in Nat : CompInvOf(n)

\* The invariant holds when the program starts.
LEMMA CompInit == Init => CompInv
  <1>1. SUFFICES ASSUME Init PROVE CompInvOf(0)
    BY DEF CompInv
  <1>2. /\ c_G = Components!newGraph(0) /\ c_S = <<>> /\ c_pc = "idle" /\ c_edges = 0
    BY <1>1 DEF Init, Components!FindComponentsInit, Components!Init, Components!MainInit
  <1>3. Sized(c_G, 0, c_edges)
    BY <1>2, SizedNew
  <1>4. <<>> \in Seq(1 .. 0)
    OBVIOUS
  <1>5. QED
    BY <1>2, <1>3, <1>4 DEF CompInvOf

\* The operations of the client, and the reading, leave DFS alone.
LEMMA GraphReplaced ==
  ASSUME NEW n \in Nat, CompInvOf(n), NEW m \in Nat, NEW g, NEW e, Sized(g, m, e),
         c_G' = g, c_edges' = e, e # 0 => m # 0 /\ c_main' \in {Components!Client, "failed"},
         c_main \notin {"first DFS", "second DFS", "done"},
         c_main' \notin {"first DFS", "second DFS", "done"},
         c_S' = c_S, c_pc' = c_pc
  PROVE  CompInv'
  <1>1. c_S = <<>> /\ c_pc = "idle"
    BY DEF CompInvOf, Running
  <1>2. <<>> \in Seq(1 .. m)
    BY EmptySeq
  <1>3. CompInvOf(m)'
    BY <1>1, <1>2 DEF CompInvOf, Sized
  <1>4. QED
    BY <1>3 DEF CompInv

\* The start of a search keeps the invariant.
LEMMA DFSStarts ==
  ASSUME NEW n \in Nat, NEW g, Sized(g, n, 0), NEW s \in Seq(1 .. n),
         Components!StartDFS(g, s), c_edges' = 0,
         c_main' = "first DFS" \/ c_main' = "second DFS"
  PROVE  CompInv'
  <1>1. Len(g.neighbors) = n
    BY NumArcsIs DEF Sized
  <1>2. /\ c_pc' = "roots" /\ c_S' = s /\ c_next' = 1 /\ c_time' = 0 /\ c_stack' = <<>>
        /\ c_at' = Components!All(n, 0)
        /\ c_G' = [g EXCEPT !.color = Components!All(n, "WHITE"),
                         !.parent = Components!All(n, Components!NIL),
                         !.discover = Components!All(n, Components!UNDEF),
                         !.finish = Components!All(n, Components!UNDEF)]
    BY <1>1 DEF Components!StartDFS
  <1>3. PICK h : h = c_G'
    OBVIOUS
  <1>4. Sized(h, n, 0)
    BY <1>2, <1>3, SizedFresh
  <1>5. Components!All(n, 0) \in [1 .. n -> Nat]
    BY DEF Components!All
  <1>6. <<>> \in Seq(1 .. n) /\ 1 .. Len(<<>>) = {}
    BY AtTheStart
  <1>7. Running(n)'
    <2>1. 1 \in Nat \ {0} /\ 0 \in Int
      BY AtTheStart
    <2>2. /\ c_stack' \in Seq(1 .. n) /\ c_at' \in [1 .. n -> Nat]
          /\ c_next' \in Nat \ {0} /\ c_time' \in Int
      BY <1>2, <1>5, <1>6, <2>1
    <2>3. \A k \in 1 .. Len(c_stack') : c_at'[c_stack'[k]] > 0
      BY <1>2, <1>6
    <2>4. QED
      BY <2>2, <2>3 DEF Running
  <1>8. Sized(c_G, n, c_edges)'
    BY <1>3, <1>4 DEF Sized
  <1>9. CompInvOf(n)'
    BY <1>2, <1>7, <1>8 DEF CompInvOf
  <1>10. QED
    BY <1>9 DEF CompInv

\* The vertices from which DFS goes on.
LEMMA AtWork ==
  ASSUME NEW n \in Nat, CompInvOf(n), c_pc = "roots"
  PROVE  /\ Running(n) /\ c_edges = 0 /\ c_S \in Seq(1 .. n)
         /\ Sized(c_G, n, c_edges) /\ IsDigraph(c_G, n)
         /\ c_stack # <<>> => /\ Components!Top \in 1 .. n /\ c_at[Components!Top] \in Nat \ {0}
                              /\ Len(c_stack) \in Nat \ {0}
                              /\ Components!Top = c_stack[Len(c_stack)]
  <1>1. /\ Running(n) /\ c_edges = 0 /\ c_S \in Seq(1 .. n)
        /\ Sized(c_G, n, c_edges) /\ IsDigraph(c_G, n)
    BY DEF CompInvOf, Running, Sized, Components!Client
  <1>2. SUFFICES ASSUME c_stack # <<>>
                 PROVE  /\ Components!Top \in 1 .. n /\ c_at[Components!Top] \in Nat \ {0}
                        /\ Len(c_stack) \in Nat \ {0}
                        /\ Components!Top = c_stack[Len(c_stack)]
    BY <1>1
  <1>3. c_stack \in Seq(1 .. n)
    BY <1>1 DEF Running
  <1>4. PICK l \in Nat \ {0} : l = Len(c_stack)
    BY <1>2, <1>3, EmptySeq
  <1>5. l \in 1 .. Len(c_stack)
    BY <1>4
  <1>6. Components!Top = c_stack[l]
    BY <1>4 DEF Components!Top, Components!Last
  <1>7. c_stack[l] \in 1 .. n
    BY <1>3, <1>5, ElementOfSeq
  <1>8. c_at[c_stack[l]] \in Nat \ {0}
    <2>1. c_at \in [1 .. n -> Nat] /\ c_at[c_stack[l]] > 0
      BY <1>1, <1>5 DEF Running
    <2>2. PICK a \in Nat : a = c_at[c_stack[l]]
      BY <1>7, <2>1
    <2>3. QED
      BY <2>1, <2>2
  <1>9. QED
    BY <1>4, <1>6, <1>7, <1>8

\* Entering v: the cursors move on and none goes back to 0.
LEMMA Entering ==
  ASSUME NEW n \in Nat, CompInvOf(n), c_pc = "roots",
         NEW v \in 1 .. n, NEW p \in 0 .. n, Components!Enter(v, p),
         NEW a \in [1 .. n -> Nat], c_at' = a, a[v] > 0,
         \A w \in 1 .. n : c_at[w] > 0 => a[w] > 0,
         c_next' \in Nat \ {0},
         c_S' = c_S, c_pc' = c_pc, c_main' = c_main, c_edges' = c_edges
  PROVE  CompInv'
  <1>1. Running(n) /\ c_edges = 0 /\ c_S \in Seq(1 .. n) /\ Sized(c_G, n, c_edges)
    BY AtWork
  <1>2. PICK t \in Int : t = c_time + 1
    <2>1. c_time \in Int
      BY <1>1 DEF Running
    <2>2. QED
      BY <2>1
  <1>3. PICK h : h = [c_G EXCEPT !.discover[v] = t, !.color[v] = "GRAY", !.parent[v] = p]
    OBVIOUS
  <1>4. Sized(h, n, c_edges)
    <2>1. PICK g, e : g = c_G /\ e = c_edges
      OBVIOUS
    <2>2. Sized(g, n, e) /\ h = [g EXCEPT !.discover[v] = t, !.color[v] = "GRAY", !.parent[v] = p]
      BY <1>1, <1>3, <2>1
    <2>3. Sized(h, n, e)
      BY <2>2, SizedEnter
    <2>4. QED
      BY <2>1, <2>3
  <1>5. c_G' = h /\ c_time' = t /\ c_stack' = Append(c_stack, v)
    BY <1>2, <1>3 DEF Components!Enter
  <1>6. Sized(c_G, n, c_edges)'
    BY <1>4, <1>5
  <1>7. PICK s : s = Append(c_stack, v)
    OBVIOUS
  <1>8. s \in Seq(1 .. n) /\ \A k \in 1 .. Len(s) : a[s[k]] > 0
    <2>1. PICK T : T = 1 .. n
      OBVIOUS
    <2>2. c_stack \in Seq(T) /\ v \in T
      BY <1>1, <2>1 DEF Running
    <2>3. PICK l \in Nat : l = Len(c_stack)
      BY <2>2, LenProperties
    <2>4. s \in Seq(T) /\ Len(s) = l + 1
      BY <1>7, <2>2, <2>3, AppendProperties
    <2>5. \A k \in 1 .. (l + 1) : s[k] = IF k <= l THEN c_stack[k] ELSE v
      BY <1>7, <2>2, <2>3, AppendProperties, SMTT(30)
    <2>6. ASSUME NEW k \in 1 .. (l + 1) PROVE a[s[k]] > 0
      <3>1. CASE k <= l
        <4>1. k \in 1 .. Len(c_stack)
          BY <2>3, <3>1
        <4>2. c_stack[k] \in 1 .. n /\ c_at[c_stack[k]] > 0
          BY <1>1, <2>1, <2>2, <4>1, ElementOfSeq DEF Running
        <4>3. PICK w \in 1 .. n : w = c_stack[k]
          BY <4>2
        <4>4. a[w] > 0
          BY <4>2, <4>3
        <4>5. QED
          BY <2>5, <3>1, <4>3, <4>4
      <3>2. CASE ~(k <= l)
        BY <2>5, <3>2
      <3>3. QED
        BY <3>1, <3>2
    <2>7. QED
      BY <2>1, <2>4, <2>6
  <1>9. Running(n)'
    BY <1>1, <1>2, <1>5, <1>7, <1>8 DEF Running
  <1>10. CompInvOf(n)'
    BY <1>1, <1>6, <1>9 DEF CompInvOf
  <1>11. QED
    BY <1>10 DEF CompInv

\* The next root of the list keeps it.
LEMMA RootKeeps ==
  ASSUME NEW n \in Nat, CompInvOf(n), Components!NextRoot,
         c_main' = c_main, c_edges' = c_edges
  PROVE  CompInv'
  <1>1. c_pc = "roots" /\ c_stack = <<>> /\ c_next <= Len(c_S) /\ c_next' = c_next + 1
    BY DEF Components!NextRoot
  <1>2. Running(n) /\ c_edges = 0 /\ c_S \in Seq(1 .. n) /\ Sized(c_G, n, c_edges)
    BY <1>1, AtWork
  <1>3. PICK v \in 1 .. n : v = c_S[c_next]
    <2>1. c_next \in Nat \ {0} /\ Len(c_S) \in Nat
      BY <1>2, LenProperties DEF Running
    <2>2. c_next \in 1 .. Len(c_S)
      BY <1>1, <2>1
    <2>3. QED
      BY <1>2, <2>2, ElementOfSeq
  <1>4. c_next' \in Nat \ {0}
    <2>1. c_next \in Nat
      BY <1>2 DEF Running
    <2>2. QED
      BY <1>1, <2>1
  <1>5. CASE c_G.color[v] = "WHITE"
    <2>1. /\ Components!Enter(v, Components!NIL) /\ c_at' = [c_at EXCEPT ![v] = 1]
          /\ c_S' = c_S /\ c_pc' = c_pc
      BY <1>3, <1>5 DEF Components!NextRoot
    <2>2. PICK a : a = [c_at EXCEPT ![v] = 1]
      OBVIOUS
    <2>3. c_at \in [1 .. n -> Nat]
      BY <1>2 DEF Running
    <2>4. a \in [1 .. n -> Nat] /\ a[v] > 0 /\ \A w \in 1 .. n : c_at[w] > 0 => a[w] > 0
      BY <2>2, <2>3
    <2>5. PICK p \in 0 .. n : p = Components!NIL
      BY DEF Components!NIL
    <2>6. Components!Enter(v, p)
      BY <2>1, <2>5
    <2>7. QED
      BY <1>1, <1>4, <2>1, <2>2, <2>4, <2>6, Entering, Zenon
  <1>6. CASE c_G.color[v] # "WHITE"
    <2>1. /\ c_G' = c_G /\ c_stack' = c_stack /\ c_at' = c_at /\ c_time' = c_time
          /\ c_S' = c_S /\ c_pc' = c_pc
      BY <1>3, <1>6 DEF Components!NextRoot
    <2>2. Running(n)'
      BY <1>2, <1>4, <2>1 DEF Running
    <2>3. CompInvOf(n)'
      BY <1>1, <1>2, <2>1, <2>2 DEF CompInvOf, Sized
    <2>4. QED
      BY <2>3 DEF CompInv
  <1>7. QED
    BY <1>5, <1>6

\* A neighbour, new or passed over, keeps it.
LEMMA VisitKeeps ==
  ASSUME NEW n \in Nat, CompInvOf(n), Components!Visit,
         c_main' = c_main, c_edges' = c_edges
  PROVE  CompInv'
  <1>1. /\ c_pc = "roots" /\ c_stack # <<>>
        /\ c_at[Components!Top] <= Len(c_G.neighbors[Components!Top])
        /\ c_S' = c_S /\ c_pc' = c_pc /\ c_next' = c_next
    BY DEF Components!Visit
  <1>2. Running(n) /\ c_edges = 0 /\ c_S \in Seq(1 .. n) /\ Sized(c_G, n, c_edges) /\ IsDigraph(c_G, n)
    BY <1>1, AtWork
  <1>3. PICK u \in 1 .. n : u = Components!Top
    BY <1>1, AtWork
  <1>4. c_at[u] \in Nat \ {0}
    BY <1>1, <1>3, AtWork
  <1>5. PICK L \in Seq(1 .. n) : L = c_G.neighbors[u]
    BY <1>2 DEF IsDigraph
  <1>6. PICK v \in 1 .. n : v = Components!Neighbor
    <2>1. Len(L) \in Nat /\ c_at[u] <= Len(L)
      BY <1>1, <1>3, <1>5, LenProperties
    <2>2. c_at[u] \in 1 .. Len(L)
      BY <1>4, <2>1
    <2>3. L[c_at[u]] \in 1 .. n
      BY <2>2, ElementOfSeq
    <2>4. QED
      BY <1>3, <1>5, <2>3 DEF Components!Neighbor
  <1>7. c_at \in [1 .. n -> Nat] /\ c_next' \in Nat \ {0}
    BY <1>1, <1>2 DEF Running
  <1>8. PICK k \in Nat : k = c_at[u] + 1 /\ k > 0
    <2>1. PICK j \in Nat : j = c_at[u]
      BY <1>7
    <2>2. j + 1 \in Nat /\ j + 1 > 0
      OBVIOUS
    <2>3. QED
      BY <2>1, <2>2
  <1>9. CASE c_G.color[v] = "WHITE"
    <2>1. /\ Components!Enter(v, u)
          /\ c_at' = [c_at EXCEPT ![u] = @ + 1, ![v] = 1]
      BY <1>3, <1>6, <1>9 DEF Components!Visit
    <2>2. PICK b : b = [c_at EXCEPT ![u] = k]
      OBVIOUS
    <2>3. PICK a : a = [b EXCEPT ![v] = 1]
      OBVIOUS
    <2>4. c_at' = a
      BY <1>7, <1>8, <2>1, <2>2, <2>3
    <2>5. b \in [1 .. n -> Nat] /\ \A w \in 1 .. n : c_at[w] > 0 => b[w] > 0
      BY <1>7, <1>8, <2>2
    <2>6. a \in [1 .. n -> Nat] /\ a[v] > 0 /\ \A w \in 1 .. n : c_at[w] > 0 => a[w] > 0
      BY <2>3, <2>5
    <2>7. u \in 0 .. n
      OBVIOUS
    <2>8. QED
      BY <1>1, <1>7, <2>1, <2>4, <2>6, <2>7, Entering
  <1>10. CASE c_G.color[v] # "WHITE"
    <2>1. /\ c_G' = c_G /\ c_stack' = c_stack /\ c_time' = c_time
          /\ c_at' = [c_at EXCEPT ![u] = @ + 1]
      BY <1>3, <1>6, <1>10 DEF Components!Visit
    <2>2. PICK a : a = [c_at EXCEPT ![u] = k]
      OBVIOUS
    <2>3. c_at' = a
      BY <1>8, <2>1, <2>2
    <2>4. a \in [1 .. n -> Nat] /\ \A w \in 1 .. n : c_at[w] > 0 => a[w] > 0
      BY <1>7, <1>8, <2>2
    <2>5. \A j \in 1 .. Len(c_stack) : c_stack[j] \in 1 .. n /\ c_at[c_stack[j]] > 0
      BY <1>2, ElementOfSeq DEF Running
    <2>6. \A j \in 1 .. Len(c_stack) : a[c_stack[j]] > 0
      BY <2>4, <2>5
    <2>7. Running(n)'
      BY <1>1, <1>2, <2>1, <2>3, <2>4, <2>6 DEF Running
    <2>8. Sized(c_G, n, c_edges)'
      BY <1>2, <2>1
    <2>9. CompInvOf(n)'
      BY <1>1, <1>2, <2>7, <2>8 DEF CompInvOf
    <2>10. QED
      BY <2>9 DEF CompInv
  <1>11. QED
    BY <1>9, <1>10

\* The end of a call keeps it.
LEMMA LeaveKeeps ==
  ASSUME NEW n \in Nat, CompInvOf(n), Components!Leave,
         c_main' = c_main, c_edges' = c_edges
  PROVE  CompInv'
  <1>1. /\ c_pc = "roots" /\ c_stack # <<>>
        /\ c_S' = c_S /\ c_pc' = c_pc /\ c_next' = c_next /\ c_at' = c_at
        /\ c_time' = c_time + 1
        /\ c_G' = [c_G EXCEPT !.finish[Components!Top] = c_time', !.color[Components!Top] = "BLACK"]
        /\ c_stack' = Components!Front(c_stack)
    BY DEF Components!Leave
  <1>2. Running(n) /\ c_edges = 0 /\ c_S \in Seq(1 .. n) /\ Sized(c_G, n, c_edges) /\ IsDigraph(c_G, n)
    BY <1>1, AtWork
  <1>3. PICK u \in 1 .. n : u = Components!Top
    BY <1>1, AtWork
  <1>4. PICK t \in Int : t = c_time + 1
    <2>1. c_time \in Int
      BY <1>2 DEF Running
    <2>2. QED
      BY <2>1
  <1>5. PICK h : h = [c_G EXCEPT !.finish[u] = t, !.color[u] = "BLACK"]
    OBVIOUS
  <1>6. Sized(h, n, c_edges)
    <2>1. PICK g, e : g = c_G /\ e = c_edges
      OBVIOUS
    <2>2. Sized(g, n, e) /\ h = [g EXCEPT !.finish[u] = t, !.color[u] = "BLACK"]
      BY <1>2, <1>5, <2>1
    <2>3. Sized(h, n, e)
      BY <2>2, SizedLeave
    <2>4. QED
      BY <2>1, <2>3
  <1>7. c_G' = h
    BY <1>1, <1>3, <1>4, <1>5
  <1>8. PICK s : s = Components!Front(c_stack)
    OBVIOUS
  <1>9. s \in Seq(1 .. n) /\ \A k \in 1 .. Len(s) : c_at[s[k]] > 0
    <2>1. c_stack \in Seq(1 .. n) /\ \A k \in 1 .. Len(c_stack) : c_at[c_stack[k]] > 0
      BY <1>2 DEF Running
    <2>2. PICK l \in Nat \ {0} : l = Len(c_stack)
      BY <1>1, AtWork
    <2>3. s = SubSeq(c_stack, 1, l - 1)
      BY <1>8, <2>2 DEF Components!Front
    <2>4. \A k \in 1 .. (l - 1) : c_stack[k] \in 1 .. n /\ c_at[c_stack[k]] > 0
      <3>1. \A k \in 1 .. (l - 1) : k \in 1 .. Len(c_stack)
        BY <2>2
      <3>2. QED
        BY <2>1, <3>1, ElementOfSeq
    <2>5. 1 \in Int /\ l - 1 \in Int
      OBVIOUS
    <2>6. /\ s \in Seq(1 .. n)
          /\ Len(s) = IF 1 <= l - 1 THEN (l - 1) - 1 + 1 ELSE 0
          /\ \A k \in 1 .. (l - 1) - 1 + 1 : s[k] = c_stack[1 + k - 1]
      BY <2>3, <2>4, <2>5, SubSeqProperties
    <2>7. Len(s) = l - 1 /\ \A k \in 1 .. (l - 1) : s[k] = c_stack[k]
      BY <2>6
    <2>8. QED
      BY <2>4, <2>6, <2>7
  <1>10. Running(n)'
    BY <1>1, <1>2, <1>4, <1>8, <1>9 DEF Running
  <1>11. Sized(c_G, n, c_edges)'
    BY <1>2, <1>6, <1>7
  <1>12. CompInvOf(n)'
    BY <1>1, <1>2, <1>10, <1>11 DEF CompInvOf
  <1>13. QED
    BY <1>12 DEF CompInv

\* The end of the search keeps it.
LEMMA EndDFSKeeps ==
  ASSUME NEW n \in Nat, CompInvOf(n), Components!EndDFS,
         c_main' = c_main, c_edges' = c_edges
  PROVE  CompInv'
  <1>1. /\ c_pc = "roots" /\ c_pc' = "idle" /\ c_G' = c_G
        /\ c_S' = Components!FoldLeft(Components!Inserted, <<>>, c_S)
    BY DEF Components!EndDFS
  <1>2. Running(n) /\ c_edges = 0 /\ c_S \in Seq(1 .. n) /\ Sized(c_G, n, c_edges)
    BY <1>1, AtWork
  <1>3. c_S' \in Seq(1 .. n)
    <2>1. c_G.finish \in [1 .. n -> Int]
      BY <1>2 DEF Sized, IsDigraph
    <2>2. QED
      BY <1>1, <1>2, <2>1, SortedIs DEF Sorts
  <1>4. Sized(c_G, n, c_edges)' /\ c_main \in {"first DFS", "second DFS"}
    BY <1>1, <1>2 DEF Running
  <1>5. CompInvOf(n)'
    BY <1>1, <1>2, <1>3, <1>4 DEF CompInvOf
  <1>6. QED
    BY <1>5 DEF CompInv

\* All the steps of DFS keep it.
LEMMA DFSStepKeeps ==
  ASSUME NEW n \in Nat, CompInvOf(n), Components!DFSStep,
         c_main' = c_main, c_edges' = c_edges
  PROVE  CompInv'
  BY RootKeeps, VisitKeeps, LeaveKeeps, EndDFSKeeps DEF Components!DFSStep

-----------------------------------------------------------------------------
(* The programs                                                            *)
LEMMA MainKeepsSize ==
  ASSUME NEW n \in Nat, CompInvOf(n), Components!MainStep
  PROVE  CompInv'
  <1>1. Sized(c_G, n, c_edges) /\ IsDigraph(c_G, n) /\ c_S \in Seq(1 .. n)
    BY DEF CompInvOf, Sized
  <1>2. CASE Components!ReadOrder
    <2>1. PICK m \in Orders : c_G' = Components!newGraph(m)
      BY <1>2 DEF Components!ReadOrder
    <2>2. m \in Nat
      BY ProgramsAssumption
    <2>3. PICK g : g = Components!newGraph(m)
      OBVIOUS
    <2>4. Sized(g, m, 0)
      BY <2>2, <2>3, SizedNew
    <2>5. /\ c_main = "order" /\ c_main' = "arcs" /\ c_edges' = c_edges /\ c_S' = c_S /\ c_pc' = c_pc
      BY <1>2 DEF Components!ReadOrder, Components!dfs
    <2>6. c_edges' = 0
      BY <2>5 DEF CompInvOf, Components!Client
    <2>7. c_G' = g
      BY <2>1, <2>3
    <2>8. QED
      BY <2>2, <2>4, <2>5, <2>6, <2>7, GraphReplaced
  <1>3. CASE Components!ReadArc
    <2>1. /\ c_main = "arcs" /\ c_main' = "arcs" /\ c_edges' = c_edges /\ c_S' = c_S /\ c_pc' = c_pc
      BY <1>3 DEF Components!ReadArc, Components!dfs
    <2>2. PICK x \in 1 .. n, y \in 1 .. n : c_G' = Components!addArc(c_G, x, y)
      BY <1>1, <1>3, NumArcsIs DEF Components!ReadArc
    <2>3. c_edges = 0
      BY <2>1 DEF CompInvOf, Components!Client
    <2>4. PICK g : g = Components!addArc(c_G, x, y)
      OBVIOUS
    <2>5. Sized(g, n, 0)
      BY <1>1, <2>3, <2>4, SizedAddArc
    <2>6. c_G' = g /\ c_edges' = 0
      BY <2>1, <2>2, <2>3, <2>4
    <2>7. QED
      BY <2>1, <2>5, <2>6, GraphReplaced
  <1>4. CASE Components!ReadFails
    <2>1. /\ c_main \in {"order", "arcs"} /\ c_main' = "failed" /\ c_edges' = c_edges
          /\ c_S' = c_S /\ c_pc' = c_pc /\ c_G' = Components!newGraph(0)
      BY <1>4 DEF Components!ReadFails, Components!freeGraph, Components!dfs
    <2>2. c_edges = 0
      BY <2>1 DEF CompInvOf, Components!Client
    <2>3. PICK g : g = Components!newGraph(0)
      OBVIOUS
    <2>4. Sized(g, 0, 0) /\ 0 \in Nat
      BY <2>3, SizedNew
    <2>5. c_G' = g /\ c_edges' = 0
      BY <2>1, <2>2, <2>3
    <2>6. QED
      BY <2>1, <2>4, <2>5, GraphReplaced
  <1>5. CASE Components!ReadZeros
    <2>1. /\ c_main = "arcs" /\ c_main' = "first DFS" /\ c_edges' = c_edges
          /\ Components!StartDFS(c_G, Components!Identity(c_G))
      BY <1>5 DEF Components!ReadZeros
    <2>2. c_edges = 0
      BY <2>1 DEF CompInvOf, Components!Client
    <2>3. PICK s : s = Components!Identity(c_G)
      OBVIOUS
    <2>4. s \in Seq(1 .. n)
      <3>1. Components!Vertices(c_G) = 1 .. n
        BY <1>1, NumArcsIs
      <3>2. s = [v \in 1 .. n |-> v]
        BY <2>3, <3>1 DEF Components!Identity
      <3>3. s \in [1 .. n -> 1 .. n]
        BY <3>2
      <3>4. QED
        BY <3>3, FunIsSeq
    <2>5. PICK g : g = c_G
      OBVIOUS
    <2>6. Sized(g, n, 0) /\ Components!StartDFS(g, s) /\ c_edges' = 0
      BY <1>1, <2>1, <2>2, <2>3, <2>5
    <2>7. QED
      BY <2>1, <2>4, <2>6, DFSStarts
  <1>6. CASE Components!Transpose
    <2>1. /\ c_main = "first DFS" /\ c_main' = "second DFS" /\ c_edges' = c_edges
          /\ Components!StartDFS(Components!transpose(c_G), c_S)
      BY <1>6 DEF Components!Transpose
    <2>2. c_edges = 0
      BY <2>1 DEF CompInvOf, Components!Client
    <2>3. PICK g : g = Components!transpose(c_G)
      OBVIOUS
    <2>4. Sized(g, n, 0)
      BY <1>1, <2>2, <2>3, SizedTranspose
    <2>5. PICK s \in Seq(1 .. n) : s = c_S
      BY <1>1
    <2>6. Components!StartDFS(g, s) /\ c_edges' = 0
      BY <2>1, <2>2, <2>3, <2>5
    <2>7. QED
      BY <2>1, <2>4, <2>6, DFSStarts
  <1>7. CASE Components!PrintComponents
    <2>1. /\ c_main = "second DFS" /\ c_main' = "done" /\ c_edges' = c_edges /\ c_S' = c_S
          /\ c_pc = "idle" /\ c_pc' = c_pc /\ c_G' = c_G
      BY <1>7 DEF Components!PrintComponents, Components!dfs
    <2>2. c_edges = 0
      BY <2>1 DEF CompInvOf, Components!Client
    <2>3. Sized(c_G, n, c_edges)'
      BY <1>1, <2>1
    <2>4. CompInvOf(n)'
      BY <1>1, <2>1, <2>2, <2>3 DEF CompInvOf
    <2>5. QED
      BY <2>4 DEF CompInv
  <1>8. CASE Components!Finish
    <2>1. /\ c_main = "done" /\ c_main' = "returned" /\ c_edges' = c_edges /\ c_S' = <<>>
          /\ c_pc' = c_pc /\ c_G' = Components!newGraph(0)
      BY <1>8 DEF Components!Finish, Components!freeGraph, Components!dfs
    <2>2. c_edges = 0 /\ c_pc = "idle"
      BY <2>1 DEF CompInvOf, Running, Components!Client
    <2>3. Sized(c_G, 0, c_edges)'
      <3>1. PICK g : g = Components!newGraph(0)
        OBVIOUS
      <3>2. Sized(g, 0, 0)
        BY <3>1, SizedNew
      <3>3. QED
        BY <2>1, <2>2, <3>1, <3>2
    <2>4. <<>> \in Seq(1 .. 0) /\ 0 \in Nat
      OBVIOUS
    <2>5. CompInvOf(0)'
      BY <2>1, <2>2, <2>3, <2>4 DEF CompInvOf
    <2>6. QED
      BY <2>4, <2>5 DEF CompInv
  <1>9. CASE /\ c_main \in {"first DFS", "second DFS"} /\ Components!DFSStep
             /\ UNCHANGED <<c_main, c_first, c_edges, c_entered, c_printed>>
    BY <1>9, DFSStepKeeps
  <1>10. QED
    BY <1>2, <1>3, <1>4, <1>5, <1>6, <1>7, <1>8, <1>9 DEF Components!MainStep

\* The other clients' calls keep it.
LEMMA ClientKeepsSize ==
  ASSUME NEW n \in Nat, CompInvOf(n),
         \/ Components!CallNew \/ Components!CallFree \/ Components!CallCopy
         \/ Components!CallAddArc \/ Components!CallAddEdge \/ Components!CallDFSExits
  PROVE  CompInv'
  <1>1. Sized(c_G, n, c_edges) /\ IsDigraph(c_G, n) /\ c_S \in Seq(1 .. n) /\ c_edges \in Nat
    BY DEF CompInvOf, Sized
  <1>2. Len(c_G.neighbors) = n /\ Components!Vertices(c_G) = 1 .. n
    BY <1>1, NumArcsIs
  <1>3. ASSUME NEW g, Components!Call(g)
        PROVE  /\ c_G' = g /\ c_S' = c_S /\ c_pc' = c_pc
               /\ c_main = Components!Client /\ c_main' = Components!Client
    BY <1>3 DEF Components!Call, Components!dfs
  <1>4. CASE Components!CallNew
    <2>1. PICK m \in Orders : Components!Call(Components!newGraph(m)) /\ c_edges' = c_edges
      BY <1>4 DEF Components!CallNew
    <2>2. n = 0
      BY <1>2, <1>4, EmptySeq DEF Components!CallNew
    <2>3. c_edges = 0 /\ m \in Nat
      BY <2>2, ProgramsAssumption DEF CompInvOf
    <2>4. PICK g : g = Components!newGraph(m)
      OBVIOUS
    <2>5. Sized(g, m, 0) /\ c_edges' = 0
      BY <2>1, <2>3, <2>4, SizedNew
    <2>6. /\ c_G' = g /\ c_S' = c_S /\ c_pc' = c_pc
          /\ c_main = "client" /\ c_main' = "client"
      BY <1>3, <2>1, <2>4 DEF Components!Client
    <2>7. QED
      BY <2>3, <2>5, <2>6, GraphReplaced
  <1>5. CASE Components!CallFree
    <2>1. /\ c_main = "client" /\ c_main' = "client" /\ c_edges' = 0
          /\ c_S' = c_S /\ c_pc' = c_pc /\ c_G' = Components!newGraph(0)
      BY <1>5 DEF Components!CallFree, Components!freeGraph, Components!dfs, Components!Client
    <2>2. PICK g : g = Components!newGraph(0)
      OBVIOUS
    <2>3. Sized(g, 0, 0) /\ 0 \in Nat
      BY <2>2, SizedNew
    <2>4. c_G' = g
      BY <2>1, <2>2
    <2>5. QED
      BY <2>1, <2>3, <2>4, GraphReplaced
  <1>6. CASE Components!CallCopy
    <2>1. Components!Call(Components!copyGraph(c_G)) /\ c_edges' = c_edges
      BY <1>6 DEF Components!CallCopy
    <2>2. PICK g : g = Components!copyGraph(c_G)
      OBVIOUS
    <2>3. PICK e : e = c_edges
      OBVIOUS
    <2>4. Sized(g, n, e) /\ c_edges' = e
      BY <1>1, <2>1, <2>2, <2>3, SizedCopy
    <2>5. /\ c_G' = g /\ c_S' = c_S /\ c_pc' = c_pc
          /\ c_main = "client" /\ c_main' = "client"
      BY <1>3, <2>1, <2>2 DEF Components!Client
    <2>6. e # 0 => n # 0 /\ c_main' \in {Components!Client, "failed"}
      BY <2>3, <2>5 DEF CompInvOf, Components!Client
    <2>7. QED
      BY <2>4, <2>5, <2>6, GraphReplaced
  <1>7. CASE Components!CallAddArc
    <2>1. PICK x \in 1 .. n, y \in 1 .. n :
            Components!Call(Components!addArc(c_G, x, y)) /\ c_edges' = c_edges
      BY <1>2, <1>7 DEF Components!CallAddArc
    <2>2. PICK g : g = Components!addArc(c_G, x, y)
      OBVIOUS
    <2>3. PICK e : e = c_edges
      OBVIOUS
    <2>4. Sized(g, n, e) /\ c_edges' = e
      BY <1>1, <2>1, <2>2, <2>3, SizedAddArc
    <2>5. /\ c_G' = g /\ c_S' = c_S /\ c_pc' = c_pc
          /\ c_main = "client" /\ c_main' = "client"
      BY <1>3, <2>1, <2>2 DEF Components!Client
    <2>6. e # 0 => n # 0 /\ c_main' \in {Components!Client, "failed"}
      BY <2>3, <2>5 DEF CompInvOf, Components!Client
    <2>7. QED
      BY <2>4, <2>5, <2>6, GraphReplaced
  <1>8. CASE Components!CallAddEdge
    <2>1. PICK x \in 1 .. n, y \in 1 .. n :
            Components!Call(Components!addEdge(c_G, x, y)) /\ c_edges' = c_edges + 1
      BY <1>2, <1>8 DEF Components!CallAddEdge
    <2>2. PICK g : g = Components!addEdge(c_G, x, y)
      OBVIOUS
    <2>3. PICK e \in Nat : e = c_edges
      BY <1>1
    <2>4. Sized(g, n, e + 1) /\ c_edges' = e + 1
      BY <1>1, <2>1, <2>2, <2>3, SizedAddEdge
    <2>5. /\ c_G' = g /\ c_S' = c_S /\ c_pc' = c_pc
          /\ c_main = "client" /\ c_main' = "client"
      BY <1>3, <2>1, <2>2 DEF Components!Client
    <2>6. n # 0 /\ c_main' \in {Components!Client, "failed"}
      BY <2>5 DEF Components!Client
    <2>7. QED
      BY <2>4, <2>5, <2>6, GraphReplaced
  <1>9. CASE Components!CallDFSExits
    <2>1. /\ c_main = "client" /\ c_main' = "failed"
          /\ c_edges' = c_edges /\ c_G' = c_G /\ c_S' = c_S /\ c_pc' = c_pc
      BY <1>9 DEF Components!CallDFSExits, Components!dfs, Components!Client
    <2>2. PICK g, e : g = c_G /\ e = c_edges
      OBVIOUS
    <2>3. Sized(g, n, e) /\ c_G' = g /\ c_edges' = e
      BY <1>1, <2>1, <2>2
    <2>4. e # 0 => n # 0 /\ c_main' \in {Components!Client, "failed"}
      BY <2>1, <2>2 DEF CompInvOf
    <2>5. QED
      BY <2>1, <2>3, <2>4, GraphReplaced
  <1>10. QED
    BY <1>4, <1>5, <1>6, <1>7, <1>8, <1>9

\* Every step of the graph programs keeps it, and steps of the others leave it alone.
LEMMA SizeKept ==
  ASSUME CompInv, ProgramsAssumption,
         (program = "FindComponents" /\ Components!FindComponentsNext) \/ UNCHANGED componentVars
  PROVE  CompInv'
  <1>1. PICK n \in Nat : CompInvOf(n)
    BY DEF CompInv
  <1>2. CASE Components!MainStep
    BY <1>1, <1>2, MainKeepsSize
  <1>3. CASE \/ Components!CallNew \/ Components!CallFree \/ Components!CallCopy
             \/ Components!CallAddArc \/ Components!CallAddEdge \/ Components!CallDFSExits
    BY <1>1, <1>3, ClientKeepsSize
  <1>4. CASE UNCHANGED componentVars
    <2>1. /\ c_G' = c_G /\ c_S' = c_S /\ c_pc' = c_pc /\ c_next' = c_next /\ c_stack' = c_stack
          /\ c_at' = c_at /\ c_time' = c_time /\ c_main' = c_main /\ c_edges' = c_edges
      BY <1>4 DEF componentVars
    <2>2. Sized(c_G, n, c_edges)' /\ (Running(n) => Running(n)')
      BY <1>1, <2>1 DEF CompInvOf, Running
    <2>3. CompInvOf(n)'
      BY <1>1, <2>1, <2>2 DEF CompInvOf
    <2>4. QED
      BY <2>3 DEF CompInv
  <1>5. QED
    BY <1>2, <1>3, <1>4 DEF Components!FindComponentsNext

\* The invariant is inductive.
LEMMA SizeStays == CompInv /\ [Next]_vars => CompInv'
  BY SizeKept, ProgramsAssumption DEF Next, vars

\* Every edge between two vertices was entered by a call of its own.
EnteredInv == IsFiniteSet(c_entered) /\ c_edges \in Nat /\ Cardinality(c_entered) <= c_edges

\* No edge has been entered when the program starts.
LEMMA EnteredInit == Init => EnteredInv
  BY FS_EmptySet DEF Init, Components!FindComponentsInit, Components!MainInit, EnteredInv

\* A call of addEdge counts one and enters at most one.
LEMMA EnteredStays == EnteredInv /\ [Next]_vars => EnteredInv'
  <1>1. SUFFICES ASSUME EnteredInv,
                        Components!FindComponentsNext \/ UNCHANGED componentVars
                 PROVE  EnteredInv'
    BY DEF Next, vars
  <1>2. CASE UNCHANGED <<c_edges, c_entered>>
    BY <1>1, <1>2 DEF EnteredInv
  <1>3. CASE c_edges' = 0 /\ c_entered' = {}
    BY <1>3, FS_EmptySet DEF EnteredInv
  <1>4. ASSUME NEW x, NEW y, c_edges' = c_edges + 1,
               c_entered' = c_entered \cup (IF x = y THEN {} ELSE {{x, y}})
        PROVE  EnteredInv'
    <2>1. PICK S, e, k : S = c_entered /\ e = {x, y} /\ k = c_edges
      OBVIOUS
    <2>2. IsFiniteSet(S) /\ Cardinality(S) <= k /\ Cardinality(S) \in Nat /\ k \in Nat
      BY <1>1, <2>1, FS_CardinalityType DEF EnteredInv
    <2>3. /\ IsFiniteSet(S \cup {e})
          /\ Cardinality(S \cup {e}) = IF e \in S THEN Cardinality(S) ELSE Cardinality(S) + 1
      BY <2>2, FS_AddElement
    <2>4. /\ IsFiniteSet(S \cup {e}) /\ Cardinality(S \cup {e}) <= k + 1
          /\ Cardinality(S) <= k + 1 /\ k + 1 \in Nat
      BY <2>2, <2>3
    <2>5. c_entered' = S \/ c_entered' = S \cup {e}
      BY <1>4, <2>1
    <2>6. QED
      BY <1>4, <2>1, <2>2, <2>4, <2>5 DEF EnteredInv
  <1>5. CASE Components!FindComponentsNext
    <2>1. CASE Components!MainStep
      <3>1. UNCHANGED <<c_edges, c_entered>>
        BY <2>1 DEF Components!MainStep, Components!ReadOrder, Components!ReadArc,
                    Components!ReadFails, Components!ReadZeros, Components!Transpose,
                    Components!PrintComponents, Components!Finish
      <3>2. QED
        BY <1>2, <3>1
    <2>2. CASE \/ Components!CallNew \/ Components!CallCopy \/ Components!CallAddArc
               \/ Components!CallDFSExits
      <3>1. UNCHANGED <<c_edges, c_entered>>
        BY <2>2 DEF Components!CallNew, Components!CallCopy, Components!CallAddArc,
                    Components!CallDFSExits
      <3>2. QED
        BY <1>2, <3>1
    <2>3. CASE Components!CallFree
      BY <1>3, <2>3 DEF Components!CallFree
    <2>4. CASE Components!CallAddEdge
      BY <1>4, <2>4 DEF Components!CallAddEdge
    <2>5. QED
      BY <1>5, <2>1, <2>2, <2>3, <2>4 DEF Components!FindComponentsNext
  <1>6. QED
    BY <1>1, <1>2, <1>5 DEF componentVars

\* The property follows from the invariant.
LEMMA SizeFollows ==
  ASSUME CompInv, EnteredInv
  PROVE  SizeCountsEdges
  <1>1. PICK n \in Nat : CompInvOf(n)
    BY DEF CompInv
  <1>2. Sized(c_G, n, c_edges) /\ IsDigraph(c_G, n) /\ Strict(c_G, n)
    <2>1. Sized(c_G, n, c_edges)
      BY <1>1 DEF CompInvOf
    <2>2. QED
      BY <2>1 DEF Sized
  <1>3. /\ c_G.size <= Components!NumberOfEdges
        /\ c_edges = Components!Cardinality(c_entered) => c_G.size = Components!NumberOfEdges
    <2>1. PICK a, s, k, e : /\ a = Cardinality(Slots(c_G, n)) /\ s = c_G.size
                            /\ k = Cardinality(c_entered) /\ e = c_edges
      OBVIOUS
    <2>2. Components!NumArcs(c_G) = a
      BY <1>2, <2>1, NumArcsIs
    <2>3. Components!Cardinality(c_entered) = k
      BY <2>1 DEF Components!Cardinality, Cardinality
    <2>4. a \in Nat /\ s = a - e
      BY <1>2, <2>1, SlotsAreFinite, FS_CardinalityType DEF Sized
    <2>5. k \in Nat /\ e \in Nat /\ k <= e
      BY <2>1, FS_CardinalityType DEF EnteredInv
    <2>6. s <= a - k /\ (e = k => s = a - k)
      BY <2>4, <2>5
    <2>7. QED
      BY <2>1, <2>2, <2>3, <2>6 DEF Components!NumberOfEdges
  <1>4. ASSUME NEW x \in Components!Vertices(c_G), NEW k \in 2 .. Len(c_G.neighbors[x])
        PROVE  c_G.neighbors[x][k - 1] < c_G.neighbors[x][k]
    <2>1. x \in 1 .. n
      BY <1>2, NumArcsIs
    <2>2. PICK L \in Seq(1 .. n) : L = c_G.neighbors[x]
      BY <1>2, <2>1, NumArcsIs
    <2>3. Rises(L, 1)
      BY <1>2, <2>1, <2>2 DEF Strict
    <2>4. Len(L) \in Nat /\ k \in 2 .. Len(L)
      BY <2>2, LenProperties
    <2>5. k - 1 \in 1 .. Len(L) /\ k \in 1 .. Len(L) /\ k - 1 < k
      BY <2>4
    <2>6. L[k - 1] < L[k]
      BY <2>3, <2>5, RisesApart
    <2>7. QED
      BY <2>2, <2>6
  <1>5. QED
    BY <1>3, <1>4 DEF SizeCountsEdges, Components!SizeCountsEdges

(* getSize is the number of edges, for graphs of any order, as long as     *)
(* every call of addEdge enters an edge between two vertices that none     *)
(* entered before, and at most that number after any calls; no list has an *)
(* arc twice.  So the size that transpose keeps is the one of the graph it *)
(* makes: it enters every arc once, turned round, and the arcs of a graph  *)
(* in which none is twice are as many either way.                          *)
THEOREM SizeIsRight == Spec => []SizeCountsEdges
  <1>1. Spec => [](CompInv /\ EnteredInv)
    <2>1. Init => CompInv /\ EnteredInv
      BY CompInit, EnteredInit
    <2>2. CompInv /\ EnteredInv /\ [Next]_vars => CompInv' /\ EnteredInv'
      BY SizeStays, EnteredStays
    <2>3. QED
      BY <2>1, <2>2, PTL DEF Spec
  <1>2. CompInv /\ EnteredInv => SizeCountsEdges
    BY SizeFollows
  <1>3. QED
    BY <1>1, <1>2, PTL

-----------------------------------------------------------------------------
(* The ancestors of a vertex                                               *)
\* up[k] is v and what is at most k parents above it.
Climb(g, up, v, n) ==
  /\ up[0] = {v}
  /\ \A k \in 1 .. n : up[k] = up[k - 1] \cup ({g.parent[x] : x \in up[k - 1]} \ {0})

\* Above(v) is what n steps up along the parents collect.
LEMMA AboveIs ==
  ASSUME NEW n \in Nat, IsDigraph(c_G, n), Len(c_S) = n, NEW v \in 1 .. n
  PROVE  \E up \in [0 .. n -> SUBSET (1 .. n)] :
           Climb(c_G, up, v, n) /\ Components!Above(v) = up[n]
  <1> DEFINE Higher(B) == B \cup ({c_G.parent[x] : x \in B} \ {0})
             Along(f) == [k \in 0 .. Len(c_S) |-> IF k = 0 THEN {v} ELSE Higher(f[k - 1])]
             step == [B \in SUBSET (1 .. n) |-> Higher(B)]
             up == CHOOSE f : f = Along(f)
  <1>1. Components!Above(v) = up[n]
    BY DEF Components!Above, Components!NIL
  <1>2. \A B \in SUBSET (1 .. n) : Higher(B) \in SUBSET (1 .. n)
    <2>1. \A x \in 1 .. n : c_G.parent[x] \in 0 .. n
      BY DEF IsDigraph
    <2>2. SUFFICES ASSUME NEW B \in SUBSET (1 .. n), NEW x \in B, c_G.parent[x] # 0
                   PROVE  c_G.parent[x] \in 1 .. n
      OBVIOUS
    <2>3. c_G.parent[x] \in 0 .. n
      BY <2>1
    <2>4. QED
      BY <2>2, <2>3
  <1>3. step \in [SUBSET (1 .. n) -> SUBSET (1 .. n)] /\ {v} \in SUBSET (1 .. n)
    BY <1>2
  <1>4. \A B \in SUBSET (1 .. n) : step[B] = Higher(B)
    OBVIOUS
  <1> HIDE DEF step, Higher
  <1>5. PICK it \in [0 .. n -> SUBSET (1 .. n)] : Iteration(step, {v}, n, it)
    BY <1>3, Iterates
  <1>6. \A k \in 0 .. n : it[k] = IF k = 0 THEN {v} ELSE Higher(it[k - 1])
    <2>1. it = [k \in 0 .. n |-> IF k = 0 THEN {v} ELSE step[it[k - 1]]]
      BY <1>5 DEF Iteration
    <2>2. ASSUME NEW k \in 0 .. n, k # 0 PROVE it[k - 1] \in SUBSET (1 .. n)
      <3>1. k - 1 \in 0 .. n
        BY <2>2
      <3>2. QED
        BY <3>1
    <2>3. QED
      BY <1>4, <2>1, <2>2
  <1>7. it = Along(it)
    <2>1. it = [k \in 0 .. n |-> it[k]]
      OBVIOUS
    <2>2. QED
      BY <1>6, <2>1
  <1>8. up = Along(up)
    <2> HIDE DEF Along
    <2>1. QED
      BY <1>7
  <1> HIDE DEF up
  <1>9. \A k \in 0 .. n : up[k] = IF k = 0 THEN {v} ELSE Higher(up[k - 1])
    BY <1>8
  <1>10. \A k \in 0 .. n : up[k] = it[k]
    <2> DEFINE S == {k \in Nat : k <= n => up[k] = it[k]}
    <2>1. 0 \in S
      <3>1. 0 \in 0 .. n
        OBVIOUS
      <3>2. up[0] = {v} /\ it[0] = {v}
        BY <1>6, <1>9, <3>1
      <3>3. QED
        BY <3>2
    <2>2. ASSUME NEW k \in S PROVE k + 1 \in S
      <3>1. k + 1 \in Nat
        OBVIOUS
      <3>2. ASSUME k + 1 <= n PROVE up[k + 1] = it[k + 1]
        <4>1. k + 1 \in 0 .. n /\ k + 1 # 0 /\ (k + 1) - 1 = k /\ k <= n
          BY <3>2
        <4>2. QED
          BY <1>6, <1>9, <4>1
      <3>3. QED
        BY <3>1, <3>2
    <2>3. S \in SUBSET Nat
      OBVIOUS
    <2> HIDE DEF S
    <2>4. S = Nat
      BY <2>1, <2>2, <2>3, EveryNat
    <2>5. \A k \in 0 .. n : k \in S /\ k <= n
      BY <2>4
    <2>6. QED
      BY <2>5 DEF S
  <1>11. Climb(c_G, it, v, n)
    BY <1>6 DEF Climb, Higher
  <1>12. QED
    BY <1>1, <1>10, <1>11

\* Whatever is above w encloses it.
LEMMA AboveEncloses ==
  ASSUME NEW g, NEW n \in Nat, NEW st, NEW t \in Nat, NEW a, Nested(g, st, a, t, n),
         NEW w \in Reached(g, n), NEW up \in [0 .. n -> SUBSET (1 .. n)], Climb(g, up, w, n)
  PROVE  \A v \in up[n] : /\ v \in Reached(g, n)
                          /\ g.color[v] = "BLACK" =>
                               g.color[w] = "BLACK" /\ g.finish[w] <= g.finish[v]
  <1> DEFINE Round(v) == /\ v \in Reached(g, n)
                         /\ g.color[v] = "BLACK" =>
                              g.color[w] = "BLACK" /\ g.finish[w] <= g.finish[v]
             P == {k \in Nat : k <= n => \A v \in up[k] : Round(v)}
  <1>1. Enclosed(g, n) /\ \A v \in Reached(g, n) : g.finish[v] \in Int
    BY DEF Nested, IsDigraph, Reached
  <1>2. 0 \in P
    BY <1>1 DEF Climb
  <1>3. ASSUME NEW x \in Reached(g, n), Round(x), g.parent[x] # 0
        PROVE  Round(g.parent[x])
    BY <1>1, <1>3 DEF Enclosed
  <1> HIDE DEF Round
  <1>4. ASSUME NEW k \in P PROVE k + 1 \in P
    <2>1. k + 1 \in Nat
      OBVIOUS
    <2>2. ASSUME k + 1 <= n, NEW v \in up[k + 1] PROVE Round(v)
      <3>1. k + 1 \in 1 .. n /\ (k + 1) - 1 = k /\ k <= n
        BY <2>2
      <3>2. up[k + 1] = up[k] \cup ({g.parent[x] : x \in up[k]} \ {0})
        BY <3>1 DEF Climb
      <3>3. \A x \in up[k] : Round(x)
        BY <3>1
      <3>4. CASE v \in up[k]
        BY <3>3, <3>4
      <3>5. CASE v \notin up[k]
        <4>1. PICK x \in up[k] : v = g.parent[x] /\ v # 0
          BY <2>2, <3>2, <3>5
        <4>2. Round(x)
          BY <3>3
        <4>3. x \in Reached(g, n)
          BY <4>2 DEF Round
        <4>4. QED
          BY <1>3, <4>1, <4>2, <4>3
      <3>6. QED
        BY <3>4, <3>5
    <2>3. QED
      BY <2>1, <2>2
  <1>5. P \in SUBSET Nat
    OBVIOUS
  <1> HIDE DEF P
  <1>6. P = Nat
    BY <1>2, <1>4, <1>5, EveryNat
  <1>7. n \in P /\ n <= n
    BY <1>6
  <1>8. QED
    BY <1>7 DEF P, Round

\* What was discovered no earlier than x.
Since(g, x, n) == {y \in Reached(g, n) : g.discover[y] >= g.discover[x]}

\* What is discovered while v is gray is below it: if v were not among the first
\* k above w, k of them would have been discovered after v.
LEMMA InsideIsBelow ==
  ASSUME NEW g, NEW n \in Nat, NEW st, NEW t \in Nat, NEW a, Nested(g, st, a, t, n),
         NEW v \in Reached(g, n), NEW w \in Reached(g, n),
         g.discover[v] < g.discover[w], ~Ended(g, v, g.discover[w]),
         NEW up \in [0 .. n -> SUBSET (1 .. n)], Climb(g, up, w, n)
  PROVE  v \in up[n]
  <1> DEFINE Far(x, k) == /\ x \in Reached(g, n) /\ g.discover[v] < g.discover[x]
                          /\ ~Ended(g, v, g.discover[x])
                          /\ Cardinality(Since(g, x, n)) > k
             P == {k \in Nat : k <= n => v \in up[k] \/ \E x \in up[k] : Far(x, k)}
  <1>1. /\ Enclosed(g, n) /\ Hangs(g, n) /\ Reached(g, n) \in SUBSET (1 .. n)
        /\ \A x \in Reached(g, n) : g.finish[x] \in Int /\ g.discover[x] \in Int
    BY DEF Nested, IsDigraph, Reached
  <1>2. \A x \in Reached(g, n) : /\ IsFiniteSet(Since(g, x, n)) /\ x \in Since(g, x, n)
                                 /\ Cardinality(Since(g, x, n)) \in 0 .. n
    <2>1. SUFFICES ASSUME NEW x \in Reached(g, n)
                   PROVE  /\ IsFiniteSet(Since(g, x, n)) /\ x \in Since(g, x, n)
                          /\ Cardinality(Since(g, x, n)) \in 0 .. n
      OBVIOUS
    <2>2. Since(g, x, n) \in SUBSET (1 .. n) /\ x \in Since(g, x, n)
      BY <1>1 DEF Since
    <2>3. IsFiniteSet(1 .. n) /\ Cardinality(1 .. n) = n
      BY FS_Interval
    <2>4. IsFiniteSet(Since(g, x, n)) /\ Cardinality(Since(g, x, n)) <= n
      BY <2>2, <2>3, FS_Subset
    <2>5. Cardinality(Since(g, x, n)) \in Nat
      BY <2>4, FS_CardinalityType
    <2>6. QED
      BY <2>2, <2>4, <2>5
  <1>3. 0 \in P
    <2>1. Cardinality(Since(g, w, n)) # 0
      <3>1. Since(g, w, n) # {}
        BY <1>2
      <3>2. QED
        BY <1>2, <3>1, FS_EmptySet
    <2>2. PICK c \in Nat : c = Cardinality(Since(g, w, n))
      BY <1>2
    <2>3. c > 0
      BY <2>1, <2>2
    <2>4. Far(w, 0)
      BY <2>2, <2>3
    <2>5. QED
      BY <2>4 DEF Climb
  <1>4. ASSUME NEW k \in Nat, NEW x, Far(x, k)
        PROVE  /\ g.parent[x] # 0
               /\ g.parent[x] = v \/ Far(g.parent[x], k + 1)
    <2>1. PICK p : p = g.parent[x]
      OBVIOUS
    <2>2. p = v \/ (p # 0 /\ g.discover[v] < g.discover[p])
      BY <1>1, <1>4, <2>1 DEF Hangs
    <2>3. p # 0
      BY <1>1, <2>2
    <2>4. ASSUME p # v PROVE Far(p, k + 1)
      <3>1. g.discover[v] < g.discover[p]
        BY <2>2, <2>4
      <3>2. p \in Reached(g, n) /\ g.discover[p] < g.discover[x]
        BY <1>1, <1>4, <2>1, <2>3 DEF Enclosed
      <3>3. ~Ended(g, v, g.discover[p])
        BY <1>1, <1>4, <3>2 DEF Ended
      <3>4. /\ Since(g, x, n) \cup {p} \in SUBSET Since(g, p, n)
            /\ p \notin Since(g, x, n)
        <4>1. \A y \in Reached(g, n) : g.discover[y] >= g.discover[x] => g.discover[y] >= g.discover[p]
          BY <1>1, <1>4, <3>2, SMTT(30)
        <4>2. g.discover[p] >= g.discover[p] /\ ~(g.discover[p] >= g.discover[x])
          BY <1>1, <1>4, <3>2
        <4>3. QED
          BY <3>2, <4>1, <4>2 DEF Since
      <3>5. Cardinality(Since(g, x, n) \cup {p}) = Cardinality(Since(g, x, n)) + 1
        BY <1>2, <1>4, <3>4, FS_AddElement
      <3>6. Cardinality(Since(g, x, n) \cup {p}) <= Cardinality(Since(g, p, n))
        BY <1>2, <3>2, <3>4, FS_Subset
      <3>7. Cardinality(Since(g, p, n)) > k + 1
        <4>1. PICK c \in Nat, d \in Nat :
                c = Cardinality(Since(g, x, n)) /\ d = Cardinality(Since(g, p, n))
          BY <1>2, <1>4, <3>2
        <4>2. c > k /\ c + 1 <= d
          BY <1>4, <3>5, <3>6, <4>1
        <4>3. d > k + 1
          BY <4>2
        <4>4. QED
          BY <4>1, <4>3
      <3>8. QED
        BY <3>1, <3>2, <3>3, <3>7
    <2>5. QED
      BY <2>1, <2>3, <2>4
  <1>5. ASSUME NEW x, Far(x, n) PROVE FALSE
    <2>1. PICK c \in 0 .. n : c = Cardinality(Since(g, x, n))
      BY <1>2, <1>5
    <2>2. c > n
      BY <1>5, <2>1
    <2>3. QED
      BY <2>2
  <1> HIDE DEF Far
  <1>6. ASSUME NEW k \in P PROVE k + 1 \in P
    <2>1. k \in Nat /\ k + 1 \in Nat
      OBVIOUS
    <2>2. ASSUME k + 1 <= n PROVE v \in up[k + 1] \/ \E x \in up[k + 1] : Far(x, k + 1)
      <3>1. k + 1 \in 1 .. n /\ (k + 1) - 1 = k /\ k <= n
        BY <2>2
      <3>2. up[k + 1] = up[k] \cup ({g.parent[x] : x \in up[k]} \ {0})
        BY <3>1 DEF Climb
      <3>3. CASE v \in up[k]
        BY <3>2, <3>3
      <3>4. CASE v \notin up[k]
        <4>1. PICK x \in up[k] : Far(x, k)
          BY <3>1, <3>4
        <4>2. g.parent[x] # 0 /\ (g.parent[x] = v \/ Far(g.parent[x], k + 1))
          BY <1>4, <2>1, <4>1
        <4>3. g.parent[x] \in up[k + 1]
          BY <3>2, <4>1, <4>2
        <4>4. QED
          BY <4>2, <4>3
      <3>5. QED
        BY <3>3, <3>4
    <2>3. QED
      BY <2>1, <2>2
  <1>7. P \in SUBSET Nat
    OBVIOUS
  <1> HIDE DEF P
  <1>8. P = Nat
    BY <1>3, <1>6, <1>7, EveryNat
  <1>9. n \in P /\ n <= n
    BY <1>8
  <1>10. QED
    BY <1>5, <1>9 DEF P

-----------------------------------------------------------------------------
(* The nesting of the calls                                                *)
\* A nested state is one in which VisitsNest holds.
LEMMA NestedNests ==
  ASSUME NEW n \in Nat, NEW t \in Nat, t = c_time, Nested(c_G, c_stack, c_at, t, n), Len(c_S) = n
  PROVE  VisitsNest
  <1> DEFINE R == Reached(c_G, n)
  <1>1. /\ Stacked(c_G, c_stack, n) /\ Timed(c_G, t, n) /\ Enclosed(c_G, n) /\ Hangs(c_G, n)
        /\ Followed(c_G, c_at, n) /\ IsDigraph(c_G, n)
    BY DEF Nested
  <1>2. c_stack \in Seq(1 .. n)
    BY DEF Nested
  <1>3. PICK l \in Nat : l = Len(c_stack)
    BY <1>2, LenProperties
  <1>4. DOMAIN c_stack = 1 .. l /\ \A k \in 1 .. l : c_stack[k] \in 1 .. n
    <2>1. DOMAIN c_stack = 1 .. l
      BY <1>2, <1>3, LenProperties
    <2>2. QED
      BY <1>2, <1>3, ElementOfSeq
  <1>5. Components!Vertices(c_G) = 1 .. n
    BY <1>1, NumArcsIs
  <1>6. /\ R \in SUBSET (1 .. n) /\ {v \in 1 .. n : c_G.color[v] # "WHITE"} = R
        /\ \A v \in 1 .. n : c_G.discover[v] \in Int /\ c_G.finish[v] \in Int
    BY <1>1 DEF Reached, IsDigraph
  <1>7. Components!IsInjective(c_stack)
    <2>1. SUFFICES ASSUME NEW j \in 1 .. l, NEW k \in 1 .. l, c_stack[j] = c_stack[k]
                   PROVE  j = k
      BY <1>4 DEF Components!IsInjective
    <2>2. \A i, m \in 1 .. l : i < m => c_G.discover[c_stack[i]] < c_G.discover[c_stack[m]]
      BY <1>1, <1>3 DEF Stacked
    <2>3. c_G.discover[c_stack[j]] \in Int
      BY <1>4, <1>6
    <2>4. ~(j < k) /\ ~(k < j)
      BY <2>1, <2>2, <2>3
    <2>5. QED
      BY <2>4
  <1>8. Components!ToSet(c_stack) = {v \in 1 .. n : c_G.color[v] = "GRAY"}
    <2>1. Components!ToSet(c_stack) = {c_stack[k] : k \in 1 .. l}
      BY <1>4 DEF Components!ToSet
    <2>2. \A v \in 1 .. n : c_G.color[v] = "GRAY" <=> \E k \in 1 .. l : c_stack[k] = v
      BY <1>1, <1>3 DEF Stacked
    <2>3. QED
      BY <1>4, <2>1, <2>2
  <1>9. \A k \in 1 .. l : c_G.parent[c_stack[k]] = IF k = 1 THEN 0 ELSE c_stack[k - 1]
    BY <1>1, <1>3 DEF Stacked
  <1>10. ASSUME NEW v \in R, NEW w \in R, c_G.discover[v] < c_G.discover[w]
         PROVE  IF v \in Components!Above(w) THEN Components!Until(w) <= Components!Until(v)
                ELSE Components!Until(v) < c_G.discover[w]
    <2>1. v \in 1 .. n /\ w \in 1 .. n
      BY <1>6
    <2>2. PICK up \in [0 .. n -> SUBSET (1 .. n)] :
            Climb(c_G, up, w, n) /\ Components!Above(w) = up[n]
      BY <1>1, <2>1, AboveIs
    <2>3. t <= 2 * n
      <3>1. PICK x \in 0 .. n, y \in 0 .. n :
              x = Cardinality(Reached(c_G, n)) /\ y = Cardinality(Blackened(c_G, n))
        BY CountsAre
      <3>2. t = x + y
        BY <1>1, <3>1 DEF Timed
      <3>3. QED
        BY <3>2
    <2>4. ASSUME NEW x \in R
          PROVE  /\ c_G.color[x] = "BLACK" => /\ Components!Until(x) = c_G.finish[x]
                                              /\ c_G.finish[x] \in 1 .. t
                 /\ c_G.color[x] # "BLACK" => Components!Until(x) = 2 * n + 1
      <3>1. x \in 1 .. n
        BY <1>6
      <3>2. c_G.color[x] = "BLACK" => c_G.finish[x] \in 1 .. t /\ c_G.finish[x] # -1
        BY <1>1 DEF Timed
      <3>3. c_G.color[x] # "BLACK" => c_G.finish[x] = -1
        BY <1>1, <3>1 DEF Timed
      <3>4. QED
        BY <3>2, <3>3 DEF Components!Until, Components!UNDEF
    <2>5. CASE v \in Components!Above(w)
      <3>1. c_G.color[v] = "BLACK" => c_G.color[w] = "BLACK" /\ c_G.finish[w] <= c_G.finish[v]
        BY <2>2, <2>5, AboveEncloses
      <3>2. CASE c_G.color[v] = "BLACK"
        <4>1. Components!Until(v) = c_G.finish[v] /\ Components!Until(w) = c_G.finish[w]
          BY <2>4, <3>1, <3>2
        <4>2. QED
          BY <2>5, <3>1, <3>2, <4>1
      <3>3. CASE c_G.color[v] # "BLACK"
        <4>1. Components!Until(v) = 2 * n + 1
          BY <2>4, <3>3
        <4>2. PICK z \in Int : z = Components!Until(w) /\ z <= 2 * n + 1
          <5>1. CASE c_G.color[w] = "BLACK"
            <6>1. PICK f \in 1 .. t : f = c_G.finish[w]
              BY <2>4, <5>1
            <6>2. Components!Until(w) = f
              BY <2>4, <5>1, <6>1
            <6>3. f \in Int /\ f <= 2 * n + 1
              BY <2>3
            <6>4. QED
              BY <6>2, <6>3
          <5>2. CASE c_G.color[w] # "BLACK"
            <6>1. Components!Until(w) = 2 * n + 1
              BY <2>4, <5>2
            <6>2. 2 * n + 1 \in Int /\ 2 * n + 1 <= 2 * n + 1
              OBVIOUS
            <6>3. QED
              BY <6>1, <6>2
          <5>3. QED
            BY <5>1, <5>2
        <4>3. QED
          BY <2>5, <4>1, <4>2
      <3>4. QED
        BY <3>2, <3>3
    <2>6. CASE v \notin Components!Above(w)
      <3>1. Ended(c_G, v, c_G.discover[w])
        BY <1>10, <2>2, <2>6, InsideIsBelow
      <3>2. Components!Until(v) = c_G.finish[v]
        BY <2>4, <3>1 DEF Ended
      <3>3. QED
        BY <2>6, <3>1, <3>2 DEF Ended
    <2>7. QED
      BY <2>5, <2>6
  <1>11. ASSUME NEW v \in R, c_G.color[v] = "BLACK"
         PROVE  Components!ToSet(c_G.neighbors[v]) \subseteq R
    <2>1. \A j \in DOMAIN c_G.neighbors[v] : c_G.neighbors[v][j] \in R
      BY <1>1, <1>11 DEF Followed
    <2>2. QED
      BY <2>1 DEF Components!ToSet
  <1> HIDE DEF R
  <1>12. Components!VisitsNest
    <2>1. \A v \in 1 .. n : v \in R <=> c_G.color[v] # "WHITE"
      BY <1>6
    <2>2. QED
      BY <1>4, <1>5, <1>6, <1>7, <1>8, <1>9, <1>10, <1>11
      DEF Components!VisitsNest, Components!NIL
  <1>13. QED
    BY <1>12 DEF VisitsNest

-----------------------------------------------------------------------------
\* While DFS runs its calls nest.
NestInv ==
  c_pc = "roots" =>
    /\ c_time \in Nat
    /\ Len(c_S) = Len(c_G.neighbors)
    /\ Nested(c_G, c_stack, c_at, c_time, Len(c_G.neighbors))

\* The invariant after a step, from the values after the step.
LEMMA NestsNext ==
  ASSUME NEW n \in Nat, NEW h, NEW s, NEW b, NEW t \in Nat, Nested(h, s, b, t, n),
         c_G' = h, c_stack' = s, c_at' = b, c_time' = t, Len(c_S') = n
  PROVE  NestInv'
  <1>1. Len(h.neighbors) = n
    BY NumArcsIs DEF Nested
  <1>2. QED
    BY <1>1 DEF NestInv

\* What is known while DFS runs, of values that do not change with its steps.
LEMMA NestsNow ==
  ASSUME NEW n \in Nat, CompInvOf(n), NestInv, c_pc = "roots"
  PROVE  \E g, st, a : \E t \in Nat :
           /\ g = c_G /\ st = c_stack /\ a = c_at /\ t = c_time
           /\ Nested(g, st, a, t, n) /\ IsDigraph(g, n) /\ st \in Seq(1 .. n)
           /\ a \in [1 .. n -> Nat] /\ Len(c_S) = n
  <1>1. IsDigraph(c_G, n)
    BY AtWork
  <1>2. Len(c_G.neighbors) = n
    BY <1>1, NumArcsIs
  <1>3. c_time \in Nat /\ Len(c_S) = n /\ Nested(c_G, c_stack, c_at, c_time, n)
    BY <1>2 DEF NestInv
  <1>4. c_stack \in Seq(1 .. n) /\ c_at \in [1 .. n -> Nat]
    BY <1>3 DEF Nested
  <1>5. QED
    BY <1>1, <1>3, <1>4

\* The next root of the list keeps the nesting.
LEMMA RootNests ==
  ASSUME NEW n \in Nat, CompInvOf(n), NestInv, Components!NextRoot
  PROVE  NestInv'
  <1>1. c_pc = "roots" /\ c_stack = <<>> /\ c_next <= Len(c_S) /\ c_S' = c_S
    BY DEF Components!NextRoot
  <1>2. PICK g, st, a : \E t \in Nat :
           /\ g = c_G /\ st = c_stack /\ a = c_at /\ t = c_time
           /\ Nested(g, st, a, t, n) /\ IsDigraph(g, n) /\ st \in Seq(1 .. n)
           /\ a \in [1 .. n -> Nat] /\ Len(c_S) = n
    BY <1>1, NestsNow
  <1>3. PICK t \in Nat :
           /\ t = c_time /\ Nested(g, st, a, t, n)
    BY <1>2
  <1>4. PICK v \in 1 .. n : v = c_S[c_next]
    <2>1. c_next \in Nat \ {0} /\ c_S \in Seq(1 .. n) /\ Len(c_S) \in Nat
      BY <1>1, AtWork, LenProperties DEF Running
    <2>2. c_next \in 1 .. Len(c_S)
      BY <1>1, <2>1
    <2>3. QED
      BY <2>1, <2>2, ElementOfSeq
  <1>5. CASE g.color[v] = "WHITE"
    <2>1. PICK p \in 0 .. n : p = 0
      OBVIOUS
    <2>2. Components!Enter(v, p) /\ c_at' = [a EXCEPT ![v] = 1]
      BY <1>2, <1>4, <1>5, <2>1 DEF Components!NextRoot, Components!NIL
    <2>3. PICK h, s, b : /\ h = Discovered(g, v, p, t + 1) /\ s = Append(st, v)
                         /\ b = [a EXCEPT ![v] = 1]
      OBVIOUS
    <2>4. c_G' = h /\ c_stack' = s /\ c_time' = t + 1 /\ c_at' = b
      BY <1>2, <1>3, <2>2, <2>3 DEF Components!Enter, Discovered
    <2>5. p = Caller(st)
      BY <1>1, <1>2, <2>1, EmptySeq DEF Caller
    <2>6. Advanced(g, a, a, v, n)
      BY DEF Advanced
    <2>7. Nested(h, s, b, t + 1, n)
      BY <1>2, <1>3, <1>5, <2>3, <2>5, <2>6, EnterNests
    <2>8. PICK x \in Nat : x = t + 1
      OBVIOUS
    <2>9. QED
      BY <1>1, <1>2, <2>4, <2>7, <2>8, NestsNext
  <1>6. CASE g.color[v] # "WHITE"
    <2>1. c_G' = g /\ c_stack' = st /\ c_at' = a /\ c_time' = t
      BY <1>2, <1>3, <1>4, <1>6 DEF Components!NextRoot
    <2>2. QED
      BY <1>1, <1>2, <1>3, <2>1, NestsNext
  <1>7. QED
    BY <1>5, <1>6

\* A neighbour, new or passed over, keeps it.
LEMMA VisitNests ==
  ASSUME NEW n \in Nat, CompInvOf(n), NestInv, Components!Visit
  PROVE  NestInv'
  <1>1. c_pc = "roots" /\ c_stack # <<>> /\ c_S' = c_S
    BY DEF Components!Visit
  <1>2. PICK g, st, a : \E t \in Nat :
           /\ g = c_G /\ st = c_stack /\ a = c_at /\ t = c_time
           /\ Nested(g, st, a, t, n) /\ IsDigraph(g, n) /\ st \in Seq(1 .. n)
           /\ a \in [1 .. n -> Nat] /\ Len(c_S) = n
    BY <1>1, NestsNow
  <1>3. PICK t \in Nat :
           /\ t = c_time /\ Nested(g, st, a, t, n)
    BY <1>2
  <1>4. PICK u \in 1 .. n : u = Components!Top /\ u = st[Len(st)] /\ Len(st) # 0
    BY <1>1, <1>2, AtWork
  <1>5. PICK L \in Seq(1 .. n) : L = g.neighbors[u]
    BY <1>2 DEF IsDigraph
  <1>6. PICK i \in Nat \ {0} : i = a[u]
    BY <1>1, <1>2, <1>4, AtWork
  <1>7. DOMAIN L = 1 .. Len(L) /\ Len(L) \in Nat /\ i <= Len(L)
    <2>1. i <= Len(L)
      BY <1>2, <1>4, <1>5, <1>6 DEF Components!Visit
    <2>2. QED
      BY <2>1, LenProperties
  <1>8. PICK v \in 1 .. n : v = L[i]
    <2>1. i \in 1 .. Len(L)
      BY <1>7
    <2>2. QED
      BY <2>1, ElementOfSeq
  <1>9. Components!Neighbor = v
    BY <1>2, <1>4, <1>5, <1>6, <1>8 DEF Components!Neighbor
  <1>10. PICK c : c = [a EXCEPT ![u] = i + 1]
    OBVIOUS
  <1>11. c \in [1 .. n -> Nat] /\ c[u] = i + 1 /\ \A w \in 1 .. n : w # u => c[w] = a[w]
    BY <1>2, <1>10
  <1>12. Advanced(g, a, c, v, n)
    <2>1. SUFFICES ASSUME NEW w \in 1 .. n, NEW j \in DOMAIN g.neighbors[w], j < c[w]
                   PROVE  j < a[w] \/ g.neighbors[w][j] = v
      BY DEF Advanced
    <2>2. CASE w = u
      <3>1. j \in Int /\ j < i + 1
        BY <1>5, <1>7, <1>11, <2>1, <2>2
      <3>2. j < i \/ j = i
        BY <3>1
      <3>3. QED
        BY <1>5, <1>6, <1>8, <2>2, <3>2
    <2>3. CASE w # u
      BY <1>11, <2>1, <2>3
    <2>4. QED
      BY <2>2, <2>3
  <1>13. CASE g.color[v] = "WHITE"
    <2>1. PICK p \in 0 .. n : p = u
      OBVIOUS
    <2>2. Components!Enter(v, p) /\ c_at' = [a EXCEPT ![u] = @ + 1, ![v] = 1]
      BY <1>2, <1>4, <1>9, <1>13, <2>1 DEF Components!Visit
    <2>3. PICK h, s, b : /\ h = Discovered(g, v, p, t + 1) /\ s = Append(st, v)
                         /\ b = [c EXCEPT ![v] = 1]
      OBVIOUS
    <2>4. c_at' = b
      BY <1>2, <1>6, <1>10, <2>2, <2>3
    <2>5. c_G' = h /\ c_stack' = s /\ c_time' = t + 1
      BY <1>2, <1>3, <2>2, <2>3 DEF Components!Enter, Discovered
    <2>6. p = Caller(st)
      BY <1>4, <2>1 DEF Caller
    <2>7. Nested(h, s, b, t + 1, n)
      BY <1>3, <1>11, <1>12, <1>13, <2>3, <2>6, EnterNests
    <2>8. PICK x \in Nat : x = t + 1
      OBVIOUS
    <2>9. QED
      BY <1>1, <1>2, <2>4, <2>5, <2>7, <2>8, NestsNext
  <1>14. CASE g.color[v] # "WHITE"
    <2>1. c_G' = g /\ c_stack' = st /\ c_time' = t /\ c_at' = [a EXCEPT ![u] = @ + 1]
      BY <1>2, <1>3, <1>4, <1>9, <1>14 DEF Components!Visit
    <2>2. c_at' = c
      BY <1>2, <1>6, <1>10, <2>1
    <2>3. Nested(g, st, c, t, n)
      BY <1>3, <1>11, <1>12, <1>14, SkipNests
    <2>4. QED
      BY <1>1, <1>2, <1>3, <2>1, <2>2, <2>3, NestsNext
  <1>15. QED
    BY <1>13, <1>14

\* The end of a call keeps it.
LEMMA ReturnNests ==
  ASSUME NEW n \in Nat, CompInvOf(n), NestInv, Components!Leave
  PROVE  NestInv'
  <1>1. c_pc = "roots" /\ c_stack # <<>> /\ c_S' = c_S /\ c_at' = c_at
    BY DEF Components!Leave
  <1>2. PICK g, st, a : \E t \in Nat :
           /\ g = c_G /\ st = c_stack /\ a = c_at /\ t = c_time
           /\ Nested(g, st, a, t, n) /\ IsDigraph(g, n) /\ st \in Seq(1 .. n)
           /\ a \in [1 .. n -> Nat] /\ Len(c_S) = n
    BY <1>1, NestsNow
  <1>3. PICK t \in Nat :
           /\ t = c_time /\ Nested(g, st, a, t, n)
    BY <1>2
  <1>4. PICK u \in 1 .. n : u = Components!Top /\ u = st[Len(st)] /\ Len(st) # 0
    BY <1>1, <1>2, AtWork
  <1>5. a[u] > Len(g.neighbors[u])
    BY <1>2, <1>4 DEF Components!Leave
  <1>6. PICK h, s : h = Finished(g, u, t + 1) /\ s = SubSeq(st, 1, Len(st) - 1)
    OBVIOUS
  <1>7. c_G' = h /\ c_time' = t + 1
    BY <1>2, <1>3, <1>4, <1>6 DEF Components!Leave, Finished
  <1>8. c_stack' = s
    BY <1>2, <1>6 DEF Components!Leave, Components!Front
  <1>9. Nested(h, s, a, t + 1, n)
    BY <1>3, <1>4, <1>5, <1>6, LeaveNests
  <1>10. PICK x \in Nat : x = t + 1
    OBVIOUS
  <1>11. QED
    BY <1>1, <1>2, <1>7, <1>8, <1>9, <1>10, NestsNext

\* It holds at the start of a search.
LEMMA StartNests ==
  ASSUME NEW n \in Nat, NEW g, Sized(g, n, 0), NEW s, Components!StartDFS(g, s)
  PROVE  NestInv'
  <1>1. Len(g.neighbors) = n
    BY NumArcsIs DEF Sized
  <1>2. /\ c_S' = s /\ Len(s) = n /\ c_time' = 0 /\ c_stack' = <<>>
        /\ c_at' = Components!All(n, 0)
        /\ c_G' = [g EXCEPT !.color = Components!All(n, "WHITE"),
                         !.parent = Components!All(n, Components!NIL),
                         !.discover = Components!All(n, Components!UNDEF),
                         !.finish = Components!All(n, Components!UNDEF)]
    BY <1>1 DEF Components!StartDFS
  <1>3. PICK h, b : h = c_G' /\ b = Components!All(n, 0)
    OBVIOUS
  <1>4. IsDigraph(h, n)
    BY <1>2, <1>3, SizedFresh DEF Sized
  <1>5. \A v \in 1 .. n : h.color[v] = "WHITE" /\ h.finish[v] = -1
    <2>1. IsDigraph(g, n)
      BY DEF Sized
    <2>2. h.color = Components!All(n, "WHITE") /\ h.finish = Components!All(n, Components!UNDEF)
      BY <1>2, <1>3, <2>1 DEF IsDigraph
    <2>3. QED
      BY <2>2 DEF Components!All, Components!UNDEF
  <1>6. b \in [1 .. n -> Nat]
    BY <1>3 DEF Components!All
  <1>7. Nested(h, <<>>, b, 0, n)
    BY <1>4, <1>5, <1>6, NestedAtFirst
  <1>8. 0 \in Nat
    OBVIOUS
  <1>9. QED
    BY <1>2, <1>3, <1>7, <1>8, NestsNext

-----------------------------------------------------------------------------
(* The programs and the nesting                                            *)
\* DFS is not running after a step that leaves it alone when it was not.
LEMMA IdleNests ==
  ASSUME c_pc = "idle", c_pc' = "idle"
  PROVE  NestInv'
  BY DEF NestInv

\* DFS runs only during the two searches of the program.
LEMMA IdleUnless ==
  ASSUME NEW n \in Nat, CompInvOf(n), c_main \notin {"first DFS", "second DFS"}
  PROVE  c_pc = "idle"
  BY DEF CompInvOf, Running

\* The other clients' calls do not disturb it.
LEMMA ClientNests ==
  ASSUME NEW n \in Nat, CompInvOf(n),
         \/ Components!CallNew \/ Components!CallFree \/ Components!CallCopy
         \/ Components!CallAddArc \/ Components!CallAddEdge \/ Components!CallDFSExits
  PROVE  NestInv'
  <1>1. ASSUME NEW g, Components!Call(g)
        PROVE  c_pc' = c_pc /\ c_main = Components!Client
    BY <1>1 DEF Components!Call, Components!dfs
  <1>2. c_pc' = c_pc /\ c_main = Components!Client
    <2>1. CASE Components!CallNew
      BY <1>1, <2>1 DEF Components!CallNew
    <2>2. CASE Components!CallFree
      BY <2>2 DEF Components!CallFree, Components!dfs
    <2>3. CASE Components!CallCopy
      BY <1>1, <2>3 DEF Components!CallCopy
    <2>4. CASE Components!CallAddArc
      BY <1>1, <2>4 DEF Components!CallAddArc
    <2>5. CASE Components!CallAddEdge
      BY <1>1, <2>5 DEF Components!CallAddEdge
    <2>6. CASE Components!CallDFSExits
      BY <2>6 DEF Components!CallDFSExits, Components!dfs
    <2>7. QED
      BY <2>1, <2>2, <2>3, <2>4, <2>5, <2>6
  <1>3. c_pc = "idle"
    BY <1>2, IdleUnless DEF Components!Client
  <1>4. QED
    BY <1>2, <1>3, IdleNests

\* The program's steps between its calls keep it.
LEMMA MainNests ==
  ASSUME NEW n \in Nat, CompInvOf(n), NestInv, Components!MainStep
  PROVE  NestInv'
  <1>1. Sized(c_G, n, c_edges)
    BY DEF CompInvOf
  <1>2. CASE \/ Components!ReadOrder \/ Components!ReadArc \/ Components!ReadFails
             \/ Components!Finish
    <2>1. c_main \notin {"first DFS", "second DFS"} /\ c_pc' = c_pc
      BY <1>2 DEF Components!ReadOrder, Components!ReadArc, Components!ReadFails,
                  Components!Finish, Components!dfs
    <2>2. QED
      BY <2>1, IdleUnless, IdleNests
  <1>3. CASE Components!PrintComponents
    BY <1>3, IdleNests DEF Components!PrintComponents, Components!dfs
  <1>4. CASE Components!ReadZeros
    <2>1. c_main = "arcs" /\ Components!StartDFS(c_G, Components!Identity(c_G))
      BY <1>4 DEF Components!ReadZeros
    <2>2. c_edges = 0
      BY <2>1 DEF CompInvOf, Components!Client
    <2>3. PICK g, s : g = c_G /\ s = Components!Identity(c_G)
      OBVIOUS
    <2>4. Sized(g, n, 0) /\ Components!StartDFS(g, s)
      BY <1>1, <2>1, <2>2, <2>3
    <2>5. QED
      BY <2>4, StartNests
  <1>5. CASE Components!Transpose
    <2>1. c_main = "first DFS" /\ Components!StartDFS(Components!transpose(c_G), c_S)
      BY <1>5 DEF Components!Transpose
    <2>2. c_edges = 0
      BY <2>1 DEF CompInvOf, Components!Client
    <2>3. PICK g, s : g = Components!transpose(c_G) /\ s = c_S
      OBVIOUS
    <2>4. Sized(g, n, 0)
      BY <1>1, <2>2, <2>3, SizedTranspose
    <2>5. Components!StartDFS(g, s)
      BY <2>1, <2>3
    <2>6. QED
      BY <2>4, <2>5, StartNests
  <1>6. CASE Components!DFSStep
    <2>1. ASSUME Components!EndDFS
          PROVE  NestInv'
      BY <2>1 DEF Components!EndDFS, NestInv
    <2>2. QED
      BY <1>6, <2>1, RootNests, VisitNests, ReturnNests DEF Components!DFSStep
  <1>7. QED
    BY <1>2, <1>3, <1>4, <1>5, <1>6 DEF Components!MainStep

\* The nesting is inductive.
LEMMA NestsStay == CompInv /\ NestInv /\ [Next]_vars => NestInv'
  <1>1. SUFFICES ASSUME CompInv, NestInv,
                        \/ program = "FindComponents" /\ Components!FindComponentsNext
                        \/ UNCHANGED componentVars
                 PROVE  NestInv'
    BY <1>1 DEF Next, vars
  <1>2. PICK n \in Nat : CompInvOf(n)
    BY <1>1 DEF CompInv
  <1>3. CASE Components!MainStep
    BY <1>1, <1>2, <1>3, MainNests
  <1>4. CASE \/ Components!CallNew \/ Components!CallFree \/ Components!CallCopy
             \/ Components!CallAddArc \/ Components!CallAddEdge \/ Components!CallDFSExits
    BY <1>2, <1>4, ClientNests
  <1>5. CASE UNCHANGED componentVars
    BY <1>1, <1>5 DEF componentVars, NestInv
  <1>6. QED
    BY <1>1, <1>3, <1>4, <1>5 DEF Components!FindComponentsNext

\* The property follows from the nesting.
LEMMA NestingFollows ==
  ASSUME CompInv, NestInv
  PROVE  VisitsNest
  <1>1. PICK n \in Nat : CompInvOf(n)
    BY DEF CompInv
  <1>2. CASE c_pc # "roots"
    BY <1>2 DEF VisitsNest, Components!VisitsNest
  <1>3. CASE c_pc = "roots"
    <2>1. IsDigraph(c_G, n) /\ Len(c_G.neighbors) = n
      <3>1. IsDigraph(c_G, n)
        BY <1>1, <1>3, AtWork
      <3>2. QED
        BY <3>1, NumArcsIs
    <2>2. c_time \in Nat /\ Len(c_S) = n /\ Nested(c_G, c_stack, c_at, c_time, n)
      BY <1>3, <2>1 DEF NestInv
    <2>3. PICK t \in Nat : t = c_time
      BY <2>2
    <2>4. QED
      BY <2>1, <2>2, <2>3, NestedNests
  <1>4. QED
    BY <1>2, <1>3

(* At every step of DFS, for graphs of any order and in any order of the   *)
(* roots, the calls of DFS_Visit nest: the gray vertices are those on the  *)
(* stack, each the parent of the next; the interval from the discovery to  *)
(* the finishing of a vertex is inside another's when it descends from it  *)
(* and apart from it when it does not; and a vertex is black only when     *)
(* everything it points to has been found.                                 *)
THEOREM VisitsAreNested == Spec => []VisitsNest
  <1>1. Spec => [](CompInv /\ NestInv)
    <2>1. Init => CompInv /\ NestInv
      BY CompInit DEF Init, NestInv, Components!FindComponentsInit, Components!Init
    <2>2. CompInv /\ NestInv /\ [Next]_vars => CompInv' /\ NestInv'
      BY SizeStays, NestsStay
    <2>3. QED
      BY <2>1, <2>2, PTL DEF Spec
  <1>2. QED
    BY <1>1, NestingFollows, PTL

-----------------------------------------------------------------------------
(* The steps of a search                                                   *)
LEMMA SearchNext ==
  ASSUME NEW n, NEW h, NEW s, NEW k, Recorded(h, s, k, n), c_G' = h, c_S' = s, c_next' = k
  PROVE  Recorded(c_G, c_S, c_next, n)'
  OBVIOUS

\* The next root of the list keeps the record of the search.
LEMMA RootSearches ==
  ASSUME NEW n \in Nat, CompInvOf(n), NestInv, Recorded(c_G, c_S, c_next, n), Components!NextRoot
  PROVE  Recorded(c_G, c_S, c_next, n)'
  <1>1. /\ c_pc = "roots" /\ c_stack = <<>> /\ c_next <= Len(c_S) /\ c_S' = c_S
        /\ c_next' = c_next + 1
    BY DEF Components!NextRoot
  <1>2. PICK g, st, a : \E t \in Nat :
           /\ g = c_G /\ st = c_stack /\ a = c_at /\ t = c_time
           /\ Nested(g, st, a, t, n) /\ IsDigraph(g, n) /\ st \in Seq(1 .. n)
           /\ a \in [1 .. n -> Nat] /\ Len(c_S) = n
    BY <1>1, NestsNow
  <1>3. PICK t \in Nat :
           /\ t = c_time /\ Nested(g, st, a, t, n)
    BY <1>2
  <1>4. PICK s, k : s = c_S /\ k = c_next
    OBVIOUS
  <1>5. Recorded(g, s, k, n)
    BY <1>2, <1>4
  <1>6. k \in 1 .. n
    <2>1. c_next \in Nat \ {0}
      BY <1>1, AtWork DEF Running
    <2>2. QED
      BY <1>1, <1>2, <1>4, <2>1
  <1>7. PICK v \in 1 .. n : v = s[k]
    <2>1. s \in Seq(1 .. n) /\ Len(s) = n
      BY <1>1, <1>2, <1>4, AtWork
    <2>2. QED
      BY <1>6, <2>1, ElementOfSeq
  <1>8. CASE g.color[v] = "WHITE"
    <2>1. PICK p \in 0 .. n : p = 0
      OBVIOUS
    <2>2. Components!Enter(v, p)
      BY <1>2, <1>4, <1>7, <1>8, <2>1 DEF Components!NextRoot, Components!NIL
    <2>3. PICK h : h = Discovered(g, v, p, t + 1)
      OBVIOUS
    <2>4. c_G' = h
      BY <1>2, <1>3, <2>2, <2>3 DEF Components!Enter, Discovered
    <2>5. s[k] = v /\ Tried(g, s, k, n)
      BY <1>5, <1>7 DEF Recorded
    <2>6. Recorded(h, s, k, n) /\ v \in Reached(h, n)
      BY <1>3, <1>5, <1>6, <1>8, <2>1, <2>3, <2>5, EnterSearches
    <2>7. Tried(h, s, k + 1, n)
      BY <1>6, <2>5, <2>6, TriesNext DEF Recorded
    <2>8. Recorded(h, s, k + 1, n)
      BY <2>6, <2>7 DEF Recorded
    <2>9. QED
      BY <1>1, <1>4, <2>4, <2>8, SearchNext
  <1>9. CASE g.color[v] # "WHITE"
    <2>1. c_G' = g
      BY <1>2, <1>4, <1>7, <1>9 DEF Components!NextRoot
    <2>2. v \in Reached(g, n)
      BY <1>9 DEF Reached
    <2>3. Tried(g, s, k + 1, n)
      BY <1>5, <1>6, <1>7, <2>2, TriesNext DEF Recorded
    <2>4. Recorded(g, s, k + 1, n)
      BY <1>5, <2>3 DEF Recorded
    <2>5. QED
      BY <1>1, <1>4, <2>1, <2>4, SearchNext
  <1>10. QED
    BY <1>8, <1>9

\* A neighbour, new or passed over, keeps it.
LEMMA VisitSearches ==
  ASSUME NEW n \in Nat, CompInvOf(n), NestInv, Recorded(c_G, c_S, c_next, n), Components!Visit
  PROVE  Recorded(c_G, c_S, c_next, n)'
  <1>1. c_pc = "roots" /\ c_stack # <<>> /\ c_S' = c_S /\ c_next' = c_next
    BY DEF Components!Visit
  <1>2. PICK g, st, a : \E t \in Nat :
           /\ g = c_G /\ st = c_stack /\ a = c_at /\ t = c_time
           /\ Nested(g, st, a, t, n) /\ IsDigraph(g, n) /\ st \in Seq(1 .. n)
           /\ a \in [1 .. n -> Nat] /\ Len(c_S) = n
    BY <1>1, NestsNow
  <1>3. PICK t \in Nat :
           /\ t = c_time /\ Nested(g, st, a, t, n)
    BY <1>2
  <1>4. PICK s, k : s = c_S /\ k = c_next
    OBVIOUS
  <1>5. Recorded(g, s, k, n)
    BY <1>2, <1>4
  <1>6. PICK u \in 1 .. n : u = Components!Top
    BY <1>1, <1>2, AtWork
  <1>7. PICK L \in Seq(1 .. n) : L = g.neighbors[u]
    BY <1>2 DEF IsDigraph
  <1>8. PICK i \in Nat \ {0} : i = a[u]
    BY <1>1, <1>2, <1>6, AtWork
  <1>9. DOMAIN L = 1 .. Len(L) /\ i \in 1 .. Len(L)
    <2>1. i <= Len(L)
      BY <1>2, <1>6, <1>7, <1>8 DEF Components!Visit
    <2>2. QED
      BY <2>1, LenProperties
  <1>10. PICK v \in 1 .. n : v = L[i]
    BY <1>9, ElementOfSeq
  <1>11. Components!Neighbor = v
    BY <1>2, <1>6, <1>7, <1>8, <1>10 DEF Components!Neighbor
  <1>12. CASE g.color[v] = "WHITE"
    <2>1. PICK p \in 0 .. n : p = u
      OBVIOUS
    <2>2. Components!Enter(v, p)
      BY <1>2, <1>6, <1>11, <1>12, <2>1 DEF Components!Visit
    <2>3. PICK h : h = Discovered(g, v, p, t + 1)
      OBVIOUS
    <2>4. c_G' = h
      BY <1>2, <1>3, <2>2, <2>3 DEF Components!Enter, Discovered
    <2>5. IsArc(g, p, v) /\ p # 0
      BY <1>7, <1>9, <1>10, <2>1 DEF IsArc
    <2>6. Recorded(h, s, k, n)
      BY <1>3, <1>5, <1>12, <2>3, <2>5, EnterSearches
    <2>7. QED
      BY <1>1, <1>4, <2>4, <2>6, SearchNext
  <1>13. CASE g.color[v] # "WHITE"
    <2>1. c_G' = g
      BY <1>2, <1>11, <1>13 DEF Components!Visit
    <2>2. QED
      BY <1>1, <1>4, <1>5, <2>1, SearchNext
  <1>14. QED
    BY <1>12, <1>13

\* The end of a call keeps it.
LEMMA ReturnSearches ==
  ASSUME NEW n \in Nat, CompInvOf(n), NestInv, Recorded(c_G, c_S, c_next, n), Components!Leave
  PROVE  Recorded(c_G, c_S, c_next, n)'
  <1>1. c_pc = "roots" /\ c_stack # <<>> /\ c_S' = c_S /\ c_next' = c_next
    BY DEF Components!Leave
  <1>2. PICK g, st, a : \E t \in Nat :
           /\ g = c_G /\ st = c_stack /\ a = c_at /\ t = c_time
           /\ Nested(g, st, a, t, n) /\ IsDigraph(g, n) /\ st \in Seq(1 .. n)
           /\ a \in [1 .. n -> Nat] /\ Len(c_S) = n
    BY <1>1, NestsNow
  <1>3. PICK t \in Nat :
           /\ t = c_time /\ Nested(g, st, a, t, n)
    BY <1>2
  <1>4. PICK s, k : s = c_S /\ k = c_next
    OBVIOUS
  <1>5. Recorded(g, s, k, n)
    BY <1>2, <1>4
  <1>6. PICK u \in 1 .. n : u = Components!Top /\ u = st[Len(st)] /\ Len(st) # 0
    BY <1>1, <1>2, AtWork
  <1>7. a[u] > Len(g.neighbors[u])
    BY <1>2, <1>6 DEF Components!Leave
  <1>8. g.color[u] = "GRAY"
    <2>1. PICK l \in Nat : l = Len(st) /\ l # 0
      BY <1>2, <1>6, LenProperties
    <2>2. l \in 1 .. l
      BY <2>1
    <2>3. QED
      BY <1>3, <1>6, <2>1, <2>2 DEF Nested, Stacked
  <1>9. PICK h : h = Finished(g, u, t + 1)
    OBVIOUS
  <1>10. c_G' = h
    BY <1>2, <1>3, <1>6, <1>9 DEF Components!Leave, Finished
  <1>11. Recorded(h, s, k, n)
    BY <1>3, <1>5, <1>7, <1>8, <1>9, LeaveSearches
  <1>12. QED
    BY <1>1, <1>4, <1>10, <1>11, SearchNext

-----------------------------------------------------------------------------
(* What Reach gives                                                        *)
LEMMA ReachIs ==
  ASSUME NEW n \in Nat, NEW g, IsDigraph(g, n), NEW v \in 1 .. n
  PROVE  \E ball \in [0 .. n -> SUBSET (1 .. n)] :
           Grows(g, ball, v, n) /\ Components!Reach(g, v) = ball[n]
  <1> DEFINE Wider(B) == B \cup {y \in 1 .. n : \E x \in B : IsArc(g, x, y)}
             Around(f) == [k \in 0 .. n |->
                             IF k = 0 THEN {v}
                             ELSE f[k - 1] \cup UNION {Components!ToSet(g.neighbors[x]) : x \in f[k - 1]}]
             step == [B \in SUBSET (1 .. n) |-> Wider(B)]
             ball == CHOOSE f : f = Around(f)
  <1>0. Len(g.neighbors) = n
    BY NumArcsIs
  <1>1. Components!Reach(g, v) = ball[n]
    BY <1>0 DEF Components!Reach
  <1>2. ASSUME NEW B \in SUBSET (1 .. n)
        PROVE  B \cup UNION {Components!ToSet(g.neighbors[x]) : x \in B} = Wider(B)
    <2>1. \A x \in 1 .. n : \A y : y \in Components!ToSet(g.neighbors[x]) <=> IsArc(g, x, y)
      BY NumArcsIs
    <2>2. \A x \in 1 .. n : \A y : IsArc(g, x, y) => y \in 1 .. n
      <3>1. SUFFICES ASSUME NEW x \in 1 .. n, NEW y, IsArc(g, x, y) PROVE y \in 1 .. n
        OBVIOUS
      <3>2. PICK k \in DOMAIN g.neighbors[x] : g.neighbors[x][k] = y
        BY <3>1 DEF IsArc
      <3>3. g.neighbors[x] \in Seq(1 .. n)
        BY DEF IsDigraph
      <3>4. k \in 1 .. Len(g.neighbors[x])
        BY <3>3, LenProperties
      <3>5. QED
        BY <3>2, <3>3, <3>4, ElementOfSeq
    <2>3. UNION {Components!ToSet(g.neighbors[x]) : x \in B}
            = {y \in 1 .. n : \E x \in B : IsArc(g, x, y)}
      <3>1. ASSUME NEW y, NEW x \in B, y \in Components!ToSet(g.neighbors[x])
            PROVE  y \in 1 .. n /\ IsArc(g, x, y)
        BY <2>1, <2>2, <3>1
      <3>2. ASSUME NEW y \in 1 .. n, NEW x \in B, IsArc(g, x, y)
            PROVE  y \in Components!ToSet(g.neighbors[x])
        BY <2>1, <3>2
      <3>3. QED
        BY <3>1, <3>2
    <2>4. QED
      BY <2>3
  <1>3. step \in [SUBSET (1 .. n) -> SUBSET (1 .. n)] /\ {v} \in SUBSET (1 .. n)
    OBVIOUS
  <1>4. \A B \in SUBSET (1 .. n) : step[B] = Wider(B)
    OBVIOUS
  <1> HIDE DEF step, Wider
  <1>5. PICK it \in [0 .. n -> SUBSET (1 .. n)] : Iteration(step, {v}, n, it)
    BY <1>3, Iterates
  <1>6. \A k \in 0 .. n : it[k] = IF k = 0 THEN {v} ELSE Wider(it[k - 1])
    <2>1. it = [k \in 0 .. n |-> IF k = 0 THEN {v} ELSE step[it[k - 1]]]
      BY <1>5 DEF Iteration
    <2>2. ASSUME NEW k \in 0 .. n, k # 0 PROVE it[k - 1] \in SUBSET (1 .. n)
      <3>1. k - 1 \in 0 .. n
        BY <2>2
      <3>2. QED
        BY <3>1
    <2>3. QED
      BY <1>4, <2>1, <2>2
  <1>7. it = Around(it)
    <2>1. it = [k \in 0 .. n |-> it[k]]
      OBVIOUS
    <2>2. ASSUME NEW k \in 0 .. n, k # 0
          PROVE  it[k - 1] \cup UNION {Components!ToSet(g.neighbors[x]) : x \in it[k - 1]}
                   = Wider(it[k - 1])
      <3>1. k - 1 \in 0 .. n
        BY <2>2
      <3>2. it[k - 1] \in SUBSET (1 .. n)
        BY <3>1
      <3>3. QED
        BY <1>2, <3>2
    <2>3. \A k \in 0 .. n :
            it[k] = IF k = 0 THEN {v}
                    ELSE it[k - 1] \cup UNION {Components!ToSet(g.neighbors[x]) : x \in it[k - 1]}
      BY <1>6, <2>2
    <2>4. QED
      BY <2>1, <2>3
  <1>8. ball = Around(ball)
    <2> HIDE DEF Around
    <2>1. QED
      BY <1>7
  <1> HIDE DEF ball
  <1>9. \A k \in 0 .. n :
          ball[k] = IF k = 0 THEN {v}
                    ELSE ball[k - 1] \cup UNION {Components!ToSet(g.neighbors[x]) : x \in ball[k - 1]}
    BY <1>8
  <1> HIDE DEF Around
  <1>10. \A k \in 0 .. n : ball[k] = it[k]
    <2> DEFINE S == {k \in Nat : k <= n => ball[k] = it[k]}
    <2>1. 0 \in S
      <3>1. 0 \in 0 .. n
        OBVIOUS
      <3>2. ball[0] = {v} /\ it[0] = {v}
        BY <1>6, <1>9, <3>1
      <3>3. QED
        BY <3>2
    <2>2. ASSUME NEW k \in S PROVE k + 1 \in S
      <3>1. k + 1 \in Nat
        OBVIOUS
      <3>2. ASSUME k + 1 <= n PROVE ball[k + 1] = it[k + 1]
        <4>1. k + 1 \in 0 .. n /\ k + 1 # 0 /\ (k + 1) - 1 = k /\ k <= n /\ k \in 0 .. n
          BY <3>2
        <4>2. PICK B \in SUBSET (1 .. n) : B = it[k] /\ B = ball[k]
          BY <4>1
        <4>3. it[k + 1] = Wider(B)
          BY <1>6, <4>1, <4>2
        <4>4. ball[k + 1] = B \cup UNION {Components!ToSet(g.neighbors[x]) : x \in B}
          BY <1>9, <4>1, <4>2
        <4>5. QED
          BY <1>2, <4>3, <4>4
      <3>3. QED
        BY <3>1, <3>2
    <2>3. S \in SUBSET Nat
      OBVIOUS
    <2> HIDE DEF S
    <2>4. S = Nat
      BY <2>1, <2>2, <2>3, EveryNat
    <2>5. \A k \in 0 .. n : k \in S /\ k <= n
      BY <2>4
    <2>6. QED
      BY <2>5 DEF S
  <1>11. Grows(g, it, v, n)
    <2>1. it[0] = {v}
      BY <1>6
    <2>2. \A k \in 1 .. n : it[k] = Wider(it[k - 1])
      BY <1>6
    <2>3. QED
      BY <2>1, <2>2 DEF Grows, Wider
  <1>12. n \in 0 .. n
    OBVIOUS
  <1>13. QED
    BY <1>1, <1>10, <1>11, <1>12

\* The balls of Reach are closed under arcs: what they hold is what can be reached.
LEMMA ReachReaches ==
  ASSUME NEW n \in Nat, NEW g, IsDigraph(g, n)
  PROVE  \E R : Reaching(g, R, n) /\ \A v \in 1 .. n : R[v] = Components!Reach(g, v)
  <1> DEFINE R == [v \in 1 .. n |-> Components!Reach(g, v)]
  <1>1. ASSUME NEW v \in 1 .. n
        PROVE  /\ R[v] \in SUBSET (1 .. n) /\ R[v] = Components!Reach(g, v)
               /\ v \in R[v] /\ ClosedUnder(g, R[v], n)
               /\ \A T \in SUBSET (1 .. n) : v \in T /\ ClosedUnder(g, T, n) => R[v] \subseteq T
    <2>1. PICK ball \in [0 .. n -> SUBSET (1 .. n)] :
            Grows(g, ball, v, n) /\ Components!Reach(g, v) = ball[n]
      BY ReachIs
    <2>2. PICK B : B = Components!Reach(g, v)
      OBVIOUS
    <2>3. R[v] = B
      BY <2>2
    <2>4. B = ball[n] /\ B \in SUBSET (1 .. n)
      <3>1. n \in 0 .. n
        OBVIOUS
      <3>2. QED
        BY <2>1, <2>2, <3>1
    <2>5. /\ v \in B /\ ClosedUnder(g, B, n)
          /\ \A T \in SUBSET (1 .. n) : v \in T /\ ClosedUnder(g, T, n) => B \subseteq T
      BY <2>1, <2>4, BallIsClosed
    <2> HIDE DEF R
    <2>6. QED
      BY <2>2, <2>3, <2>4, <2>5
  <1>2. R = [v \in 1 .. n |-> R[v]]
    OBVIOUS
  <1> HIDE DEF R
  <1>3. R \in [1 .. n -> SUBSET (1 .. n)]
    BY <1>1, <1>2
  <1>4. QED
    BY <1>1, <1>3 DEF Reaching

-----------------------------------------------------------------------------
(* What is printed                                                         *)
LEMMA FlattensSome ==
  ASSUME NEW T, NEW l \in Nat \ {0}, NEW d, \A m \in 1 .. l : d[m] \in Seq(T)
  PROVE  \E flat \in [1 .. l -> Seq(T)] : Flattens(flat, d, l)
  <1> DEFINE B == Seq(T)
             step == [p \in (1 .. l) \X B |-> IF p[1] = 1 THEN d[1] ELSE p[2] \o d[p[1]]]
  <1>1. <<>> \in B /\ 1 \in 1 .. l
    BY EmptySeq
  <1>2. step \in [(1 .. l) \X B -> B]
    <2>1. \A p \in (1 .. l) \X B : p[1] \in 1 .. l /\ p[2] \in B
      OBVIOUS
    <2>2. ASSUME NEW s \in B, NEW i \in 1 .. l PROVE s \o d[i] \in B
      BY ConcatProperties
    <2>3. d[1] \in B
      BY <1>1
    <2> HIDE DEF B
    <2>4. QED
      BY <2>1, <2>2, <2>3
  <1>3. \A i \in 1 .. l : \A s \in B : step[<<i, s>>] = IF i = 1 THEN d[i] ELSE s \o d[i]
    OBVIOUS
  <1> HIDE DEF step, B
  <1>4. PICK f \in [SUBSET (1 .. l) -> B] : Folding(f, step, <<>>, l)
    BY <1>1, <1>2, Folds
  <1>5. ASSUME NEW i \in 1 .. l
        PROVE  f[1 .. i] = IF i = 1 THEN d[i] ELSE f[1 .. (i - 1)] \o d[i]
    <2>1. /\ 1 .. i \in SUBSET (1 .. l) /\ 1 .. i # {}
          /\ Highest(1 .. i) = i /\ (1 .. i) \ {i} = 1 .. (i - 1)
      BY FirstOnes
    <2>2. f[1 .. i] = step[<<i, f[1 .. (i - 1)]>>]
      BY <1>4, <2>1 DEF Folding
    <2>3. 1 .. (i - 1) \in SUBSET (1 .. l)
      OBVIOUS
    <2>4. f[1 .. (i - 1)] \in B
      BY <2>3
    <2>5. QED
      BY <1>3, <2>2, <2>4
  <1> DEFINE flat == [i \in 1 .. l |-> f[1 .. i]]
  <1>6. flat \in [1 .. l -> B]
    <2>1. \A i \in 1 .. l : 1 .. i \in SUBSET (1 .. l)
      OBVIOUS
    <2>2. QED
      BY <2>1
  <1>7. Flattens(flat, d, l)
    <2>1. \A i \in 1 .. l : i # 1 => i - 1 \in 1 .. l
      OBVIOUS
    <2>2. \A i \in 1 .. l : flat[i] = f[1 .. i]
      OBVIOUS
    <2> HIDE DEF flat
    <2>3. QED
      BY <1>5, <2>1, <2>2 DEF Flattens
  <1>8. QED
    BY <1>6, <1>7 DEF B

\* Sequences without repetition or common elements, flattened, repeat nothing.
LEMMA FlattenIsInjective ==
  ASSUME NEW T, NEW d, NEW l \in Nat, d \in Seq(Seq(T)), Len(d) = l,
         \A m \in 1 .. l : Distinct(d[m]),
         \A m, k \in 1 .. l : m # k => Apart(d[m], d[k])
  PROVE  Components!IsInjective(Components!FlattenSeq(d))
  <1>1. \A m \in 1 .. l : d[m] \in Seq(T)
    BY ElementOfSeq
  <1>2. CASE l = 0
    <2>1. Components!FlattenSeq(d) = d
      BY <1>2 DEF Components!FlattenSeq
    <2>2. DOMAIN d = 1 .. Len(d)
      BY LenProperties
    <2>3. DOMAIN d = {}
      BY <1>2, <2>2
    <2>4. QED
      BY <2>1, <2>3 DEF Components!IsInjective
  <1>3. CASE l # 0
    <2> DEFINE Along(f) == [i \in 1 .. l |-> IF i = 1 THEN d[i] ELSE f[i - 1] \o d[i]]
               F == CHOOSE f : f = Along(f)
    <2>1. Components!FlattenSeq(d) = F[l]
      BY <1>3 DEF Components!FlattenSeq
    <2>2. PICK flat \in [1 .. l -> Seq(T)] : Flattens(flat, d, l)
      BY <1>1, <1>3, FlattensSome
    <2>3. flat = Along(flat)
      BY <2>2 DEF Flattens
    <2>4. F = Along(F)
      <3> HIDE DEF Along
      <3>1. QED
        BY <2>3
    <2> HIDE DEF F
    <2>5. Flattens(F, d, l)
      BY <2>4 DEF Flattens
    <2> HIDE DEF Along
    <2>6. F[l] \in Seq(T) /\ Distinct(F[l])
      BY <1>1, <1>3, <2>5, FlatIsDistinct
    <2>7. PICK s : s = F[l]
      OBVIOUS
    <2>8. DOMAIN s = 1 .. Len(s)
      BY <2>6, <2>7, LenProperties
    <2>9. Components!IsInjective(s)
      BY <2>6, <2>7, <2>8 DEF Components!IsInjective, Distinct
    <2>10. QED
      BY <2>1, <2>7, <2>9
  <1>4. QED
    BY <1>2, <1>3

\* One vertex of the list that is walked back.
Printing(out, v) ==
  IF c_G.parent[v] = Components!NIL
  THEN [out EXCEPT !.done = Append(@, <<v>> \o out.L), !.L = <<>>]
  ELSE [out EXCEPT !.L = <<v>> \o @]

\* What PrintComponents walks through.
Printed(q) ==
  Components!FoldLeft(LAMBDA out, v :
                        IF c_G.parent[v] = Components!NIL
                        THEN [out EXCEPT !.done = Append(@, <<v>> \o out.L), !.L = <<>>]
                        ELSE [out EXCEPT !.L = <<v>> \o @],
                      [done |-> <<>>, L |-> <<>>], q)

Prints(n) == [done : Seq(Seq(1 .. n)), L : Seq(1 .. n)]

\* The next of out, when a root or another vertex v comes.
Follows(next, out, v, root) ==
  next = IF root THEN [done |-> Append(out.done, <<v>> \o out.L), L |-> <<>>]
         ELSE [done |-> out.done, L |-> <<v>> \o out.L]

\* What one vertex adds to what is printed.
LEMMA PrintingIs ==
  ASSUME NEW n, NEW out \in Prints(n), NEW v \in 1 .. n
  PROVE  Follows(Printing(out, v), out, v, c_G.parent[v] = 0)
  <1>1. out = [done |-> out.done, L |-> out.L]
    BY DEF Prints
  <1>2. PICK d, l : d = out.done /\ l = out.L
    OBVIOUS
  <1>3. PICK b, a : b = <<v>> \o l /\ a = Append(d, b)
    OBVIOUS
  <1>4. out = [done |-> d, L |-> l]
    BY <1>1, <1>2
  <1>5. [out EXCEPT !.done = a, !.L = <<>>] = [done |-> a, L |-> <<>>]
    <2>1. PICK z : z = <<>>
      OBVIOUS
    <2>2. PICK r : r = [out EXCEPT !.done = a]
      OBVIOUS
    <2>3. r = [done |-> a, L |-> l]
      BY <1>4, <2>2
    <2>4. [r EXCEPT !.L = z] = [done |-> a, L |-> z]
      BY <2>3
    <2>5. [out EXCEPT !.done = a, !.L = z] = [r EXCEPT !.L = z]
      BY <2>2
    <2>6. QED
      BY <2>1, <2>4, <2>5
  <1>6. [out EXCEPT !.L = b] = [done |-> d, L |-> b]
    BY <1>4
  <1>7. [out EXCEPT !.done = Append(@, <<v>> \o out.L), !.L = <<>>] = [out EXCEPT !.done = a, !.L = <<>>]
    BY <1>2, <1>3
  <1>8. [out EXCEPT !.L = <<v>> \o @] = [out EXCEPT !.L = b]
    BY <1>2, <1>3
  <1>9. QED
    BY <1>2, <1>3, <1>5, <1>6, <1>7, <1>8 DEF Printing, Follows, Components!NIL

\* The vertices printed and pending stay sequences of vertices.
LEMMA PrintingStays ==
  ASSUME NEW n, NEW out \in Prints(n), NEW v \in 1 .. n
  PROVE  Printing(out, v) \in Prints(n)
  <1>1. PICK U, T : T = 1 .. n /\ U = Seq(T)
    OBVIOUS
  <1>2. out.done \in Seq(U) /\ out.L \in U /\ v \in T
    BY <1>1 DEF Prints
  <1>3. <<v>> \o out.L \in U /\ <<>> \in U
    <2>1. <<v>> \in Seq(T) /\ out.L \in Seq(T)
      BY <1>1, <1>2
    <2>2. QED
      BY <1>1, <2>1, ConcatProperties, EmptySeq
  <1>4. PICK b : b = <<v>> \o out.L
    OBVIOUS
  <1>5. Append(out.done, b) \in Seq(U)
    BY <1>2, <1>3, <1>4, AppendProperties
  <1>6. PICK a : a = Append(out.done, b)
    OBVIOUS
  <1>7. Printing(out, v) = IF c_G.parent[v] = 0 THEN [done |-> a, L |-> <<>>]
                           ELSE [done |-> out.done, L |-> b]
    BY <1>4, <1>6, PrintingIs DEF Follows
  <1>8. QED
    BY <1>1, <1>2, <1>3, <1>4, <1>5, <1>6, <1>7 DEF Prints

\* What PrintComponents prints, cut where the roots are.
LEMMA PrintedIs ==
  ASSUME NEW n \in Nat, Components!PrintComponents,
         NEW q \in [1 .. n -> 1 .. n], q = Components!Reverse(c_S),
         \A i, j \in 1 .. n : q[i] = q[j] => i = j,
         NEW e, Blocks(e, n), \A k \in 1 .. n : c_G.parent[q[k]] = 0 <=> e[k] = k
  PROVE  \E p : Ends(p, e, n, n) /\ BlocksOf(c_printed', p, q, e, n)
  <1> DEFINE B == Prints(n)
             b == [done |-> <<>>, L |-> <<>>]
             Along(f) == [s \in SUBSET (1 .. n) |->
                            IF s = {} THEN b
                            ELSE Printing(f[s \ {Highest(s)}], q[Highest(s)])]
             step == [p \in (1 .. n) \X B |-> Printing(p[2], q[p[1]])]
             F == CHOOSE f : f = Along(f)
  <1>1. DOMAIN q = 1 .. n /\ \A k \in 1 .. n : q[k] \in 1 .. n
    OBVIOUS
  <1>2. c_printed' = F[1 .. n].done
    <2>1. \A s : Components!Max(s) = Highest(s)
      BY DEF Components!Max, Highest
    <2>2. c_printed' = Printed(q).done
      BY DEF Components!PrintComponents, Printed
    <2>3. Printed(q) =
            (CHOOSE f : f = [s \in SUBSET (DOMAIN q) |->
                IF s = {} THEN [done |-> <<>>, L |-> <<>>]
                ELSE Printing(f[s \ {Components!Max(s)}], q[Components!Max(s)])])[DOMAIN q]
      BY DEF Printed, Components!FoldLeft, Components!MapThenFoldSet, Printing
    <2>4. \A f : [s \in SUBSET (DOMAIN q) |->
                IF s = {} THEN [done |-> <<>>, L |-> <<>>]
                ELSE Printing(f[s \ {Components!Max(s)}], q[Components!Max(s)])] = Along(f)
      BY <1>1, <2>1
    <2> HIDE DEF Along
    <2>5. QED
      BY <1>1, <2>2, <2>3, <2>4, ZenonT(60)
  <1>3. b \in B
    BY EmptySeq DEF Prints
  <1>4. step \in [(1 .. n) \X B -> B]
    <2>1. \A p \in (1 .. n) \X B : p[1] \in 1 .. n /\ p[2] \in B
      OBVIOUS
    <2>2. \A p \in (1 .. n) \X B : Printing(p[2], q[p[1]]) \in B
      BY <1>1, <2>1, PrintingStays
    <2>3. QED
      BY <2>2
  <1>5. \A k \in 1 .. n : \A L \in B : step[<<k, L>>] = Printing(L, q[k])
    OBVIOUS
  <1> HIDE DEF step, B, b
  <1>6. PICK f \in [SUBSET (1 .. n) -> B] : Folding(f, step, b, n)
    BY <1>3, <1>4, Folds
  <1>7. f = Along(f)
    <2>1. f = [s \in SUBSET (1 .. n) |->
                 IF s = {} THEN b ELSE step[<<Highest(s), f[s \ {Highest(s)}]>>]]
      BY <1>6 DEF Folding
    <2>2. ASSUME NEW s \in SUBSET (1 .. n), s # {}
          PROVE  step[<<Highest(s), f[s \ {Highest(s)}]>>]
                   = Printing(f[s \ {Highest(s)}], q[Highest(s)])
      <3>1. Highest(s) \in 1 .. n
        BY <2>2, HighestIs
      <3>2. f[s \ {Highest(s)}] \in B
        BY <1>6
      <3>3. QED
        BY <1>5, <3>1, <3>2
    <2>3. QED
      BY <2>1, <2>2, ZenonT(60)
  <1>8. F = Along(F)
    <2> HIDE DEF Along
    <2>1. QED
      BY <1>7
  <1> HIDE DEF F
  <1>9. /\ F[{}] = b
        /\ \A k \in 1 .. n : F[1 .. k] = Printing(F[1 .. (k - 1)], q[k])
    <2>1. \A s \in SUBSET (1 .. n) :
            F[s] = IF s = {} THEN b ELSE Printing(F[s \ {Highest(s)}], q[Highest(s)])
      BY <1>8, ZenonT(60)
    <2>2. F[{}] = b
      BY <2>1
    <2>3. ASSUME NEW k \in 1 .. n
          PROVE  F[1 .. k] = Printing(F[1 .. (k - 1)], q[k])
      <3>1. /\ 1 .. k \in SUBSET (1 .. n) /\ 1 .. k # {}
            /\ Highest(1 .. k) = k /\ (1 .. k) \ {k} = 1 .. (k - 1)
        BY FirstOnes
      <3>2. PICK s \in SUBSET (1 .. n) : s = 1 .. k
        BY <3>1
      <3>3. F[s] = Printing(F[s \ {Highest(s)}], q[Highest(s)])
        BY <2>1, <3>1, <3>2
      <3>4. Highest(s) = k /\ s \ {Highest(s)} = 1 .. (k - 1)
        BY <3>1, <3>2
      <3>5. QED
        BY <3>2, <3>3, <3>4
    <2>4. QED
      BY <2>2, <2>3
  <1> HIDE DEF Along
  <1> DEFINE Right(o, k) == o \in B /\ CutUp(o.done, o.L, q, e, k, n)
             P == {k \in Nat : k <= n => Right(F[1 .. k], k)}
  <1>10. 0 \in P
    <2>1. 1 .. 0 = {} /\ F[1 .. 0] = b
      BY <1>9
    <2>2. b.done = <<>> /\ b.L = <<>>
      BY DEF b
    <2>3. Right(b, 0)
      BY <1>3, <2>2, CutsNothing
    <2>4. QED
      BY <2>1, <2>3
  <1>11. ASSUME NEW k \in P PROVE k + 1 \in P
    <2>1. k \in Nat /\ k + 1 \in Nat
      OBVIOUS
    <2>2. ASSUME k + 1 <= n PROVE Right(F[1 .. (k + 1)], k + 1)
      <3>1. k <= n /\ k + 1 \in 1 .. n /\ (k + 1) - 1 = k
        BY <2>1, <2>2
      <3>2. PICK o : o = F[1 .. k]
        OBVIOUS
      <3>3. o \in B /\ CutUp(o.done, o.L, q, e, k, n)
        BY <3>1, <3>2
      <3>4. PICK v \in 1 .. n : v = q[k + 1]
        BY <1>1, <3>1
      <3>5. PICK u : u = F[1 .. (k + 1)]
        OBVIOUS
      <3>6. u = Printing(o, v)
        BY <1>9, <3>1, <3>2, <3>4, <3>5
      <3>7. u \in B
        BY <3>3, <3>6, PrintingStays DEF B
      <3>8. Follows(u, o, v, c_G.parent[v] = 0)
        <4>1. o \in Prints(n)
          BY <3>3 DEF B
        <4>2. QED
          BY <3>6, <4>1, PrintingIs
      <3>9. c_G.parent[v] = 0 <=> e[k + 1] = k + 1
        BY <3>1, <3>4
      <3>10. CASE e[k + 1] = k + 1
        <4>1. CutUp(Append(o.done, <<q[k + 1]>> \o o.L), <<>>, q, e, k + 1, n)
          <5>1. PICK d, l : d = o.done /\ l = o.L
            OBVIOUS
          <5>2. CutUp(d, l, q, e, k, n)
            BY <3>3, <5>1
          <5>3. CutUp(Append(d, <<q[k + 1]>> \o l), <<>>, q, e, k + 1, n)
            BY <2>1, <2>2, <3>10, <5>2, CutsNow, ZenonT(60)
          <5>4. QED
            BY <5>1, <5>3, ZenonT(60)
        <4>2. u.done = Append(o.done, <<q[k + 1]>> \o o.L) /\ u.L = <<>>
          <5>1. PICK d : d = Append(o.done, <<v>> \o o.L)
            OBVIOUS
          <5>2. u = [done |-> d, L |-> <<>>]
            BY <3>8, <3>9, <3>10, <5>1 DEF Follows
          <5>3. u.done = d /\ u.L = <<>>
            BY <5>2
          <5>4. QED
            BY <3>4, <5>1, <5>3
        <4>3. QED
          BY <3>5, <3>7, <4>1, <4>2
      <3>11. CASE e[k + 1] # k + 1
        <4>1. CutUp(o.done, <<q[k + 1]>> \o o.L, q, e, k + 1, n)
          BY <2>1, <2>2, <3>3, <3>11, CutsLater, ZenonT(60)
        <4>2. u.done = o.done /\ u.L = <<q[k + 1]>> \o o.L
          <5>1. PICK d, l : d = o.done /\ l = <<v>> \o o.L
            OBVIOUS
          <5>2. u = [done |-> d, L |-> l]
            BY <3>8, <3>9, <3>11, <5>1 DEF Follows
          <5>3. u.done = d /\ u.L = l
            BY <5>2
          <5>4. QED
            BY <3>4, <5>1, <5>3
        <4>3. QED
          BY <3>5, <3>7, <4>1, <4>2
      <3>12. QED
        BY <3>10, <3>11
    <2> HIDE DEF Right
    <2>3. QED
      BY <2>1, <2>2
  <1>12. P \in SUBSET Nat
    OBVIOUS
  <1> HIDE DEF P
  <1>13. P = Nat
    BY <1>10, <1>11, <1>12, EveryNat
  <1>14. n \in P /\ n <= n
    BY <1>13
  <1>15. Right(F[1 .. n], n)
    BY <1>14 DEF P
  <1>16. QED
    BY <1>2, <1>15 DEF CutUp

\* ToSet, for a sequence that has just the elements of A.
LEMMA JustToSet ==
  ASSUME NEW n, NEW s, NEW A, HasJust(s, A, n)
  PROVE  Components!ToSet(s) = A
  <1>1. DOMAIN s = 1 .. Len(s)
    <2>1. s \in Seq(1 .. n)
      BY DEF HasJust
    <2>2. QED
      BY <2>1, LenProperties
  <1>2. \A x : x \in Components!ToSet(s) <=> Has(s, Len(s), x)
    BY <1>1 DEF Components!ToSet, Has
  <1>3. QED
    BY <1>2 DEF HasJust

\* What PrintComponents promises of what it prints, P: g is the graph that was read
\* and h its transpose after the second search.
AllRight(P, g, h) ==
  /\ {Components!ToSet(p) : p \in Components!ToSet(P)}
       = {Components!Component(g, v) : v \in Components!Vertices(g)}
  /\ Components!IsInjective(Components!FlattenSeq(P))
  /\ Len(P) = Cardinality({v \in Components!Vertices(h) : h.parent[v] = Components!NIL})
  /\ \A j, k \in DOMAIN P :
       (\E a \in Components!ToSet(Components!Arcs(g)) :
          a[1] \in Components!ToSet(P[j]) /\ a[2] \in Components!ToSet(P[k]))
         => j <= k

\* When what is printed are the trees, it is what ComponentsAreRight asks for.
LEMMA TreesAreRight ==
  ASSUME NEW n \in Nat, NEW g, IsDigraph(g, n), Strict(g, n), NEW h, IsDigraph(h, n),
         Explored(h, n), NEW R, Reaching(g, R, n), \A v \in 1 .. n : R[v] = Components!Reach(g, v),
         NEW t, Planted(t, g, R, h, n), NEW P, NEW r, Trees(P, r, t, h, n)
  PROVE  AllRight(P, g, h)
  <1> DEFINE Tree(y) == {x \in 1 .. n : t[x] = y}
  <1>1. /\ P \in Seq(Seq(1 .. n))
        /\ \A m \in 1 .. Len(P) : /\ HasJust(P[m], Tree(r[m]), n)
                                  /\ r[m] \in 1 .. n /\ h.parent[r[m]] = 0 /\ t[r[m]] = r[m]
        /\ \A i, j \in 1 .. Len(P) : i <= j <=> h.finish[r[i]] <= h.finish[r[j]]
        /\ \A v \in 1 .. n : h.parent[v] = 0 => \E m \in 1 .. Len(P) : r[m] = v
    BY DEF Trees
  <1>2. PICK l \in Nat : l = Len(P) /\ DOMAIN P = 1 .. l
    BY <1>1, LenProperties
  <1>3. \A v \in 1 .. n : t[v] \in 1 .. n /\ h.parent[t[v]] = 0
    BY DEF Planted
  <1>4. Components!Vertices(g) = 1 .. n /\ Components!Vertices(h) = 1 .. n
    BY NumArcsIs
  <1>5. ASSUME NEW v \in 1 .. n PROVE Components!Component(g, v) = Tree(t[v])
    <2>1. \A w \in 1 .. n : t[w] = t[v] <=> w \in R[v] /\ v \in R[w]
      BY DEF Planted
    <2>2. \A w : w \in Components!Component(g, v) <=> w \in R[v] /\ v \in Components!Reach(g, w)
      BY DEF Components!Component
    <2>3. R[v] \in SUBSET (1 .. n)
      BY DEF Reaching
    <2>4. \A w : w \in Components!Component(g, v) <=> w \in 1 .. n /\ w \in R[v] /\ v \in R[w]
      BY <2>2, <2>3
    <2>5. QED
      BY <2>1, <2>4
  <1> HIDE DEF Tree
  <1>6. \A m \in 1 .. l : Components!ToSet(P[m]) = Tree(r[m])
    BY <1>1, <1>2, JustToSet
  <1>7. \A i, j \in 1 .. l : r[i] = r[j] => i = j
    <2>1. SUFFICES ASSUME NEW i \in 1 .. l, NEW j \in 1 .. l, r[i] = r[j] PROVE i = j
      OBVIOUS
    <2>2. h.finish[r[i]] \in Int /\ r[i] \in 1 .. n
      BY <1>1, <1>2 DEF IsDigraph
    <2>3. h.finish[r[i]] <= h.finish[r[j]] /\ h.finish[r[j]] <= h.finish[r[i]]
      BY <2>1, <2>2
    <2>4. i <= j /\ j <= i
      BY <1>1, <1>2, <2>3
    <2>5. QED
      BY <2>4
  <1>8. {Components!ToSet(p) : p \in Components!ToSet(P)}
          = {Components!Component(g, v) : v \in Components!Vertices(g)}
    <2>1. \A p : p \in Components!ToSet(P) <=> \E m \in 1 .. l : p = P[m]
      BY <1>2 DEF Components!ToSet
    <2>2. ASSUME NEW p \in Components!ToSet(P)
          PROVE  \E v \in 1 .. n : Components!ToSet(p) = Components!Component(g, v)
      <3>1. PICK m \in 1 .. l : p = P[m]
        BY <2>1
      <3>2. r[m] \in 1 .. n /\ t[r[m]] = r[m]
        BY <1>1, <1>2
      <3>3. Components!ToSet(p) = Tree(r[m])
        BY <1>6, <3>1
      <3>4. Components!Component(g, r[m]) = Tree(r[m])
        BY <1>5, <3>2
      <3>5. QED
        BY <3>2, <3>3, <3>4
    <2>3. ASSUME NEW v \in 1 .. n
          PROVE  \E p \in Components!ToSet(P) : Components!ToSet(p) = Components!Component(g, v)
      <3>1. PICK m \in 1 .. l : r[m] = t[v]
        BY <1>1, <1>2, <1>3
      <3>2. P[m] \in Components!ToSet(P)
        BY <2>1
      <3>3. Components!ToSet(P[m]) = Components!Component(g, v)
        BY <1>5, <1>6, <3>1
      <3>4. QED
        BY <3>2, <3>3
    <2>4. QED
      BY <1>4, <2>2, <2>3
  <1>9. Components!IsInjective(Components!FlattenSeq(P))
    <2>1. PICK T : T = 1 .. n /\ P \in Seq(Seq(T))
      BY <1>1
    <2>2. \A m \in 1 .. l : Distinct(P[m])
      BY <1>1, <1>2 DEF HasJust, Distinct
    <2>3. ASSUME NEW m \in 1 .. l, NEW k \in 1 .. l, m # k PROVE Apart(P[m], P[k])
      <3>1. r[m] # r[k]
        BY <1>7, <2>3
      <3>2. \A x : ~(x \in Tree(r[m]) /\ x \in Tree(r[k]))
        BY <3>1 DEF Tree
      <3>3. HasJust(P[m], Tree(r[m]), n) /\ HasJust(P[k], Tree(r[k]), n)
        BY <1>1, <1>2
      <3>4. QED
        BY <3>2, <3>3 DEF Apart, HasJust
    <2>4. QED
      BY <1>2, <2>1, <2>2, <2>3, FlattenIsInjective
  <1>10. Len(P) = Cardinality({v \in Components!Vertices(h) : h.parent[v] = Components!NIL})
    <2> DEFINE A == {v \in 1 .. n : h.parent[v] = 0}
               b == [m \in 1 .. l |-> r[m]]
    <2>1. b \in Bijection(1 .. l, A)
      <3>1. b \in [1 .. l -> A]
        BY <1>1, <1>2
      <3>2. \A i, j \in 1 .. l : b[i] = b[j] => i = j
        BY <1>7
      <3>3. \A v \in A : \E m \in 1 .. l : b[m] = v
        BY <1>1, <1>2
      <3> HIDE DEF A, b
      <3>4. QED
        BY <3>1, <3>2, <3>3, Fun_IsBij
    <2>2. IsFiniteSet(1 .. l) /\ Cardinality(1 .. l) = l
      BY FS_Interval
    <2> HIDE DEF b, A
    <2>3. Cardinality(A) = l
      BY <2>1, <2>2, FS_Bijection DEF ExistsBijection
    <2>4. {v \in Components!Vertices(h) : h.parent[v] = Components!NIL} = A
      BY <1>4 DEF A, Components!NIL
    <2>5. QED
      BY <1>2, <2>3, <2>4
  <1>11. ASSUME NEW j \in DOMAIN P, NEW k \in DOMAIN P,
                NEW a \in Components!ToSet(Components!Arcs(g)),
                a[1] \in Components!ToSet(P[j]), a[2] \in Components!ToSet(P[k])
         PROVE  j <= k
    <2>1. PICK x \in 1 .. n, y \in 1 .. n : a = <<x, y>> /\ IsArc(g, x, y)
      <3>1. PICK q : q = Components!Arcs(g)
        OBVIOUS
      <3>2. Listed(q, g, n, n)
        BY <3>1, ArcsAre
      <3>3. q \in Seq((1 .. n) \X (1 .. n))
        BY <3>2 DEF Listed
      <3>4. PICK i \in 1 .. Len(q) : a = q[i]
        BY <3>1, <3>3, LenProperties DEF Components!ToSet
      <3>5. a \in (1 .. n) \X (1 .. n)
        BY <3>3, <3>4, ElementOfSeq
      <3>6. PICK x \in 1 .. n, y \in 1 .. n : a = <<x, y>>
        BY <3>5
      <3>7. Has(q, Len(q), <<x, y>>)
        BY <3>4, <3>6 DEF Has
      <3>8. IsArc(g, x, y)
        BY <3>2, <3>7 DEF Listed
      <3>9. QED
        BY <3>6, <3>8
    <2>2. x \in Tree(r[j]) /\ y \in Tree(r[k]) /\ j \in 1 .. l /\ k \in 1 .. l
      BY <1>2, <1>6, <1>11, <2>1
    <2>3. t[x] = r[j] /\ t[y] = r[k]
      BY <2>2 DEF Tree
    <2>4. h.finish[t[x]] <= h.finish[t[y]]
      BY <2>1 DEF Planted
    <2>5. QED
      BY <1>1, <1>2, <2>2, <2>3, <2>4
  <1>12. QED
    BY <1>8, <1>9, <1>10, <1>11 DEF AllRight

-----------------------------------------------------------------------------
(* What is known of the two searches: g, s, k, f, P, m and p stand for G,  *)
(* S, next, first, printed, main and pc.                                   *)
Completed(g, s, n) == Explored(g, n) /\ Ranked(s, g.finish, n)

\* f is the graph that the second search is given turned round.
Second(g, s, f, p, n) ==
  /\ IsDigraph(f, n) /\ Strict(f, n) /\ Explored(f, n) /\ Reversed(g, f, n)
  /\ p = "roots" => Falls(s, f.finish, n)
  /\ p = "idle" => RootsFirst(g, f.finish, n)

Kosaraju(g, s, k, f, P, m, p, n) ==
  /\ p = "roots" => Recorded(g, s, k, n)
  /\ p = "idle" /\ m \in {"first DFS", "second DFS"} => Completed(g, s, n)
  /\ m = "second DFS" => Second(g, s, f, p, n)
  /\ m = "done" => AllRight(P, f, g)

SearchInv ==
  Kosaraju(c_G, c_S, c_next, c_first, c_printed, c_main, c_pc, Len(c_G.neighbors))

\* The invariant after a step, from the values after the step.
LEMMA SearchInvNext ==
  ASSUME NEW n, NEW g, Len(g.neighbors) = n, NEW s, NEW k, NEW f, NEW P, NEW m, NEW p,
         Kosaraju(g, s, k, f, P, m, p, n),
         c_G' = g, c_S' = s, c_next' = k, c_first' = f, c_printed' = P, c_main' = m, c_pc' = p
  PROVE  SearchInv'
  BY DEF SearchInv

\* Between the searches it says nothing.
LEMMA IdleSearches ==
  ASSUME c_pc' = "idle", c_main' \notin {"first DFS", "second DFS", "done"}
  PROVE  SearchInv'
  BY DEF SearchInv, Kosaraju

\* The property follows from the invariant.
LEMMA SearchFollows ==
  ASSUME SearchInv
  PROVE  ComponentsAreRight
  <1>1. c_main = "done" => AllRight(c_printed, c_first, c_G)
    BY DEF SearchInv, Kosaraju
  <1>2. \A s : Components!Cardinality(s) = Cardinality(s)
    BY DEF Components!Cardinality, Cardinality
  <1>3. QED
    BY <1>1, <1>2
       DEF ComponentsAreRight, Components!ComponentsAreRight, AllRight, Components!counter

\* The searches are as they should be and c_G has n vertices.
LEMMA SearchNow ==
  ASSUME NEW n \in Nat, CompInvOf(n), SearchInv
  PROVE  \E g, s, k, f, P, m, p :
           /\ g = c_G /\ s = c_S /\ k = c_next /\ f = c_first /\ P = c_printed /\ m = c_main
           /\ p = c_pc /\ IsDigraph(g, n) /\ Strict(g, n) /\ Len(g.neighbors) = n
           /\ Kosaraju(g, s, k, f, P, m, p, n)
  <1>1. IsDigraph(c_G, n) /\ Strict(c_G, n)
    BY DEF CompInvOf, Sized
  <1>2. Len(c_G.neighbors) = n
    BY <1>1, NumArcsIs
  <1>3. QED
    BY <1>1, <1>2 DEF SearchInv

\* What PrintComponents prints is right.
LEMMA PrintingIsRight ==
  ASSUME NEW n \in Nat, CompInvOf(n), SearchInv, Components!PrintComponents
  PROVE  SearchInv'
  <1>1. PICK g, s, k, f, P, m, p :
           /\ g = c_G /\ s = c_S /\ k = c_next /\ f = c_first /\ P = c_printed /\ m = c_main
           /\ p = c_pc /\ IsDigraph(g, n) /\ Strict(g, n) /\ Len(g.neighbors) = n
           /\ Kosaraju(g, s, k, f, P, m, p, n)
    BY SearchNow
  <1>2. /\ m = "second DFS" /\ p = "idle" /\ c_main' = "done" /\ c_pc' = p
        /\ c_G' = g /\ c_S' = s /\ c_next' = k /\ c_first' = f
    BY <1>1 DEF Components!PrintComponents, Components!dfs
  <1>3. Explored(g, n) /\ Ranked(s, g.finish, n)
    BY <1>1, <1>2 DEF Kosaraju, Completed
  <1>4. /\ IsDigraph(f, n) /\ Strict(f, n) /\ Explored(f, n) /\ Reversed(g, f, n)
        /\ RootsFirst(g, f.finish, n)
    BY <1>1, <1>2 DEF Kosaraju, Second
  <1>5. PICK q : q = Components!Reverse(c_S)
    OBVIOUS
  <1>6. s \in Seq(1 .. n) /\ Len(s) = n
    BY <1>1, <1>3 DEF CompInvOf, Ranked, Onto
  <1>7. q = [i \in 1 .. n |-> s[n + 1 - i]]
    <2>1. \A i \in 1 .. n : (n - i) + 1 = n + 1 - i
      OBVIOUS
    <2>2. q = [i \in 1 .. n |-> s[(n - i) + 1]]
      BY <1>1, <1>5, <1>6 DEF Components!Reverse
    <2>3. QED
      BY <2>1, <2>2
  <1>8. FinishOrder(q, g, n)
    BY <1>3, <1>6, <1>7, BackwardsFinishes
  <1>9. PICK R : Reaching(f, R, n) /\ \A v \in 1 .. n : R[v] = Components!Reach(f, v)
    BY <1>4, ReachReaches
  <1>10. PICK Q : Reaching(g, Q, n)
    BY <1>1, ReachReaches
  <1>11. PICK t : Planted(t, f, R, g, n)
    BY <1>3, <1>4, <1>9, <1>10, TreesAre
  <1>12. PICK e : EndsAtRoots(e, t, q, g, n)
    BY <1>8, <1>11, RootsEndBlocks
  <1>13. PICK pr : pr = c_printed'
    OBVIOUS
  <1>14. PICK en : Ends(en, e, n, n) /\ BlocksOf(pr, en, q, e, n)
    <2>1. q \in [1 .. n -> 1 .. n] /\ \A i, j \in 1 .. n : q[i] = q[j] => i = j
      BY <1>8 DEF FinishOrder
    <2>2. Blocks(e, n) /\ \A j \in 1 .. n : c_G.parent[q[j]] = 0 <=> e[j] = j
      BY <1>1, <1>12 DEF EndsAtRoots
    <2>3. QED
      BY <1>5, <1>13, <2>1, <2>2, PrintedIs
  <1>15. t \in [1 .. n -> 1 .. n]
    BY <1>11 DEF Planted
  <1>16. PICK r : Trees(pr, r, t, g, n)
    BY <1>8, <1>12, <1>14, <1>15, TreesArePrinted
  <1>17. AllRight(pr, f, g)
    BY <1>1, <1>3, <1>4, <1>9, <1>11, <1>16, TreesAreRight
  <1>18. Kosaraju(g, s, k, f, pr, "done", "idle", n)
    BY <1>17 DEF Kosaraju
  <1>19. QED
    BY <1>1, <1>2, <1>13, <1>18, SearchInvNext

\* DFS begins: h is what it makes of g.
LEMMA SearchBegins ==
  ASSUME NEW n \in Nat, NEW g, Sized(g, n, 0), NEW s, Onto(s, n), Components!StartDFS(g, s)
  PROVE  \E h : /\ c_G' = h /\ h.neighbors = g.neighbors /\ Len(h.neighbors) = n
                /\ c_S' = s /\ c_next' = 1 /\ c_pc' = "roots"
                /\ Recorded(h, s, 1, n)
  <1>1. IsDigraph(g, n) /\ Len(g.neighbors) = n
    BY NumArcsIs DEF Sized
  <1>2. /\ c_pc' = "roots" /\ c_S' = s /\ c_next' = 1
        /\ c_G' = [g EXCEPT !.color = Components!All(n, "WHITE"),
                         !.parent = Components!All(n, Components!NIL),
                         !.discover = Components!All(n, Components!UNDEF),
                         !.finish = Components!All(n, Components!UNDEF)]
    BY <1>1 DEF Components!StartDFS
  <1>3. PICK h : h = c_G'
    OBVIOUS
  <1>4. h.neighbors = g.neighbors /\ h.color = Components!All(n, "WHITE")
    BY <1>1, <1>2, <1>3 DEF IsDigraph
  <1>5. \A v \in 1 .. n : h.color[v] = "WHITE"
    BY <1>4 DEF Components!All
  <1>6. Recorded(h, s, 1, n)
    BY <1>5, FreshSearches
  <1>7. QED
    BY <1>1, <1>2, <1>3, <1>4, <1>6

\* The invariant holds when the first search begins.
LEMMA FirstBegins ==
  ASSUME NEW n \in Nat, CompInvOf(n), Components!ReadZeros
  PROVE  SearchInv'
  <1>1. /\ c_main = "arcs" /\ c_main' = "first DFS"
        /\ Components!StartDFS(c_G, Components!Identity(c_G))
    BY DEF Components!ReadZeros
  <1>2. Sized(c_G, n, 0) /\ IsDigraph(c_G, n)
    BY <1>1 DEF CompInvOf, Sized, Components!Client
  <1>3. PICK g, s : g = c_G /\ s = Components!Identity(c_G)
    OBVIOUS
  <1>4. s = [v \in 1 .. n |-> v]
    BY <1>2, <1>3, NumArcsIs DEF Components!Identity
  <1>5. s \in Seq(1 .. n) /\ Len(s) = n
    BY <1>4, FunIsSeq
  <1>6. Onto(s, n)
    BY <1>4, <1>5 DEF Onto
  <1>7. Sized(g, n, 0) /\ Components!StartDFS(g, s)
    BY <1>1, <1>2, <1>3
  <1>8. PICK h : /\ c_G' = h /\ Len(h.neighbors) = n /\ c_S' = s /\ c_next' = 1
                 /\ c_pc' = "roots" /\ Recorded(h, s, 1, n)
    BY <1>6, <1>7, SearchBegins
  <1>9. PICK f, P : f = c_first' /\ P = c_printed'
    OBVIOUS
  <1>10. Kosaraju(h, s, 1, f, P, "first DFS", "roots", n)
    BY <1>8 DEF Kosaraju
  <1>11. QED
    BY <1>1, <1>8, <1>9, <1>10, SearchInvNext

\* It holds when the second search begins, on the transpose.
LEMMA SecondBegins ==
  ASSUME NEW n \in Nat, CompInvOf(n), SearchInv, Components!Transpose
  PROVE  SearchInv'
  <1>1. PICK g, s, k, f, P, m, p :
           /\ g = c_G /\ s = c_S /\ k = c_next /\ f = c_first /\ P = c_printed /\ m = c_main
           /\ p = c_pc /\ IsDigraph(g, n) /\ Strict(g, n) /\ Len(g.neighbors) = n
           /\ Kosaraju(g, s, k, f, P, m, p, n)
    BY SearchNow
  <1>2. /\ m = "first DFS" /\ p = "idle" /\ c_main' = "second DFS" /\ c_first' = g
        /\ Components!StartDFS(Components!transpose(g), s)
    BY <1>1 DEF Components!Transpose
  <1>3. Explored(g, n) /\ Onto(s, n) /\ Falls(s, g.finish, n)
    BY <1>1, <1>2 DEF Kosaraju, Completed, Ranked
  <1>4. PICK t : t = Components!transpose(g)
    OBVIOUS
  <1>5. Transposed(t, g, n)
    BY <1>1, <1>4, TransposeIs
  <1>6. Sized(t, n, 0)
    <2>1. Sized(g, n, 0)
      BY <1>1, <1>2 DEF CompInvOf, Components!Client
    <2>2. QED
      BY <1>4, <2>1, SizedTranspose
  <1>7. Components!StartDFS(t, s)
    BY <1>2, <1>4
  <1>8. PICK h : /\ c_G' = h /\ h.neighbors = t.neighbors /\ Len(h.neighbors) = n
                 /\ c_S' = s /\ c_next' = 1 /\ c_pc' = "roots" /\ Recorded(h, s, 1, n)
    BY <1>3, <1>6, <1>7, SearchBegins
  <1>9. Reversed(h, g, n)
    BY <1>5, <1>8 DEF Transposed, Reversed, IsArc
  <1>10. PICK Q : Q = c_printed'
    OBVIOUS
  <1>11. Second(h, s, g, "roots", n)
    BY <1>1, <1>3, <1>9 DEF Second
  <1>12. Kosaraju(h, s, 1, g, Q, "second DFS", "roots", n)
    BY <1>8, <1>11 DEF Kosaraju
  <1>13. QED
    BY <1>2, <1>8, <1>10, <1>12, SearchInvNext

\* A search does not change the arcs.
LEMMA ListsStay ==
  ASSUME NEW n \in Nat, IsDigraph(c_G, n),
         Components!NextRoot \/ Components!Visit \/ Components!Leave
  PROVE  c_G'.neighbors = c_G.neighbors
  <1>1. ASSUME NEW v, NEW p, Components!Enter(v, p)
        PROVE  c_G'.neighbors = c_G.neighbors
    BY <1>1 DEF Components!Enter, IsDigraph
  <1>2. CASE Components!NextRoot
    BY <1>1, <1>2 DEF Components!NextRoot
  <1>3. CASE Components!Visit
    BY <1>1, <1>3 DEF Components!Visit
  <1>4. CASE Components!Leave
    BY <1>4 DEF Components!Leave, IsDigraph
  <1>5. QED
    BY <1>2, <1>3, <1>4

\* A step of either search within DFS_Visit or from root to root.
LEMMA SearchGoesOn ==
  ASSUME NEW n \in Nat, CompInvOf(n), NestInv, SearchInv, c_pc = "roots", c_pc' = "roots",
         c_S' = c_S, c_G'.neighbors = c_G.neighbors,
         UNCHANGED <<c_main, c_first, c_edges, c_entered, c_printed>>,
         Recorded(c_G, c_S, c_next, n)'
  PROVE  SearchInv'
  <1>1. PICK g, s, k, f, P, m, p :
           /\ g = c_G /\ s = c_S /\ k = c_next /\ f = c_first /\ P = c_printed /\ m = c_main
           /\ p = c_pc /\ IsDigraph(g, n) /\ Strict(g, n) /\ Len(g.neighbors) = n
           /\ Kosaraju(g, s, k, f, P, m, p, n)
    BY SearchNow
  <1>2. PICK h, l : h = c_G' /\ l = c_next'
    OBVIOUS
  <1>3. Recorded(h, s, l, n) /\ h.neighbors = g.neighbors
    BY <1>1, <1>2
  <1>4. m \in {"first DFS", "second DFS"}
    BY <1>1, AtWork DEF Running
  <1>5. m = "second DFS" => Second(h, s, f, p, n)
    <2>1. SUFFICES ASSUME m = "second DFS" PROVE Second(h, s, f, p, n)
      OBVIOUS
    <2>2. Second(g, s, f, p, n) /\ p = "roots"
      BY <1>1, <2>1 DEF Kosaraju
    <2>3. Reversed(h, f, n)
      BY <1>3, <2>2 DEF Second, Reversed, IsArc
    <2>4. QED
      BY <2>2, <2>3 DEF Second
  <1>6. Kosaraju(h, s, l, f, P, m, p, n)
    BY <1>1, <1>3, <1>4, <1>5 DEF Kosaraju
  <1>7. QED
    BY <1>1, <1>2, <1>3, <1>6, SearchInvNext

\* The end of a search leaves its list sorted, and all that was found behind it.
LEMMA SearchIsOver ==
  ASSUME NEW n \in Nat, CompInvOf(n), NestInv, SearchInv, Components!EndDFS,
         UNCHANGED <<c_main, c_first, c_edges, c_entered, c_printed>>
  PROVE  SearchInv'
  <1>1. PICK g, s, k, f, P, m, p :
           /\ g = c_G /\ s = c_S /\ k = c_next /\ f = c_first /\ P = c_printed /\ m = c_main
           /\ p = c_pc /\ IsDigraph(g, n) /\ Strict(g, n) /\ Len(g.neighbors) = n
           /\ Kosaraju(g, s, k, f, P, m, p, n)
    BY SearchNow
  <1>2. /\ c_pc = "roots" /\ c_stack = <<>> /\ c_next > Len(c_S) /\ c_pc' = "idle" /\ c_G' = c_G
        /\ c_S' = Components!FoldLeft(Components!Inserted, <<>>, c_S) /\ c_next' = 0
    BY DEF Components!EndDFS
  <1>3. PICK a, t : Nested(g, <<>>, a, t, n) /\ Len(s) = n
    BY <1>1, <1>2, NestsNow
  <1>4. Recorded(g, s, k, n)
    BY <1>1, <1>2 DEF Kosaraju
  <1>5. k \in Nat /\ k > n /\ s \in Seq(1 .. n) /\ m \in {"first DFS", "second DFS"}
    BY <1>1, <1>2, <1>3, AtWork DEF Running
  <1>6. Explored(g, n) /\ Reached(g, n) = 1 .. n
    BY <1>3, <1>4, <1>5, SearchEnds
  <1>7. PICK q : q = c_S'
    OBVIOUS
  <1>8. Sorts(q, s, g.finish, n, n)
    <2>1. c_S \in Seq(1 .. n) /\ c_G.finish \in [1 .. n -> Int] /\ Len(c_S) = n
      BY <1>1, <1>3, <1>5 DEF IsDigraph
    <2>2. QED
      BY <1>1, <1>2, <1>7, <2>1, SortedIs
  <1>9. Completed(g, q, n)
    BY <1>4, <1>6, <1>8, SortingRanks DEF Completed, Recorded
  <1>10. m = "second DFS" => Second(g, q, f, "idle", n)
    <2>1. SUFFICES ASSUME m = "second DFS" PROVE Second(g, q, f, "idle", n)
      OBVIOUS
    <2>2. Second(g, s, f, "roots", n)
      BY <1>1, <1>2, <2>1 DEF Kosaraju
    <2>3. Falls(s, f.finish, n) /\ f.finish \in [1 .. n -> Int]
      BY <2>2 DEF Second, IsDigraph
    <2>4. RootsFirst(g, f.finish, n)
      BY <1>4, <1>6, <2>3, RootsComeFirst DEF Recorded
    <2>5. QED
      BY <2>2, <2>4 DEF Second
  <1>11. Kosaraju(g, q, 0, f, P, m, "idle", n)
    BY <1>5, <1>9, <1>10 DEF Kosaraju
  <1>12. QED
    BY <1>1, <1>2, <1>7, <1>11, SearchInvNext

\* Every step of DFS keeps the invariant.
LEMMA SearchSteps ==
  ASSUME NEW n \in Nat, CompInvOf(n), NestInv, SearchInv, Components!DFSStep,
         UNCHANGED <<c_main, c_first, c_edges, c_entered, c_printed>>
  PROVE  SearchInv'
  <1>1. CASE Components!EndDFS
    BY <1>1, SearchIsOver
  <1>2. CASE Components!NextRoot \/ Components!Visit \/ Components!Leave
    <2>1. c_pc = "roots" /\ c_pc' = "roots" /\ c_S' = c_S
      BY <1>2 DEF Components!NextRoot, Components!Visit, Components!Leave
    <2>2. IsDigraph(c_G, n)
      BY <2>1, AtWork
    <2>3. c_G'.neighbors = c_G.neighbors
      BY <1>2, <2>2, ListsStay
    <2>4. Recorded(c_G, c_S, c_next, n)
      <3>1. Len(c_G.neighbors) = n
        BY <2>2, NumArcsIs
      <3>2. QED
        BY <2>1, <3>1 DEF SearchInv, Kosaraju
    <2>5. Recorded(c_G, c_S, c_next, n)'
      BY <1>2, <2>4, RootSearches, VisitSearches, ReturnSearches
    <2>6. QED
      BY <2>1, <2>3, <2>5, SearchGoesOn
  <1>3. QED
    BY <1>1, <1>2 DEF Components!DFSStep

\* The program's steps keep it.
LEMMA MainSearches ==
  ASSUME NEW n \in Nat, CompInvOf(n), NestInv, SearchInv, Components!MainStep
  PROVE  SearchInv'
  <1>1. CASE \/ Components!ReadOrder \/ Components!ReadArc \/ Components!ReadFails
             \/ Components!Finish
    <2>1. /\ c_main \notin {"first DFS", "second DFS"} /\ c_pc' = c_pc
          /\ c_main' \notin {"first DFS", "second DFS", "done"}
      BY <1>1 DEF Components!ReadOrder, Components!ReadArc, Components!ReadFails,
                  Components!Finish, Components!dfs
    <2>2. QED
      BY <2>1, IdleUnless, IdleSearches
  <1>2. CASE Components!DFSStep /\ UNCHANGED <<c_main, c_first, c_edges, c_entered, c_printed>>
    BY <1>2, SearchSteps
  <1>3. QED
    BY <1>1, <1>2, FirstBegins, SecondBegins, PrintingIsRight DEF Components!MainStep

\* The other clients' calls do not disturb it.
LEMMA ClientSearches ==
  ASSUME NEW n \in Nat, CompInvOf(n),
         \/ Components!CallNew \/ Components!CallFree \/ Components!CallCopy
         \/ Components!CallAddArc \/ Components!CallAddEdge \/ Components!CallDFSExits
  PROVE  SearchInv'
  <1>1. ASSUME NEW g, Components!Call(g)
        PROVE  c_pc' = c_pc /\ c_main = Components!Client /\ c_main' = c_main
    BY <1>1 DEF Components!Call, Components!dfs
  <1>2. /\ c_pc' = c_pc /\ c_main = Components!Client
        /\ c_main' \in {Components!Client, "failed"}
    <2>1. CASE Components!CallNew
      BY <1>1, <2>1 DEF Components!CallNew
    <2>2. CASE Components!CallFree
      BY <2>2 DEF Components!CallFree, Components!dfs
    <2>3. CASE Components!CallCopy
      BY <1>1, <2>3 DEF Components!CallCopy
    <2>4. CASE Components!CallAddArc
      BY <1>1, <2>4 DEF Components!CallAddArc
    <2>5. CASE Components!CallAddEdge
      BY <1>1, <2>5 DEF Components!CallAddEdge
    <2>6. CASE Components!CallDFSExits
      BY <2>6 DEF Components!CallDFSExits, Components!dfs
    <2>7. QED
      BY <2>1, <2>2, <2>3, <2>4, <2>5, <2>6
  <1>3. c_pc = "idle"
    BY <1>2, IdleUnless DEF Components!Client
  <1>4. QED
    BY <1>2, <1>3, IdleSearches DEF Components!Client

\* The invariant is inductive, with the two before it.
LEMMA SearchesStay == CompInv /\ NestInv /\ SearchInv /\ [Next]_vars => SearchInv'
  <1>1. SUFFICES ASSUME CompInv, NestInv, SearchInv,
                        \/ program = "FindComponents" /\ Components!FindComponentsNext
                        \/ UNCHANGED componentVars
                 PROVE  SearchInv'
    BY <1>1 DEF Next, vars
  <1>2. PICK n \in Nat : CompInvOf(n)
    BY <1>1 DEF CompInv
  <1>3. CASE Components!MainStep
    BY <1>1, <1>2, <1>3, MainSearches
  <1>4. CASE \/ Components!CallNew \/ Components!CallFree \/ Components!CallCopy
             \/ Components!CallAddArc \/ Components!CallAddEdge \/ Components!CallDFSExits
    BY <1>2, <1>4, ClientSearches
  <1>5. CASE UNCHANGED componentVars
    BY <1>1, <1>5 DEF componentVars, SearchInv
  <1>6. QED
    BY <1>1, <1>3, <1>4, <1>5 DEF Components!FindComponentsNext

\* It holds when the program starts.
LEMMA SearchesBegin == Init => SearchInv
  <1>1. SUFFICES ASSUME Init PROVE c_pc = "idle" /\ c_main \notin {"first DFS", "second DFS", "done"}
    BY DEF SearchInv, Kosaraju
  <1>2. c_pc = "idle" /\ c_main \in {"order", "client"}
    BY <1>1 DEF Init, Components!FindComponentsInit, Components!Init, Components!MainInit,
                Components!Client
  <1>3. QED
    BY <1>2

(* Kosaraju's algorithm: whatever graph the program reads, of any order,   *)
(* what FindComponents has printed when it is done are the strongly        *)
(* connected components, as many as it counted, each vertex once, and an   *)
(* arc from one to another leads to one that is printed after it.          *)
THEOREM ComponentsAreFound == Spec => []ComponentsAreRight
  <1>1. Spec => [](CompInv /\ NestInv /\ SearchInv)
    <2>1. Init => CompInv /\ NestInv /\ SearchInv
      BY CompInit, SearchesBegin DEF Init, NestInv, Components!FindComponentsInit, Components!Init
    <2>2. CompInv /\ NestInv /\ SearchInv /\ [Next]_vars => CompInv' /\ NestInv' /\ SearchInv'
      BY SizeStays, NestsStay, SearchesStay
    <2>3. QED
      BY <2>1, <2>2, PTL DEF Spec
  <1>2. QED
    BY <1>1, SearchFollows, PTL
=============================================================================

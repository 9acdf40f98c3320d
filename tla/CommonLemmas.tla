---------------------------- MODULE CommonLemmas ----------------------------
(***************************************************************************)
(* Lemmas that the proofs of several modules need, or that speak of values *)
(* alone, without a variable of a program.  On numbers and sequences:      *)
(* induction over the naturals, the least and the greatest of a set,       *)
(* recursive functions and folds, what inserting into a sequence and       *)
(* removing from it do to its elements, joining and sorting.  On graphs:   *)
(* the record that depth-first search leaves in a graph, step by step, and *)
(* what Kosaraju's algorithm reads from two such records.                  *)
(***************************************************************************)
EXTENDS Integers, FiniteSets, Sequences, FunctionTheorems, FiniteSetTheorems,
        SequenceTheorems, TLAPS

(* Induction over the naturals, stated for a set of numbers, since a       *)
(* theorem about an operator is one that the provers cannot instantiate:   *)
(* as many steps of a set that is closed under successors fit below a      *)
(* number outside as without the first.                                    *)
LEMMA EveryNat ==
  ASSUME NEW S \in SUBSET Nat, 0 \in S, \A n \in S : n + 1 \in S
  PROVE  S = Nat
  <1>1. SUFFICES ASSUME NEW m \in Nat, m \notin S
                 PROVE  FALSE
    OBVIOUS
  <1> DEFINE A == S \cap (0 .. m)
             f == [i \in A |-> i + 1]
  <1>2. IsFiniteSet(A) /\ Cardinality(A) \in Nat
    <2>1. A \in SUBSET Nat /\ \A s \in A : s <= m
      OBVIOUS
    <2> HIDE DEF A
    <2>2. QED
      BY <2>1, FS_BoundedSetOfNaturals, FS_CardinalityType
  <1>3. 0 \in A
    OBVIOUS
  <1>4. IsFiniteSet(A \ {0}) /\ Cardinality(A \ {0}) = Cardinality(A) - 1
    BY <1>2, <1>3, FS_RemoveElement
  <1>5. f \in Injection(A, A \ {0})
    <2>1. ASSUME NEW i \in A PROVE i + 1 \in A \ {0}
      BY <1>1
    <2>2. \A i, j \in A : f[i] = f[j] => i = j
      OBVIOUS
    <2>3. f \in [A -> A \ {0}]
      BY <2>1
    <2> HIDE DEF A
    <2>4. QED
      BY <2>2, <2>3, Fun_IsInj
  <1>6. Cardinality(A) <= Cardinality(A \ {0})
    <2> HIDE DEF f, A
    <2>1. QED
      BY <1>4, <1>5, FS_Injection
  <1> HIDE DEF A
  <1>7. QED
    BY <1>2, <1>4, <1>6

-----------------------------------------------------------------------------
\* A function on 1 .. n is a sequence of length n.
LEMMA FunIsSeq ==
  ASSUME NEW S, NEW n \in Nat, NEW f \in [1 .. n -> S]
  PROVE  f \in Seq(S) /\ Len(f) = n /\ DOMAIN f = 1 .. n
  BY SeqDef

\* InsertAt and RemoveAt, at a position counted from 0.
Inserted(s, k, d) == SubSeq(s, 1, (k + 1) - 1) \o <<d>> \o SubSeq(s, k + 1, Len(s))
Removed(s, k)     == SubSeq(s, 1, (k + 1) - 1) \o SubSeq(s, (k + 1) + 1, Len(s))

\* Inserting d after the first k elements moves those behind up by one.
LEMMA InsertedIs ==
  ASSUME NEW S, NEW s \in Seq(S), NEW k \in 0 .. Len(s), NEW d \in S
  PROVE  /\ Inserted(s, k, d) \in Seq(S) /\ Len(Inserted(s, k, d)) = Len(s) + 1
         /\ \A i \in 1 .. (Len(s) + 1) :
              Inserted(s, k, d)[i] = IF i <= k THEN s[i] ELSE IF i = k + 1 THEN d ELSE s[i - 1]
  <1> DEFINE n == Len(s)
             u == SubSeq(s, 1, (k + 1) - 1)
             v == SubSeq(s, k + 1, n)
             m == u \o <<d>>
  <1>1. n \in Nat /\ k \in 0 .. n /\ \A i \in 1 .. n : s[i] \in S
    BY LenProperties, ElementOfSeq
  <1> HIDE DEF n
  <1>2. u \in Seq(S) /\ Len(u) = k /\ \A i \in 1 .. k : u[i] = s[i]
    <2>1. (k + 1) - 1 \in Int /\ 1 \in Int /\ \A i \in 1 .. ((k + 1) - 1) : s[i] \in S
      BY <1>1
    <2>2. /\ u \in Seq(S) /\ Len(u) = IF 1 <= (k + 1) - 1 THEN (k + 1) - 1 - 1 + 1 ELSE 0
          /\ \A i \in 1 .. ((k + 1) - 1 - 1 + 1) : u[i] = s[1 + i - 1]
      BY <2>1, SubSeqProperties
    <2> HIDE DEF u
    <2>3. \A i \in 1 .. k : i \in 1 .. ((k + 1) - 1 - 1 + 1) /\ 1 + i - 1 = i
      BY <1>1
    <2>4. Len(u) = k
      BY <1>1, <2>2
    <2>5. QED
      BY <2>2, <2>3, <2>4
  <1>3. v \in Seq(S) /\ Len(v) = n - k /\ \A i \in 1 .. (n - k) : v[i] = s[k + i]
    <2>1. n \in Int /\ k + 1 \in Int /\ \A i \in (k + 1) .. n : s[i] \in S
      BY <1>1
    <2>2. /\ v \in Seq(S) /\ Len(v) = IF k + 1 <= n THEN n - (k + 1) + 1 ELSE 0
          /\ \A i \in 1 .. (n - (k + 1) + 1) : v[i] = s[(k + 1) + i - 1]
      BY <2>1, SubSeqProperties
    <2> HIDE DEF v
    <2>3. \A i \in 1 .. (n - k) : i \in 1 .. (n - (k + 1) + 1) /\ (k + 1) + i - 1 = k + i
      BY <1>1
    <2>4. Len(v) = n - k
      BY <1>1, <2>2
    <2>5. QED
      BY <2>2, <2>3, <2>4
  <1>4. <<d>> \in Seq(S) /\ Len(<<d>>) = 1 /\ <<d>>[1] = d
    OBVIOUS
  <1> HIDE DEF u, v
  <1>5. /\ m \in Seq(S) /\ Len(m) = k + 1
        /\ \A i \in 1 .. (k + 1) : m[i] = IF i <= k THEN u[i] ELSE d
    <2>1. /\ m \in Seq(S) /\ Len(m) = k + 1
          /\ \A i \in 1 .. (k + 1) : m[i] = IF i <= k THEN u[i] ELSE <<d>>[i - k]
      BY <1>2, <1>4, ConcatProperties
    <2> HIDE DEF m
    <2>2. \A i \in 1 .. (k + 1) : ~(i <= k) => i - k = 1
      BY <1>1
    <2>3. QED
      BY <1>4, <2>1, <2>2
  <1> HIDE DEF m
  <1>6. /\ m \o v \in Seq(S) /\ Len(m \o v) = (k + 1) + (n - k)
        /\ \A i \in 1 .. ((k + 1) + (n - k)) :
             (m \o v)[i] = IF i <= k + 1 THEN m[i] ELSE v[i - (k + 1)]
    <2>1. /\ m \o v \in Seq(S) /\ Len(m \o v) = Len(m) + Len(v)
          /\ \A i \in 1 .. (Len(m) + Len(v)) :
               (m \o v)[i] = IF i <= Len(m) THEN m[i] ELSE v[i - Len(m)]
      BY <1>3, <1>5, ConcatProperties
    <2>2. QED
      BY <1>3, <1>5, <2>1
  <1>7. Inserted(s, k, d) = m \o v
    BY DEF Inserted, m, u, v, n
  <1>8. ASSUME NEW i \in 1 .. (n + 1)
        PROVE  (m \o v)[i] = IF i <= k THEN s[i] ELSE IF i = k + 1 THEN d ELSE s[i - 1]
    <2>1. (m \o v)[i] = IF i <= k + 1 THEN m[i] ELSE v[i - (k + 1)]
      <3>1. i \in 1 .. ((k + 1) + (n - k))
        BY <1>1
      <3>2. QED
        BY <1>6, <3>1
    <2>2. CASE i <= k
      <3>1. i <= k + 1 /\ i \in 1 .. (k + 1) /\ i \in 1 .. k
        BY <1>1, <2>2
      <3>2. QED
        BY <1>2, <1>5, <2>1, <2>2, <3>1
    <2>3. CASE i = k + 1
      <3>1. i <= k + 1 /\ i \in 1 .. (k + 1) /\ ~(i <= k)
        BY <1>1, <2>3
      <3>2. QED
        BY <1>5, <2>1, <2>3, <3>1
    <2>4. CASE i > k + 1
      <3>1. /\ i - (k + 1) \in 1 .. (n - k) /\ k + (i - (k + 1)) = i - 1
            /\ ~(i <= k + 1) /\ ~(i <= k) /\ i # k + 1
        BY <1>1, <2>4
      <3>2. v[i - (k + 1)] = s[k + (i - (k + 1))]
        BY <1>3, <3>1
      <3>3. QED
        BY <2>1, <3>1, <3>2
    <2>5. i <= k \/ i = k + 1 \/ i > k + 1
      BY <1>1
    <2>6. QED
      BY <2>2, <2>3, <2>4, <2>5
  <1>9. (k + 1) + (n - k) = n + 1
    BY <1>1
  <1>10. QED
    BY <1>6, <1>7, <1>8, <1>9 DEF n

\* Removing the element after the first k moves those behind down by one.
LEMMA RemovedIs ==
  ASSUME NEW S, NEW s \in Seq(S), NEW k \in 0 .. (Len(s) - 1)
  PROVE  /\ Removed(s, k) \in Seq(S) /\ Len(Removed(s, k)) = Len(s) - 1
         /\ \A i \in 1 .. (Len(s) - 1) :
              Removed(s, k)[i] = IF i <= k THEN s[i] ELSE s[i + 1]
  <1> DEFINE n == Len(s)
             u == SubSeq(s, 1, (k + 1) - 1)
             v == SubSeq(s, (k + 1) + 1, n)
  <1>1. n \in Nat /\ k \in 0 .. (n - 1) /\ \A i \in 1 .. n : s[i] \in S
    BY LenProperties, ElementOfSeq
  <1> HIDE DEF n
  <1>2. u \in Seq(S) /\ Len(u) = k /\ \A i \in 1 .. k : u[i] = s[i]
    <2>1. (k + 1) - 1 \in Int /\ 1 \in Int /\ \A i \in 1 .. ((k + 1) - 1) : s[i] \in S
      BY <1>1
    <2>2. /\ u \in Seq(S) /\ Len(u) = IF 1 <= (k + 1) - 1 THEN (k + 1) - 1 - 1 + 1 ELSE 0
          /\ \A i \in 1 .. ((k + 1) - 1 - 1 + 1) : u[i] = s[1 + i - 1]
      BY <2>1, SubSeqProperties
    <2> HIDE DEF u
    <2>3. \A i \in 1 .. k : i \in 1 .. ((k + 1) - 1 - 1 + 1) /\ 1 + i - 1 = i
      BY <1>1
    <2>4. Len(u) = k
      BY <1>1, <2>2
    <2>5. QED
      BY <2>2, <2>3, <2>4
  <1>3. /\ v \in Seq(S) /\ Len(v) = n - (k + 1)
        /\ \A i \in 1 .. (n - (k + 1)) : v[i] = s[(k + 1) + i]
    <2>1. n \in Int /\ (k + 1) + 1 \in Int /\ \A i \in ((k + 1) + 1) .. n : s[i] \in S
      BY <1>1
    <2>2. /\ v \in Seq(S) /\ Len(v) = IF (k + 1) + 1 <= n THEN n - ((k + 1) + 1) + 1 ELSE 0
          /\ \A i \in 1 .. (n - ((k + 1) + 1) + 1) : v[i] = s[((k + 1) + 1) + i - 1]
      BY <2>1, SubSeqProperties, SMTT(30)
    <2> HIDE DEF v
    <2>3. \A i \in 1 .. (n - (k + 1)) : /\ i \in 1 .. (n - ((k + 1) + 1) + 1)
                                        /\ ((k + 1) + 1) + i - 1 = (k + 1) + i
      BY <1>1
    <2>4. Len(v) = n - (k + 1)
      BY <1>1, <2>2
    <2>5. QED
      BY <2>2, <2>3, <2>4
  <1> HIDE DEF u, v
  <1>4. /\ u \o v \in Seq(S) /\ Len(u \o v) = k + (n - (k + 1))
        /\ \A i \in 1 .. (k + (n - (k + 1))) :
             (u \o v)[i] = IF i <= k THEN u[i] ELSE v[i - k]
    <2>1. /\ u \o v \in Seq(S) /\ Len(u \o v) = Len(u) + Len(v)
          /\ \A i \in 1 .. (Len(u) + Len(v)) :
               (u \o v)[i] = IF i <= Len(u) THEN u[i] ELSE v[i - Len(u)]
      BY <1>2, <1>3, ConcatProperties
    <2>2. QED
      BY <1>2, <1>3, <2>1
  <1>5. Removed(s, k) = u \o v
    BY DEF Removed, u, v, n
  <1>6. ASSUME NEW i \in 1 .. (n - 1)
        PROVE  (u \o v)[i] = IF i <= k THEN s[i] ELSE s[i + 1]
    <2>1. (u \o v)[i] = IF i <= k THEN u[i] ELSE v[i - k]
      <3>1. i \in 1 .. (k + (n - (k + 1)))
        BY <1>1
      <3>2. QED
        BY <1>4, <3>1
    <2>2. CASE i <= k
      <3>1. i \in 1 .. k
        BY <1>1, <2>2
      <3>2. QED
        BY <1>2, <2>1, <2>2, <3>1
    <2>3. CASE ~(i <= k)
      <3>1. i - k \in 1 .. (n - (k + 1)) /\ (k + 1) + (i - k) = i + 1
        BY <1>1, <2>3
      <3>2. v[i - k] = s[(k + 1) + (i - k)]
        BY <1>3, <3>1
      <3>3. QED
        BY <2>1, <2>3, <3>1, <3>2
    <2>4. QED
      BY <2>2, <2>3
  <1>7. k + (n - (k + 1)) = n - 1
    BY <1>1
  <1>8. QED
    BY <1>4, <1>5, <1>6, <1>7 DEF n

(* A sequence with an element in front.                                    *)
LEMMA ConsIs ==
  ASSUME NEW S, NEW x \in S, NEW q \in Seq(S)
  PROVE  /\ <<x>> \o q \in Seq(S) /\ <<x>> \o q # <<>> /\ (<<x>> \o q)[1] = x
         /\ Tail(<<x>> \o q) = q
         /\ \A y \in S : Append(<<x>> \o q, y) = <<x>> \o Append(q, y)
  <1> DEFINE r == <<x>> \o q
  <1>1. <<x>> \in Seq(S) /\ Len(<<x>>) = 1 /\ <<x>>[1] = x /\ Len(q) \in Nat
    BY LenProperties
  <1>2. /\ r \in Seq(S) /\ Len(r) = 1 + Len(q)
        /\ \A i \in 1 .. (1 + Len(q)) : r[i] = IF i <= 1 THEN <<x>>[i] ELSE q[i - 1]
    BY <1>1, ConcatProperties
  <1>3. r[1] = x
    <2>1. 1 \in 1 .. (1 + Len(q))
      BY <1>1
    <2>2. QED
      BY <1>1, <1>2, <2>1
  <1> HIDE DEF r
  <1>4. r # <<>>
    BY <1>1, <1>2, EmptySeq
  <1>5. /\ Tail(r) \in Seq(S) /\ Len(Tail(r)) = Len(r) - 1
        /\ \A i \in 1 .. Len(Tail(r)) : Tail(r)[i] = r[i + 1]
    BY <1>2, <1>4, HeadTailProperties
  <1>6. Tail(r) = q
    <2>1. Len(Tail(r)) = Len(q)
      BY <1>1, <1>2, <1>5
    <2>2. ASSUME NEW i \in 1 .. Len(q) PROVE Tail(r)[i] = q[i]
      <3>1. i + 1 \in 1 .. (1 + Len(q)) /\ ~(i + 1 <= 1) /\ (i + 1) - 1 = i
        BY <1>1
      <3>2. QED
        BY <1>2, <1>5, <2>1, <3>1
    <2>3. QED
      BY <1>5, <2>1, <2>2, SeqEqual
  <1>7. ASSUME NEW y \in S PROVE Append(r, y) = <<x>> \o Append(q, y)
    <2> DEFINE a == Append(r, y)
               b == <<x>> \o Append(q, y)
               c == Append(q, y)
    <2>1. /\ a \in Seq(S) /\ Len(a) = Len(r) + 1 /\ a[Len(r) + 1] = y
          /\ \A i \in 1 .. Len(r) : a[i] = r[i]
      BY <1>2, AppendProperties
    <2>2. /\ c \in Seq(S) /\ Len(c) = Len(q) + 1 /\ c[Len(q) + 1] = y
          /\ \A i \in 1 .. Len(q) : c[i] = q[i]
      BY AppendProperties
    <2>3. /\ <<x>> \o c \in Seq(S) /\ Len(<<x>> \o c) = 1 + Len(c)
          /\ \A i \in 1 .. (1 + Len(c)) : (<<x>> \o c)[i] = IF i <= 1 THEN <<x>>[i] ELSE c[i - 1]
      <3> HIDE DEF c
      <3>1. QED
        BY <1>1, <2>2, ConcatProperties
    <2>4. b = <<x>> \o c
      OBVIOUS
    <2> HIDE DEF a, b, c
    <2>5. Len(a) = Len(b) /\ Len(a) = Len(q) + 2
      BY <1>1, <1>2, <2>1, <2>2, <2>3, <2>4
    <2>6. ASSUME NEW i \in 1 .. (Len(q) + 2) PROVE a[i] = b[i]
      <3>1. i \in 1 .. (1 + Len(c))
        BY <1>1, <2>2
      <3>2. CASE i = 1
        <4>1. 1 \in 1 .. Len(r)
          BY <1>1, <1>2
        <4>2. QED
          BY <1>1, <1>3, <2>1, <2>3, <2>4, <3>1, <3>2, <4>1
      <3>3. CASE i \in 2 .. (Len(q) + 1)
        <4>1. i \in 1 .. Len(r) /\ i \in 1 .. (1 + Len(q)) /\ ~(i <= 1) /\ i - 1 \in 1 .. Len(q)
          BY <1>1, <1>2, <3>3
        <4>2. a[i] = q[i - 1]
          BY <1>2, <2>1, <4>1
        <4>3. b[i] = q[i - 1]
          BY <2>2, <2>3, <2>4, <3>1, <4>1
        <4>4. QED
          BY <4>2, <4>3
      <3>4. CASE i = Len(q) + 2
        <4>1. i = Len(r) + 1 /\ i - 1 = Len(q) + 1 /\ ~(i <= 1)
          BY <1>1, <1>2, <3>4
        <4>2. a[i] = y
          BY <2>1, <4>1
        <4>3. b[i] = y
          BY <2>2, <2>3, <2>4, <3>1, <4>1
        <4>4. QED
          BY <4>2, <4>3
      <3>5. QED
        BY <1>1, <3>2, <3>3, <3>4
    <2>7. a = b
      BY <2>1, <2>3, <2>4, <2>5, <2>6, SeqEqual
    <2>8. QED
      BY <2>7 DEF a, b
  <1>8. QED
    BY <1>2, <1>3, <1>4, <1>6, <1>7 DEF r

-----------------------------------------------------------------------------
(* A nonempty set of numbers below a bound has a least and a greatest.     *)
LEMMA HasLeast ==
  ASSUME NEW S \in SUBSET Nat, S # {}
  PROVE  \E m \in S : \A k \in S : m <= k
  <1>1. SUFFICES ASSUME \A m \in S : \E k \in S : k < m
                 PROVE  FALSE
    OBVIOUS
  <1> DEFINE A == {n \in Nat : \A k \in S : ~(k <= n)}
  <1>2. 0 \in A
    BY <1>1
  <1>3. ASSUME NEW n \in A PROVE n + 1 \in A
    <2>1. ASSUME NEW k \in S, k <= n + 1 PROVE FALSE
      <3>1. k = n + 1
        BY <2>1
      <3>2. PICK j \in S : j < k
        BY <1>1
      <3>3. j <= n
        BY <3>1, <3>2
      <3>4. QED
        BY <3>3
    <2>2. QED
      BY <2>1
  <1>4. A \in SUBSET Nat
    OBVIOUS
  <1> HIDE DEF A
  <1>5. A = Nat
    BY <1>2, <1>3, <1>4, EveryNat
  <1>6. PICK k \in S : TRUE
    OBVIOUS
  <1>7. k \in A
    BY <1>5
  <1>8. ~(k <= k)
    BY <1>7 DEF A
  <1>9. QED
    BY <1>8

\* A set of numbers with a bound that is not empty has a greatest one.
LEMMA HasGreatest ==
  ASSUME NEW S \in SUBSET Nat, S # {}, NEW n \in Nat, \A k \in S : k <= n
  PROVE  \E m \in S : \A k \in S : m >= k
  <1> DEFINE T == {j \in Nat : \A k \in S : k <= j}
  <1>1. n \in T /\ T \in SUBSET Nat
    OBVIOUS
  <1> HIDE DEF T
  <1>2. PICK m \in T : \A j \in T : m <= j
    BY <1>1, HasLeast
  <1>3. m \in Nat /\ \A k \in S : k <= m
    BY <1>2 DEF T
  <1>4. CASE m \in S
    BY <1>3, <1>4
  <1>5. CASE m \notin S
    <2>1. PICK k \in S : TRUE
      OBVIOUS
    <2>2. m > 0 /\ m - 1 \in Nat
      BY <1>3, <1>5, <2>1
    <2>3. \A j \in S : j <= m - 1
      BY <1>3, <1>5
    <2>4. m - 1 \in T
      BY <2>2, <2>3 DEF T
    <2>5. QED
      BY <1>2, <1>3, <2>4
  <1>6. QED
    BY <1>4, <1>5

(* A function can be iterated as often as one likes: a recursive function  *)
(* that steps along f is the one that exists here.                         *)
Iteration(f, a, n, it) ==
  it = [k \in 0 .. n |-> IF k = 0 THEN a ELSE f[it[k - 1]]]

\* f can be applied n times, one after the other.
LEMMA Iterates ==
  ASSUME NEW A, NEW f \in [A -> A], NEW a \in A, NEW n \in Nat
  PROVE  \E it \in [0 .. n -> A] : Iteration(f, a, n, it)
  <1> DEFINE S == {m \in Nat : \E it \in [0 .. m -> A] : Iteration(f, a, m, it)}
  <1>1. 0 \in S
    <2> DEFINE it == [k \in 0 .. 0 |-> a]
    <2>1. it \in [0 .. 0 -> A] /\ it = [k \in 0 .. 0 |-> IF k = 0 THEN a ELSE f[it[k - 1]]]
      OBVIOUS
    <2>2. QED
      BY <2>1 DEF Iteration
  <1>2. ASSUME NEW m \in S PROVE m + 1 \in S
    <2>1. PICK it \in [0 .. m -> A] : Iteration(f, a, m, it)
      OBVIOUS
    <2> DEFINE on == [k \in 0 .. (m + 1) |-> IF k = m + 1 THEN f[it[m]] ELSE it[k]]
    <2>2. m \in Nat
      OBVIOUS
    <2>3. on \in [0 .. (m + 1) -> A]
      BY <2>2
    <2>4. ASSUME NEW k \in 0 .. (m + 1)
          PROVE  on[k] = IF k = 0 THEN a ELSE f[on[k - 1]]
      <3>1. it = [j \in 0 .. m |-> IF j = 0 THEN a ELSE f[it[j - 1]]]
        BY <2>1 DEF Iteration
      <3>2. CASE k = m + 1
        <4>1. k # 0 /\ k - 1 = m /\ m \in 0 .. (m + 1) /\ m # m + 1
          BY <2>2, <3>2
        <4>2. QED
          BY <3>2, <4>1
      <3>3. CASE k # m + 1 /\ k # 0
        <4>1. k \in 0 .. m /\ k - 1 \in 0 .. (m + 1) /\ k - 1 # m + 1
          BY <2>2, <3>3
        <4>2. QED
          BY <3>1, <3>3, <4>1
      <3>4. CASE k # m + 1 /\ k = 0
        <4>1. k \in 0 .. m
          BY <2>2, <3>4
        <4>2. QED
          BY <3>1, <3>4, <4>1
      <3>5. QED
        BY <3>2, <3>3, <3>4
    <2>5. on = [k \in 0 .. (m + 1) |-> IF k = 0 THEN a ELSE f[on[k - 1]]]
      BY <2>4
    <2> HIDE DEF on
    <2>6. QED
      BY <2>2, <2>3, <2>5, SMTT(30) DEF Iteration
  <1>3. S \in SUBSET Nat
    OBVIOUS
  <1> HIDE DEF S
  <1>4. S = Nat
    BY <1>1, <1>2, <1>3, EveryNat
  <1>5. QED
    BY <1>4 DEF S

(* Folds.  An operator that folds a sequence of n elements is a recursive  *)
(* function on the sets of indices, which takes the highest index last.    *)
Highest(s) == CHOOSE x \in s : \A y \in s : x >= y

\* Highest(s) is the greatest number of s.
LEMMA HighestIs ==
  ASSUME NEW n \in Nat, NEW s \in SUBSET (1 .. n), s # {}
  PROVE  Highest(s) \in s /\ \A y \in s : Highest(s) >= y
  <1>1. s \in SUBSET Nat /\ \A k \in s : k <= n
    OBVIOUS
  <1>2. \E m \in s : \A k \in s : m >= k
    BY <1>1, HasGreatest
  <1>3. QED
    BY <1>2 DEF Highest

\* Nothing else is.
LEMMA HighestIsOnly ==
  ASSUME NEW n \in Nat, NEW s \in SUBSET (1 .. n), NEW m \in s, \A y \in s : m >= y
  PROVE  Highest(s) = m
  <1>1. Highest(s) \in s /\ \A y \in s : Highest(s) >= y
    <2>1. s # {}
      OBVIOUS
    <2>2. QED
      BY <2>1, HighestIs
  <1>2. PICK h : h = Highest(s)
    OBVIOUS
  <1>3. h \in s /\ h \in 1 .. n /\ m \in 1 .. n
    BY <1>1, <1>2
  <1>4. h >= m /\ m >= h
    BY <1>1, <1>2, <1>3
  <1>5. QED
    BY <1>2, <1>3, <1>4

\* f folds n elements with step, from b.
Folding(f, step, b, n) ==
  f = [s \in SUBSET (1 .. n) |->
         IF s = {} THEN b ELSE step[<<Highest(s), f[s \ {Highest(s)}]>>]]

\* What a fold computes, set by set, exists.
LEMMA Folds ==
  ASSUME NEW B, NEW b \in B, NEW n \in Nat, NEW step \in [(1 .. n) \X B -> B]
  PROVE  \E f \in [SUBSET (1 .. n) -> B] : Folding(f, step, b, n)
  <1> DEFINE P == {m \in Nat : m <= n =>
                      \E f \in [SUBSET (1 .. m) -> B] : Folding(f, step, b, m)}
  <1>1. 0 \in P
    <2> DEFINE f == [s \in SUBSET (1 .. 0) |-> b]
    <2>1. \A s \in SUBSET (1 .. 0) : s = {}
      OBVIOUS
    <2>2. f \in [SUBSET (1 .. 0) -> B]
      OBVIOUS
    <2>3. f = [s \in SUBSET (1 .. 0) |->
                 IF s = {} THEN b ELSE step[<<Highest(s), f[s \ {Highest(s)}]>>]]
      BY <2>1
    <2> HIDE DEF f
    <2>4. QED
      BY <2>2, <2>3 DEF Folding
  <1>2. ASSUME NEW m \in P PROVE m + 1 \in P
    <2>0. m + 1 \in Nat
      OBVIOUS
    <2>1. SUFFICES ASSUME m + 1 <= n
                   PROVE  \E f \in [SUBSET (1 .. (m + 1)) -> B] : Folding(f, step, b, m + 1)
      BY <2>0, Zenon
    <2>2. m \in Nat /\ m <= n
      BY <2>1
    <2>3. PICK f \in [SUBSET (1 .. m) -> B] : Folding(f, step, b, m)
      BY <2>2
    <2>4. \A s \in SUBSET (1 .. m) :
            f[s] = IF s = {} THEN b ELSE step[<<Highest(s), f[s \ {Highest(s)}]>>]
      BY <2>3 DEF Folding
    <2> DEFINE g == [s \in SUBSET (1 .. (m + 1)) |->
                       IF m + 1 \in s THEN step[<<m + 1, f[s \ {m + 1}]>>] ELSE f[s]]
    <2>5. /\ \A s \in SUBSET (1 .. (m + 1)) : s \ {m + 1} \in SUBSET (1 .. m)
          /\ \A s \in SUBSET (1 .. (m + 1)) : m + 1 \notin s => s \in SUBSET (1 .. m)
          /\ \A s \in SUBSET (1 .. m) : m + 1 \notin s /\ s \in SUBSET (1 .. (m + 1))
      BY <2>2
    <2>6. \A s \in SUBSET (1 .. (m + 1)) :
            IF m + 1 \in s THEN g[s] = step[<<m + 1, f[s \ {m + 1}]>>] ELSE g[s] = f[s]
      OBVIOUS
    <2>7. g \in [SUBSET (1 .. (m + 1)) -> B]
      <3>1. m + 1 \in 1 .. n
        BY <2>1, <2>2
      <3>2. \A s \in SUBSET (1 .. (m + 1)) : step[<<m + 1, f[s \ {m + 1}]>>] \in B
        BY <2>5, <3>1
      <3>3. \A s \in SUBSET (1 .. (m + 1)) : m + 1 \notin s => f[s] \in B
        BY <2>5
      <3>4. QED
        BY <3>2, <3>3
    <2> HIDE DEF g
    <2>8. ASSUME NEW s \in SUBSET (1 .. (m + 1))
          PROVE  g[s] = IF s = {} THEN b ELSE step[<<Highest(s), g[s \ {Highest(s)}]>>]
      <3>1. CASE m + 1 \in s
        <4>1. Highest(s) = m + 1
          <5>1. m + 1 \in Nat /\ \A y \in s : m + 1 >= y
            BY <2>2
          <5>2. QED
            BY <3>1, <5>1, HighestIsOnly
        <4>2. g[s \ {m + 1}] = f[s \ {m + 1}]
          BY <2>5, <2>6
        <4>3. QED
          BY <2>6, <3>1, <4>1, <4>2
      <3>2. CASE m + 1 \notin s
        <4>1. s \in SUBSET (1 .. m) /\ g[s] = f[s]
          BY <2>5, <2>6, <3>2
        <4>2. s \ {Highest(s)} \in SUBSET (1 .. m)
          BY <4>1
        <4>3. g[s \ {Highest(s)}] = f[s \ {Highest(s)}]
          BY <2>5, <2>6, <4>2
        <4>4. QED
          BY <2>4, <4>1, <4>3
      <3>3. QED
        BY <3>1, <3>2
    <2>9. g = [s \in SUBSET (1 .. (m + 1)) |->
                 IF s = {} THEN b ELSE step[<<Highest(s), g[s \ {Highest(s)}]>>]]
      BY <2>7, <2>8
    <2>10. Folding(g, step, b, m + 1)
      BY <2>9 DEF Folding
    <2>11. QED
      BY <2>7, <2>10
  <1>3. P \in SUBSET Nat
    OBVIOUS
  <1> HIDE DEF P
  <1>4. P = Nat
    BY <1>1, <1>2, <1>3, EveryNat
  <1>5. n \in P /\ n <= n
    BY <1>4
  <1>6. QED
    BY <1>5 DEF P

\* What is taken of the sets: the first k indices.
LEMMA FirstOnes ==
  ASSUME NEW n \in Nat, NEW k \in 1 .. n
  PROVE  /\ 1 .. k \in SUBSET (1 .. n) /\ 1 .. k # {}
         /\ Highest(1 .. k) = k /\ (1 .. k) \ {k} = 1 .. (k - 1)
  <1>1. k \in 1 .. k /\ \A y \in 1 .. k : k >= y
    OBVIOUS
  <1>2. 1 .. k \in SUBSET (1 .. n)
    OBVIOUS
  <1>3. (1 .. k) \ {k} = 1 .. (k - 1)
    OBVIOUS
  <1>4. Highest(1 .. k) = k
    BY <1>1, <1>2, HighestIsOnly
  <1>5. QED
    BY <1>1, <1>2, <1>3, <1>4

-----------------------------------------------------------------------------
(* A number inserted behind the last that is not greater; for one that is  *)
(* missing the elements go on rising by one at least.                      *)
\* The position behind which addArc inserts.
Behind(L, y, at) ==
  /\ at \in 0 .. Len(L)
  /\ at > 0 => L[at] <= y
  /\ at < Len(L) => ~(L[at + 1] <= y)

\* The elements rise by d at least.
Rises(L, d) == \A k \in 2 .. Len(L) : L[k - 1] + d <= L[k]

\* What is inserted between its neighbours keeps the list rising.
LEMMA StaysRising ==
  ASSUME NEW n, NEW L \in Seq(1 .. n), NEW y \in 1 .. n, NEW d \in Nat, NEW at,
         Behind(L, y, at), Rises(L, d),
         at > 0 => L[at] + d <= y, at < Len(L) => y + d <= L[at + 1]
  PROVE  Rises(Inserted(L, at, y), d)
  <1> DEFINE M == Inserted(L, at, y)
  <1>1. Len(L) \in Nat /\ at \in 0 .. Len(L)
    BY LenProperties DEF Behind
  <1>2. /\ Len(M) = Len(L) + 1
        /\ \A i \in 1 .. (Len(L) + 1) :
             M[i] = IF i <= at THEN L[i] ELSE IF i = at + 1 THEN y ELSE L[i - 1]
    <2>1. PICK T : T = 1 .. n
      OBVIOUS
    <2>2. L \in Seq(T) /\ y \in T
      BY <2>1
    <2>3. Len(M) = Len(L) + 1
      BY <1>1, <2>2, InsertedIs
    <2>4. \A i \in 1 .. (Len(L) + 1) :
             M[i] = IF i <= at THEN L[i] ELSE IF i = at + 1 THEN y ELSE L[i - 1]
      BY <1>1, <2>2, InsertedIs
    <2>5. QED
      BY <2>3, <2>4
  <1>3. \A i \in 1 .. Len(L) : L[i] \in Int
    <2>1. \A i \in 1 .. Len(L) : L[i] \in 1 .. n
      BY ElementOfSeq
    <2>2. QED
      BY <2>1
  <1>4. \A k \in 2 .. Len(L) : L[k - 1] + d <= L[k]
    BY DEF Rises
  <1> HIDE DEF M
  <1>5. ASSUME NEW k \in 2 .. (Len(L) + 1) PROVE M[k - 1] + d <= M[k]
    <2>1. k \in 1 .. (Len(L) + 1) /\ k - 1 \in 1 .. (Len(L) + 1) /\ at \in Nat
      BY <1>1
    <2>2. CASE k <= at
      <3>1. k - 1 <= at /\ k \in 2 .. Len(L)
        BY <1>1, <2>1, <2>2
      <3>2. M[k] = L[k] /\ M[k - 1] = L[k - 1]
        BY <1>2, <2>1, <2>2, <3>1
      <3>3. QED
        BY <1>4, <3>1, <3>2
    <2>3. CASE k = at + 1
      <3>1. k - 1 = at /\ ~(k <= at) /\ at > 0 /\ k - 1 <= at
        BY <1>1, <2>1, <2>3
      <3>2. M[k] = y
        BY <1>2, <2>1, <2>3, <3>1
      <3>3. M[k - 1] = L[k - 1]
        BY <1>2, <2>1, <3>1
      <3>4. QED
        BY <3>1, <3>2, <3>3
    <2>4. CASE k = at + 2
      <3>1. k - 1 = at + 1 /\ ~(k <= at) /\ ~(k - 1 <= at) /\ k # at + 1 /\ at < Len(L)
        BY <1>1, <2>1, <2>4
      <3>2. M[k] = L[k - 1]
        BY <1>2, <2>1, <3>1
      <3>3. M[k - 1] = y
        BY <1>2, <2>1, <3>1
      <3>4. QED
        BY <3>1, <3>2, <3>3
    <2>5. CASE k > at + 2
      <3>1. /\ k - 1 # at + 1 /\ ~(k <= at) /\ ~(k - 1 <= at) /\ k # at + 1
            /\ k - 1 \in 2 .. Len(L)
        BY <1>1, <2>1, <2>5
      <3>2. M[k] = L[k - 1]
        BY <1>2, <2>1, <3>1
      <3>3. M[k - 1] = L[(k - 1) - 1]
        BY <1>2, <2>1, <3>1
      <3>4. QED
        BY <1>4, <3>1, <3>2, <3>3
    <2>6. QED
      BY <2>1, <2>2, <2>3, <2>4, <2>5
  <1>6. QED
    BY <1>2, <1>5 DEF Rises, M

\* A list that rises from each element to the next rises between any two.
LEMMA RisesApart ==
  ASSUME NEW n, NEW L \in Seq(1 .. n), Rises(L, 1)
  PROVE  \A i, j \in 1 .. Len(L) : i < j => L[i] < L[j]
  <1>1. Len(L) \in Nat /\ \A i \in 1 .. Len(L) : L[i] \in Int
    <2>1. \A i \in 1 .. Len(L) : L[i] \in 1 .. n
      BY ElementOfSeq
    <2>2. QED
      BY <2>1, LenProperties
  <1>2. SUFFICES ASSUME NEW i \in 1 .. Len(L)
                 PROVE  \A j \in 1 .. Len(L) : i < j => L[i] < L[j]
    OBVIOUS
  <1> DEFINE P == {k \in Nat : k \in 1 .. Len(L) /\ i < k => L[i] < L[k]}
  <1>3. 0 \in P
    OBVIOUS
  <1>4. ASSUME NEW k \in P PROVE k + 1 \in P
    <2>0. k + 1 \in Nat
      OBVIOUS
    <2>1. SUFFICES ASSUME k + 1 \in 1 .. Len(L), i < k + 1
                   PROVE  L[i] < L[k + 1]
      BY <2>0, Zenon
    <2>2. k \in 1 .. Len(L) /\ k + 1 \in 2 .. Len(L) /\ (k + 1) - 1 = k
      BY <1>1, <2>1
    <2>3. L[k] + 1 <= L[k + 1]
      BY <2>2 DEF Rises
    <2>4. k = i \/ L[i] < L[k]
      BY <2>1, <2>2
    <2>5. L[i] \in Int /\ L[k] \in Int /\ L[k + 1] \in Int
      BY <1>1, <2>1, <2>2
    <2>6. QED
      BY <2>3, <2>4, <2>5
  <1>5. P \in SUBSET Nat
    OBVIOUS
  <1> HIDE DEF P
  <1>6. P = Nat
    BY <1>3, <1>4, <1>5, EveryNat
  <1>7. \A j \in 1 .. Len(L) : j \in P
    BY <1>1, <1>6
  <1>8. QED
    BY <1>7 DEF P

-----------------------------------------------------------------------------
(* What is in a sequence                                                   *)
Has(q, l, e) == \E i \in 1 .. l : q[i] = e

\* What is in one sequence or in another is in the two together.
Together(p, q, r, m, l) == \A e : Has(p, m + l, e) <=> Has(q, m, e) \/ Has(r, l, e)

\* p, which is q and r behind it, has what either has.
LEMMA HasEither ==
  ASSUME NEW m \in Nat, NEW l \in Nat, NEW p, NEW q, NEW r,
         \A i \in 1 .. (m + l) : p[i] = IF i <= m THEN q[i] ELSE r[i - m]
  PROVE  Together(p, q, r, m, l)
  <1>1. ASSUME NEW e, Has(p, m + l, e) PROVE Has(q, m, e) \/ Has(r, l, e)
    <2>1. PICK i \in 1 .. (m + l) : p[i] = e
      BY <1>1 DEF Has
    <2>2. CASE i <= m
      <3>1. i \in 1 .. m /\ q[i] = e
        BY <2>1, <2>2
      <3>2. QED
        BY <3>1 DEF Has
    <2>3. CASE ~(i <= m)
      <3>1. i - m \in 1 .. l /\ r[i - m] = e
        BY <2>1, <2>3
      <3>2. QED
        BY <3>1 DEF Has
    <2>4. QED
      BY <2>2, <2>3
  <1>2. ASSUME NEW e, Has(q, m, e) PROVE Has(p, m + l, e)
    <2>1. PICK i \in 1 .. m : q[i] = e
      BY <1>2 DEF Has
    <2>2. i \in 1 .. (m + l) /\ i <= m
      OBVIOUS
    <2>3. p[i] = e
      BY <2>1, <2>2
    <2>4. QED
      BY <2>2, <2>3 DEF Has
  <1>3. ASSUME NEW e, Has(r, l, e) PROVE Has(p, m + l, e)
    <2>1. PICK i \in 1 .. l : r[i] = e
      BY <1>3 DEF Has
    <2>2. PICK j \in 1 .. (m + l) : j = m + i
      OBVIOUS
    <2>3. ~(j <= m) /\ j - m = i
      BY <2>2
    <2>4. p[j] = e
      BY <2>1, <2>3
    <2>5. QED
      BY <2>4 DEF Has
  <1>4. QED
    BY <1>1, <1>2, <1>3 DEF Together

\* s has the elements of A, each once.
HasJust(s, A, n) ==
  /\ s \in Seq(1 .. n)
  /\ \A i, j \in 1 .. Len(s) : s[i] = s[j] => i = j
  /\ \A x : Has(s, Len(s), x) <=> x \in A

\* The empty sequence has just the elements of the empty set.
LEMMA JustNothing ==
  ASSUME NEW n
  PROVE  HasJust(<<>>, {}, n)
  <1>1. <<>> \in Seq(1 .. n) /\ Len(<<>>) = 0
    BY EmptySeq
  <1>2. 1 .. 0 = {}
    OBVIOUS
  <1>3. QED
    BY <1>1, <1>2 DEF HasJust, Has

\* A new element in front of a sequence is one more in its set.
LEMMA JustOneMore ==
  ASSUME NEW n, NEW s, NEW A, HasJust(s, A, n), NEW v \in 1 .. n, v \notin A
  PROVE  HasJust(<<v>> \o s, {v} \cup A, n)
  <1>0. PICK T : T = 1 .. n /\ s \in Seq(T) /\ v \in T
    BY DEF HasJust
  <1>1. PICK l \in Nat : T = 1 .. n /\ l = Len(s) /\ s \in Seq(T) /\ v \in T
    BY <1>0, LenProperties
  <1>2. PICK m : m = <<v>> \o s
    OBVIOUS
  <1>3. /\ m \in Seq(T) /\ Len(m) = l + 1
        /\ \A i \in 1 .. (l + 1) : m[i] = IF i <= 1 THEN v ELSE s[i - 1]
    <2>1. <<v>> \in Seq(T) /\ Len(<<v>>) = 1 /\ <<v>>[1] = v
      BY <1>1
    <2>2. PICK u : u = <<v>>
      OBVIOUS
    <2>3. u \in Seq(T) /\ Len(u) = 1 /\ u[1] = v /\ m = u \o s
      BY <1>2, <2>1, <2>2
    <2>4. u \o s \in Seq(T) /\ Len(u \o s) = Len(u) + Len(s)
      BY <1>1, <2>3, ConcatProperties
    <2>5. \A i \in 1 .. (Len(u) + Len(s)) :
            (u \o s)[i] = IF i <= Len(u) THEN u[i] ELSE s[i - Len(u)]
      BY <1>1, <2>3, ConcatProperties
    <2>6. 1 + l = l + 1
      OBVIOUS
    <2>7. \A i \in 1 .. (l + 1) : m[i] = IF i <= 1 THEN u[i] ELSE s[i - 1]
      BY <1>1, <2>3, <2>5, <2>6
    <2>8. \A i \in 1 .. (l + 1) : i <= 1 => i = 1
      OBVIOUS
    <2>9. QED
      BY <1>1, <2>3, <2>4, <2>6, <2>7, <2>8
  <1>4. /\ \A i, j \in 1 .. l : s[i] = s[j] => i = j
        /\ \A x : x \in A <=> \E i \in 1 .. l : s[i] = x
    BY <1>1 DEF HasJust, Has
  <1>5. \A i \in 1 .. l : s[i] # v
    BY <1>4
  <1>6. ASSUME NEW i \in 1 .. (l + 1), NEW j \in 1 .. (l + 1), m[i] = m[j] PROVE i = j
    <2>1. i <= 1 \/ i - 1 \in 1 .. l
      OBVIOUS
    <2>2. j <= 1 \/ j - 1 \in 1 .. l
      OBVIOUS
    <2>3. m[i] = (IF i <= 1 THEN v ELSE s[i - 1]) /\ m[j] = (IF j <= 1 THEN v ELSE s[j - 1])
      BY <1>3
    <2>4. CASE i <= 1 /\ j <= 1
      BY <2>4
    <2>5. CASE i <= 1 /\ ~(j <= 1)
      BY <1>5, <1>6, <2>2, <2>3, <2>5
    <2>6. CASE ~(i <= 1) /\ j <= 1
      BY <1>5, <1>6, <2>1, <2>3, <2>6
    <2>7. CASE ~(i <= 1) /\ ~(j <= 1)
      <3>1. s[i - 1] = s[j - 1] /\ i - 1 \in 1 .. l /\ j - 1 \in 1 .. l
        BY <1>6, <2>1, <2>2, <2>3, <2>7
      <3>2. i - 1 = j - 1
        BY <1>4, <3>1
      <3>3. QED
        BY <3>2
    <2>8. QED
      BY <2>4, <2>5, <2>6, <2>7
  <1>7. ASSUME NEW x PROVE (\E i \in 1 .. (l + 1) : m[i] = x) <=> x \in {v} \cup A
    <2>1. ASSUME x = v PROVE \E i \in 1 .. (l + 1) : m[i] = x
      <3>1. 1 \in 1 .. (l + 1) /\ 1 <= 1
        OBVIOUS
      <3>2. QED
        BY <1>3, <2>1, <3>1
    <2>2. ASSUME x \in A PROVE \E i \in 1 .. (l + 1) : m[i] = x
      <3>1. PICK i \in 1 .. l : s[i] = x
        BY <1>4, <2>2
      <3>2. i + 1 \in 1 .. (l + 1) /\ ~(i + 1 <= 1) /\ (i + 1) - 1 = i
        OBVIOUS
      <3>3. m[i + 1] = s[i]
        BY <1>3, <3>2
      <3>4. QED
        BY <3>1, <3>2, <3>3
    <2>3. ASSUME NEW i \in 1 .. (l + 1), m[i] = x PROVE x = v \/ x \in A
      <3>1. i <= 1 \/ i - 1 \in 1 .. l
        OBVIOUS
      <3>2. QED
        BY <1>3, <1>4, <2>3, <3>1
    <2>4. QED
      BY <2>1, <2>2, <2>3
  <1>8. QED
    BY <1>1, <1>2, <1>3, <1>6, <1>7 DEF HasJust, Has

\* e takes every place to the end of its block.
Blocks(e, n) ==
  /\ e \in [1 .. n -> 1 .. n]
  /\ \A i \in 1 .. n : /\ i <= e[i] /\ e[e[i]] = e[i]
                       /\ \A j \in 1 .. n : i <= j /\ e[j] = j => e[i] <= j

BlockAt(q, e, j, n) == {q[i] : i \in {l \in 1 .. n : e[l] = j}}
RestAt(q, e, k, n) == {q[i] : i \in {l \in 1 .. n : l <= k /\ e[l] > k}}

\* p has the ends of blocks up to k.
Ends(p, e, k, n) ==
  /\ p \in Seq(1 .. n)
  /\ \A i, j \in 1 .. Len(p) : i < j => p[i] < p[j]
  /\ \A i \in 1 .. Len(p) : p[i] <= k /\ e[p[i]] = p[i]
  /\ \A j \in 1 .. n : j <= k /\ e[j] = j => Has(p, Len(p), j)

BlocksOf(done, p, q, e, n) ==
  /\ done \in Seq(Seq(1 .. n)) /\ Len(done) = Len(p)
  /\ \A m \in 1 .. Len(p) : HasJust(done[m], BlockAt(q, e, p[m], n), n)

\* What has been made of the first k of q.
CutUp(done, L, q, e, k, n) ==
  /\ \E p : Ends(p, e, k, n) /\ BlocksOf(done, p, q, e, n)
  /\ HasJust(L, RestAt(q, e, k, n), n)

\* A vertex that ends no block is kept.
LEMMA CutsLater ==
  ASSUME NEW n \in Nat, NEW q \in [1 .. n -> 1 .. n], \A i, j \in 1 .. n : q[i] = q[j] => i = j,
         NEW e, Blocks(e, n), NEW k \in Nat, k + 1 <= n, NEW done, NEW L, CutUp(done, L, q, e, k, n),
         e[k + 1] # k + 1
  PROVE  CutUp(done, <<q[k + 1]>> \o L, q, e, k + 1, n)
  <1>1. PICK l \in 1 .. n : l = k + 1
    OBVIOUS
  <1>2. /\ \A i \in 1 .. n : i <= l <=> i <= k \/ i = l
        /\ ~(l <= k) /\ e[l] # l
    BY <1>1
  <1>3. \A i \in 1 .. n : e[i] \in 1 .. n /\ i <= e[i] /\ e[e[i]] = e[i]
    BY DEF Blocks
  <1>4. RestAt(q, e, l, n) = {q[l]} \cup RestAt(q, e, k, n)
    <2>1. \A i \in 1 .. n : i <= l /\ e[i] > l <=> i = l \/ (i <= k /\ e[i] > k)
      <3>1. SUFFICES ASSUME NEW i \in 1 .. n
                     PROVE  i <= l /\ e[i] > l <=> i = l \/ (i <= k /\ e[i] > k)
        OBVIOUS
      <3>2. e[i] # l
        BY <1>2, <1>3
      <3>3. PICK y \in 1 .. n : y = e[i] /\ i <= y /\ y # l
        BY <1>3, <3>2
      <3>4. ASSUME i <= l, y > l PROVE i = l \/ (i <= k /\ y > k)
        BY <1>1, <3>4
      <3>5. ASSUME i = l \/ (i <= k /\ y > k) PROVE i <= l /\ y > l
        <4>1. i <= y /\ y # l
          BY <3>3
        <4>2. i <= l
          BY <1>1, <3>5
        <4>3. y > l
          BY <1>1, <3>5, <4>1
        <4>4. QED
          BY <4>2, <4>3
      <3>6. QED
        BY <3>3, <3>4, <3>5
    <2>2. QED
      BY <2>1 DEF RestAt
  <1>5. q[l] \notin RestAt(q, e, k, n)
    BY <1>2 DEF RestAt
  <1>6. HasJust(<<q[l]>> \o L, RestAt(q, e, l, n), n)
    <2>1. q[l] \in 1 .. n /\ HasJust(L, RestAt(q, e, k, n), n)
      BY DEF CutUp
    <2>2. HasJust(<<q[l]>> \o L, {q[l]} \cup RestAt(q, e, k, n), n)
      BY <1>5, <2>1, JustOneMore
    <2>3. QED
      BY <1>4, <2>2
  <1>7. PICK p : Ends(p, e, k, n) /\ BlocksOf(done, p, q, e, n)
    BY DEF CutUp
  <1>8. Ends(p, e, l, n)
    <2>1. /\ \A i \in 1 .. Len(p) : p[i] \in 1 .. n
          /\ \A j \in 1 .. n : j <= l /\ e[j] = j => j <= k
      BY <1>2, <1>7, ElementOfSeq DEF Ends
    <2>2. QED
      BY <1>2, <1>7, <2>1 DEF Ends
  <1>9. QED
    BY <1>1, <1>6, <1>7, <1>8 DEF CutUp

\* A vertex that ends a block is printed before what was kept.
LEMMA CutsNow ==
  ASSUME NEW n \in Nat, NEW q \in [1 .. n -> 1 .. n], \A i, j \in 1 .. n : q[i] = q[j] => i = j,
         NEW e, Blocks(e, n), NEW k \in Nat, k + 1 <= n, NEW done, NEW L, CutUp(done, L, q, e, k, n),
         e[k + 1] = k + 1
  PROVE  CutUp(Append(done, <<q[k + 1]>> \o L), <<>>, q, e, k + 1, n)
  <1>1. PICK l \in 1 .. n : l = k + 1
    OBVIOUS
  <1>2. /\ \A i \in 1 .. n : i <= l <=> i <= k \/ i = l
        /\ ~(l <= k) /\ e[l] = l
    BY <1>1
  <1>3. \A i \in 1 .. n : /\ e[i] \in 1 .. n /\ i <= e[i] /\ e[e[i]] = e[i]
                          /\ i <= l => e[i] <= l
    BY <1>2 DEF Blocks
  <1>4. RestAt(q, e, l, n) = {}
    <2>1. \A i \in 1 .. n : ~(i <= l /\ e[i] > l)
      BY <1>3, SMTT(30)
    <2>2. QED
      BY <2>1 DEF RestAt
  <1>5. BlockAt(q, e, l, n) = {q[l]} \cup RestAt(q, e, k, n)
    <2>1. \A i \in 1 .. n : e[i] = l <=> i = l \/ (i <= k /\ e[i] > k)
      <3>1. SUFFICES ASSUME NEW i \in 1 .. n
                     PROVE  e[i] = l <=> i = l \/ (i <= k /\ e[i] > k)
        OBVIOUS
      <3>2. PICK y \in 1 .. n : y = e[i] /\ i <= y /\ (i <= l => y <= l)
        BY <1>3
      <3>3. i = l => y = l
        BY <1>2, <3>2
      <3>4. y = l <=> i = l \/ (i <= k /\ y > k)
        BY <1>1, <3>2, <3>3, SMTT(30)
      <3>5. QED
        BY <3>2, <3>4
    <2>2. ASSUME NEW x \in BlockAt(q, e, l, n) PROVE x \in {q[l]} \cup RestAt(q, e, k, n)
      BY <2>1 DEF RestAt, BlockAt
    <2>3. ASSUME NEW x \in RestAt(q, e, k, n) PROVE x \in BlockAt(q, e, l, n)
      BY <2>1 DEF RestAt, BlockAt
    <2>4. q[l] \in BlockAt(q, e, l, n)
      BY <2>1 DEF BlockAt
    <2>5. QED
      BY <2>2, <2>3, <2>4
  <1>6. q[l] \notin RestAt(q, e, k, n)
    BY <1>2 DEF RestAt
  <1>7. PICK b : b = <<q[l]>> \o L
    OBVIOUS
  <1>8. HasJust(b, BlockAt(q, e, l, n), n)
    <2>1. q[l] \in 1 .. n /\ HasJust(L, RestAt(q, e, k, n), n)
      BY DEF CutUp
    <2>2. HasJust(b, {q[l]} \cup RestAt(q, e, k, n), n)
      BY <1>6, <1>7, <2>1, JustOneMore
    <2>3. QED
      BY <1>5, <2>2
  <1>9. PICK p : Ends(p, e, k, n) /\ BlocksOf(done, p, q, e, n)
    BY DEF CutUp
  <1>10. PICK T : T = 1 .. n /\ p \in Seq(T) /\ l \in T
    BY <1>9 DEF Ends
  <1>11. PICK c \in Nat : c = Len(p) /\ T = 1 .. n /\ p \in Seq(T) /\ l \in T
    BY <1>10, LenProperties
  <1>12. PICK r : r = Append(p, l)
    OBVIOUS
  <1>13. /\ r \in Seq(T) /\ Len(r) = c + 1 /\ r[c + 1] = l
         /\ \A i \in 1 .. c : r[i] = p[i]
    BY <1>11, <1>12, AppendProperties
  <1>14. \A i \in 1 .. (c + 1) : i \in 1 .. c \/ i = c + 1
    OBVIOUS
  <1>15. /\ \A i \in 1 .. c : p[i] \in 1 .. n /\ p[i] <= k /\ e[p[i]] = p[i]
         /\ \A i, j \in 1 .. c : i < j => p[i] < p[j]
         /\ \A j \in 1 .. n : j <= k /\ e[j] = j => Has(p, c, j)
    BY <1>9, <1>11, ElementOfSeq DEF Ends
  <1>16. Ends(r, e, l, n)
    <2>1. ASSUME NEW i \in 1 .. (c + 1), NEW j \in 1 .. (c + 1), i < j PROVE r[i] < r[j]
      <3>0. i \in 1 .. c
        BY <2>1
      <3>1. i \in 1 .. c /\ r[i] = p[i]
        BY <1>13, <3>0
      <3>2. CASE j = c + 1
        <4>1. p[i] \in 1 .. n /\ p[i] <= k /\ r[j] = l
          BY <1>13, <1>15, <3>1, <3>2
        <4>2. QED
          BY <1>1, <3>1, <4>1
      <3>3. CASE j # c + 1
        <4>1. j \in 1 .. c
          BY <3>3
        <4>2. r[j] = p[j]
          BY <1>13, <4>1
        <4>3. QED
          BY <1>15, <2>1, <3>1, <4>1, <4>2
      <3>4. QED
        BY <3>2, <3>3
    <2>2. ASSUME NEW i \in 1 .. (c + 1) PROVE r[i] <= l /\ e[r[i]] = r[i]
      <3>1. CASE i \in 1 .. c
        <4>1. r[i] = p[i] /\ p[i] \in 1 .. n /\ p[i] <= k /\ e[p[i]] = p[i]
          BY <1>13, <1>15, <3>1
        <4>2. QED
          BY <1>1, <4>1
      <3>2. CASE i = c + 1
        BY <1>2, <1>13, <3>2
      <3>3. QED
        BY <1>14, <3>1, <3>2
    <2>3. ASSUME NEW j \in 1 .. n, j <= l, e[j] = j PROVE Has(r, c + 1, j)
      <3>1. CASE j = l
        <4>1. c + 1 \in 1 .. (c + 1)
          OBVIOUS
        <4>2. QED
          BY <1>13, <3>1, <4>1 DEF Has
      <3>2. CASE j # l
        <4>1. PICK i \in 1 .. c : p[i] = j
          BY <1>2, <1>15, <2>3, <3>2 DEF Has
        <4>2. i \in 1 .. (c + 1)
          OBVIOUS
        <4>3. QED
          BY <1>13, <4>1, <4>2 DEF Has
      <3>3. QED
        BY <3>1, <3>2
    <2>4. QED
      BY <1>11, <1>13, <2>1, <2>2, <2>3 DEF Ends
  <1>17. BlocksOf(Append(done, b), r, q, e, n)
    <2>1. PICK U, d : U = Seq(1 .. n) /\ d = Append(done, b)
      OBVIOUS
    <2>2. done \in Seq(U) /\ Len(done) = c /\ b \in U
      BY <1>8, <1>9, <1>11, <2>1 DEF BlocksOf, HasJust
    <2>3. /\ d \in Seq(U) /\ Len(d) = c + 1 /\ d[c + 1] = b
          /\ \A i \in 1 .. c : d[i] = done[i]
      BY <2>1, <2>2, AppendProperties
    <2>4. \A m \in 1 .. c : HasJust(done[m], BlockAt(q, e, p[m], n), n)
      BY <1>9, <1>11 DEF BlocksOf
    <2>5. \A m \in 1 .. (c + 1) : HasJust(d[m], BlockAt(q, e, r[m], n), n)
      BY <1>8, <1>13, <1>14, <2>3, <2>4
    <2>6. QED
      BY <1>13, <2>1, <2>3, <2>5 DEF BlocksOf
  <1>18. HasJust(<<>>, RestAt(q, e, l, n), n)
    BY <1>4, JustNothing
  <1>19. QED
    BY <1>1, <1>7, <1>16, <1>17, <1>18 DEF CutUp

\* Before the first position nothing has been cut.
LEMMA CutsNothing ==
  ASSUME NEW n \in Nat, NEW q, NEW e
  PROVE  CutUp(<<>>, <<>>, q, e, 0, n)
  <1>1. RestAt(q, e, 0, n) = {}
    <2>1. \A i \in 1 .. n : ~(i <= 0)
      OBVIOUS
    <2>2. QED
      BY <2>1 DEF RestAt
  <1>2. HasJust(<<>>, RestAt(q, e, 0, n), n)
    BY <1>1, JustNothing
  <1>3. /\ <<>> \in Seq(1 .. n) /\ <<>> \in Seq(Seq(1 .. n)) /\ Len(<<>>) = 0
    BY EmptySeq
  <1>4. 1 .. 0 = {} /\ \A j \in 1 .. n : ~(j <= 0)
    OBVIOUS
  <1>5. Ends(<<>>, e, 0, n) /\ BlocksOf(<<>>, <<>>, q, e, n)
    BY <1>3, <1>4 DEF Ends, BlocksOf
  <1>6. QED
    BY <1>2, <1>5 DEF CutUp

Distinct(s) == \A i, j \in 1 .. Len(s) : s[i] = s[j] => i = j
Apart(s, t) == \A x : ~(Has(s, Len(s), x) /\ Has(t, Len(t), x))

Joined(r, s, t, T) ==
  /\ r \in Seq(T) /\ Distinct(r)
  /\ \A x : Has(r, Len(r), x) <=> Has(s, Len(s), x) \/ Has(t, Len(t), x)

\* Two sequences without repetition or common elements are joined without repetition.
LEMMA JoinDistinct ==
  ASSUME NEW T, NEW s \in Seq(T), NEW t \in Seq(T), Distinct(s), Distinct(t), Apart(s, t),
         NEW r, r = s \o t
  PROVE  Joined(r, s, t, T)
  <1>1. PICK m \in Nat : m = Len(s)
    BY LenProperties
  <1>2. PICK l \in Nat : l = Len(t)
    BY LenProperties
  <1>3. r \in Seq(T) /\ Len(r) = m + l
    BY <1>1, <1>2, ConcatProperties
  <1>4. \A i \in 1 .. (m + l) : r[i] = IF i <= m THEN s[i] ELSE t[i - m]
    <2>1. \A i \in 1 .. (Len(s) + Len(t)) : (s \o t)[i] = IF i <= Len(s) THEN s[i] ELSE t[i - Len(s)]
      BY ConcatProperties
    <2>2. QED
      BY <1>1, <1>2, <2>1
  <1>5. Together(r, s, t, m, l)
    BY <1>4, HasEither
  <1>6. /\ \A i, j \in 1 .. m : s[i] = s[j] => i = j
        /\ \A i, j \in 1 .. l : t[i] = t[j] => i = j
        /\ \A i \in 1 .. m, j \in 1 .. l : s[i] # t[j]
    BY <1>1, <1>2 DEF Distinct, Apart, Has
  <1>7. ASSUME NEW i \in 1 .. (m + l), NEW j \in 1 .. (m + l), r[i] = r[j] PROVE i = j
    <2>1. /\ i <= m => i \in 1 .. m
          /\ ~(i <= m) => i - m \in 1 .. l
          /\ j <= m => j \in 1 .. m
          /\ ~(j <= m) => j - m \in 1 .. l
      OBVIOUS
    <2>2. r[i] = (IF i <= m THEN s[i] ELSE t[i - m]) /\ r[j] = (IF j <= m THEN s[j] ELSE t[j - m])
      BY <1>4
    <2>3. CASE i <= m /\ j <= m
      BY <1>6, <1>7, <2>1, <2>2, <2>3
    <2>4. CASE i <= m /\ ~(j <= m)
      BY <1>6, <1>7, <2>1, <2>2, <2>4
    <2>5. CASE ~(i <= m) /\ j <= m
      BY <1>6, <1>7, <2>1, <2>2, <2>5
    <2>6. CASE ~(i <= m) /\ ~(j <= m)
      <3>1. i - m = j - m
        BY <1>6, <1>7, <2>1, <2>2, <2>6
      <3>2. QED
        BY <3>1
    <2>7. QED
      BY <2>3, <2>4, <2>5, <2>6
  <1>8. Distinct(r)
    BY <1>3, <1>7 DEF Distinct
  <1>9. QED
    BY <1>1, <1>2, <1>3, <1>5, <1>8 DEF Joined, Together

\* The first i of the sequences of d put together.
Flattens(flat, d, l) ==
  \A i \in 1 .. l : flat[i] = IF i = 1 THEN d[i] ELSE flat[i - 1] \o d[i]

\* So are any number of them, one after the other.
LEMMA FlatIsDistinct ==
  ASSUME NEW T, NEW l \in Nat \ {0}, NEW d, \A m \in 1 .. l : d[m] \in Seq(T) /\ Distinct(d[m]),
         \A m, k \in 1 .. l : m # k => Apart(d[m], d[k]),
         NEW flat, Flattens(flat, d, l)
  PROVE  flat[l] \in Seq(T) /\ Distinct(flat[l])
  <1> DEFINE In(i, x) == \E m \in 1 .. i : Has(d[m], Len(d[m]), x)
             Good(i) == /\ flat[i] \in Seq(T) /\ Distinct(flat[i])
                        /\ \A x : Has(flat[i], Len(flat[i]), x) => In(i, x)
             P == {k \in Nat : k + 1 <= l => Good(k + 1)}
  <1>1. 0 \in P
    <2>1. 1 \in 1 .. l /\ 1 \in 1 .. 1 /\ 0 + 1 = 1
      OBVIOUS
    <2>2. flat[1] = d[1]
      BY <2>1 DEF Flattens
    <2>3. Good(1)
      BY <2>1, <2>2
    <2>4. QED
      BY <2>1, <2>3
  <1>2. ASSUME NEW k \in P PROVE k + 1 \in P
    <2>1. k \in Nat /\ k + 1 \in Nat
      OBVIOUS
    <2>2. ASSUME (k + 1) + 1 <= l PROVE Good((k + 1) + 1)
      <3>1. PICK i \in 1 .. l : i = (k + 1) + 1
        BY <2>1, <2>2
      <3>2. PICK h \in 1 .. l : h = k + 1
        BY <2>1, <2>2
      <3>3. i # 1 /\ i - 1 = h /\ \A m \in 1 .. h : m \in 1 .. l /\ m # i /\ m \in 1 .. i
        BY <2>1, <3>1, <3>2
      <3>4. Good(h)
        BY <2>1, <2>2, <3>2
      <3>5. PICK s, t : s = flat[h] /\ t = d[i]
        OBVIOUS
      <3>6. flat[i] = s \o t
        BY <3>3, <3>5 DEF Flattens
      <3>7. s \in Seq(T) /\ t \in Seq(T) /\ Distinct(s) /\ Distinct(t)
        BY <3>4, <3>5
      <3>8. Apart(s, t)
        <4>1. SUFFICES ASSUME NEW x, Has(s, Len(s), x), Has(t, Len(t), x) PROVE FALSE
          BY DEF Apart
        <4>2. PICK m \in 1 .. h : Has(d[m], Len(d[m]), x)
          BY <3>4, <3>5, <4>1
        <4>3. Apart(d[m], d[i])
          BY <3>3, <4>2
        <4>4. QED
          BY <3>5, <4>1, <4>2, <4>3 DEF Apart
      <3>9. PICK r : r = s \o t
        OBVIOUS
      <3>10. Joined(r, s, t, T)
        BY <3>7, <3>8, <3>9, JoinDistinct
      <3>11. \A x : Has(r, Len(r), x) => In(i, x)
        <4>1. SUFFICES ASSUME NEW x, Has(r, Len(r), x) PROVE In(i, x)
          OBVIOUS
        <4>2. Has(s, Len(s), x) \/ Has(t, Len(t), x)
          BY <3>10, <4>1 DEF Joined
        <4>3. CASE Has(s, Len(s), x)
          <5>1. PICK m \in 1 .. h : Has(d[m], Len(d[m]), x)
            BY <3>4, <3>5, <4>3
          <5>2. QED
            BY <3>3, <5>1
        <4>4. CASE Has(t, Len(t), x)
          <5>1. i \in 1 .. i
            OBVIOUS
          <5>2. QED
            BY <3>5, <4>4, <5>1
        <4>5. QED
          BY <4>2, <4>3, <4>4
      <3> HIDE DEF In
      <3>12. Good(i)
        BY <3>6, <3>9, <3>10, <3>11 DEF Joined
      <3>13. QED
        BY <3>1, <3>12
    <2> HIDE DEF Good
    <2>3. QED
      BY <2>1, <2>2
  <1>3. P \in SUBSET Nat
    OBVIOUS
  <1> HIDE DEF P, In
  <1>4. P = Nat
    BY <1>1, <1>2, <1>3, EveryNat
  <1>5. PICK k \in Nat : k + 1 = l
    <2>1. l - 1 \in Nat /\ (l - 1) + 1 = l
      OBVIOUS
    <2>2. QED
      BY <2>1
  <1>6. k \in P /\ k + 1 <= l
    BY <1>4, <1>5
  <1>7. Good(k + 1)
    BY <1>6 DEF P
  <1>8. QED
    BY <1>5, <1>7

-----------------------------------------------------------------------------
(* Graphs, and what depth-first search leaves behind on them               *)
IsArc(g, x, y) == \E k \in DOMAIN g.neighbors[x] : g.neighbors[x][k] = y

\* What depth-first search leaves behind: times, and a forest of arcs in which a
\* vertex lies inside its parent.
Explored(g, n) ==
  /\ \A v \in 1 .. n : /\ g.discover[v] \in Nat /\ g.finish[v] \in Nat
                       /\ g.discover[v] < g.finish[v]
  /\ \A v, w \in 1 .. n : g.discover[v] = g.discover[w] => v = w
  /\ \A v, w \in 1 .. n : g.finish[v] = g.finish[w] => v = w
  /\ \A v, w \in 1 .. n : IsArc(g, v, w) => g.discover[w] < g.finish[v]
  /\ \A w \in 1 .. n : g.parent[w] # 0 =>
       /\ g.parent[w] \in 1 .. n /\ IsArc(g, g.parent[w], w)
       /\ g.discover[g.parent[w]] < g.discover[w]
       /\ g.finish[w] <= g.finish[g.parent[w]]
  /\ \A v, w \in 1 .. n : g.discover[v] < g.discover[w] =>
       \/ g.finish[v] < g.discover[w]
       \/ g.parent[w] = v
       \/ g.parent[w] # 0 /\ g.discover[v] < g.discover[g.parent[w]]

ClosedUnder(g, T, n) == \A x \in T, y \in 1 .. n : IsArc(g, x, y) => y \in T

\* R has for every vertex what can be reached from it.
Reaching(g, R, n) ==
  /\ R \in [1 .. n -> SUBSET (1 .. n)]
  /\ \A v \in 1 .. n : /\ v \in R[v] /\ ClosedUnder(g, R[v], n)
                       /\ \A T \in SUBSET (1 .. n) : v \in T /\ ClosedUnder(g, T, n) => R[v] \subseteq T

\* w was found between the discovery and the finishing of v.
Within(g, v, w) == g.discover[v] <= g.discover[w] /\ g.discover[w] <= g.finish[v]

\* What was found while v was being visited can be reached from v, and was finished
\* before.
LEMMA Descends ==
  ASSUME NEW n \in Nat, NEW g, Explored(g, n), NEW R, Reaching(g, R, n), NEW v \in 1 .. n
  PROVE  \A w \in 1 .. n : Within(g, v, w) => w \in R[v] /\ g.finish[w] <= g.finish[v]
  <1> DEFINE P == {k \in Nat : \A w \in 1 .. n : g.discover[w] <= k /\ Within(g, v, w)
                                 => w \in R[v] /\ g.finish[w] <= g.finish[v]}
  <1>1. \A w \in 1 .. n : g.discover[w] \in Nat /\ g.finish[w] \in Nat
    BY DEF Explored
  <1>2. v \in R[v] /\ \A x \in R[v], y \in 1 .. n : IsArc(g, x, y) => y \in R[v]
    BY DEF Reaching, ClosedUnder
  <1>3. ASSUME NEW k \in Nat, NEW w \in 1 .. n, Within(g, v, w), g.discover[w] <= k + 1,
               \A x \in 1 .. n : g.discover[x] <= k /\ Within(g, v, x)
                                 => x \in R[v] /\ g.finish[x] <= g.finish[v]
        PROVE  w \in R[v] /\ g.finish[w] <= g.finish[v]
    <2>1. CASE w = v
      BY <1>1, <1>2, <2>1
    <2>2. CASE w # v
      <3>1. g.discover[v] # g.discover[w]
        BY <2>2 DEF Explored
      <3>2. g.discover[v] < g.discover[w] /\ ~(g.finish[v] < g.discover[w])
        BY <1>1, <1>3, <3>1 DEF Within
      <3>3. PICK p : p = g.parent[w]
        OBVIOUS
      <3>4. p = v \/ (p # 0 /\ g.discover[v] < g.discover[p])
        BY <3>2, <3>3 DEF Explored
      <3>5. p # 0
        BY <3>4
      <3>6. /\ p \in 1 .. n /\ IsArc(g, p, w) /\ g.discover[p] < g.discover[w]
            /\ g.finish[w] <= g.finish[p]
        BY <3>3, <3>5 DEF Explored
      <3>7. p \in R[v] /\ g.finish[p] <= g.finish[v]
        <4>1. CASE p = v
          BY <1>1, <1>2, <4>1
        <4>2. CASE p # v
          <5>1. g.discover[v] < g.discover[p]
            BY <3>4, <4>2
          <5>2. g.discover[p] <= k /\ Within(g, v, p)
            BY <1>1, <1>3, <3>2, <3>6, <5>1 DEF Within
          <5>3. QED
            BY <1>3, <3>6, <5>2
        <4>3. QED
          BY <4>1, <4>2
      <3>8. w \in R[v]
        BY <1>2, <3>6, <3>7
      <3>9. g.finish[w] <= g.finish[v]
        BY <1>1, <3>6, <3>7
      <3>10. QED
        BY <3>8, <3>9
    <2>3. QED
      BY <2>1, <2>2
  <1>4. 0 \in P
    <2>1. SUFFICES ASSUME NEW w \in 1 .. n, g.discover[w] <= 0, Within(g, v, w)
                   PROVE  w \in R[v] /\ g.finish[w] <= g.finish[v]
      OBVIOUS
    <2>2. g.discover[v] = g.discover[w]
      BY <1>1, <2>1 DEF Within
    <2>3. w = v
      BY <2>2 DEF Explored
    <2>4. QED
      BY <1>1, <1>2, <2>3
  <1>5. ASSUME NEW k \in P PROVE k + 1 \in P
    <2>1. k \in Nat /\ k + 1 \in Nat
      OBVIOUS
    <2>2. \A x \in 1 .. n : g.discover[x] <= k /\ Within(g, v, x)
                              => x \in R[v] /\ g.finish[x] <= g.finish[v]
      OBVIOUS
    <2>3. \A w \in 1 .. n : g.discover[w] <= k + 1 /\ Within(g, v, w)
                              => w \in R[v] /\ g.finish[w] <= g.finish[v]
      BY <1>3, <2>1, <2>2
    <2>4. QED
      BY <2>1, <2>3
  <1>6. P \in SUBSET Nat
    OBVIOUS
  <1> HIDE DEF P
  <1>7. P = Nat
    BY <1>4, <1>5, <1>6, EveryNat
  <1>8. SUFFICES ASSUME NEW w \in 1 .. n, Within(g, v, w)
                 PROVE  w \in R[v] /\ g.finish[w] <= g.finish[v]
    OBVIOUS
  <1>9. PICK k \in Nat : k = g.discover[w]
    BY <1>1
  <1>10. k \in P /\ g.discover[w] <= k
    BY <1>1, <1>7, <1>9
  <1>11. QED
    BY <1>8, <1>10 DEF P

\* The trees of two roots are apart, in the order of their discovery.
LEMMA RootsApart ==
  ASSUME NEW n \in Nat, NEW g, Explored(g, n), NEW v \in 1 .. n, NEW r \in 1 .. n,
         g.parent[r] = 0, g.discover[v] < g.discover[r]
  PROVE  g.finish[v] < g.discover[r]
  <1>1. v # 0
    OBVIOUS
  <1>2. QED
    BY <1>1 DEF Explored

\* Every vertex is in the tree of a root.
LEMMA HasRoot ==
  ASSUME NEW n \in Nat, NEW g, Explored(g, n)
  PROVE  \A w \in 1 .. n : \E r \in 1 .. n :
           /\ g.parent[r] = 0 /\ g.discover[r] <= g.discover[w] /\ g.finish[w] <= g.finish[r]
  <1> DEFINE In(w, r) == /\ g.parent[r] = 0 /\ g.discover[r] <= g.discover[w]
                         /\ g.finish[w] <= g.finish[r]
             P == {k \in Nat : \A w \in 1 .. n : g.discover[w] <= k => \E r \in 1 .. n : In(w, r)}
  <1>1. \A w \in 1 .. n : g.discover[w] \in Nat /\ g.finish[w] \in Nat
    BY DEF Explored
  <1>2. ASSUME NEW w \in 1 .. n, g.parent[w] # 0
        PROVE  /\ g.parent[w] \in 1 .. n /\ g.discover[g.parent[w]] < g.discover[w]
               /\ g.finish[w] <= g.finish[g.parent[w]]
    BY <1>2 DEF Explored
  <1>3. ASSUME NEW w \in 1 .. n, g.parent[w] = 0 PROVE In(w, w)
    BY <1>1, <1>3
  <1>4. 0 \in P
    <2>1. SUFFICES ASSUME NEW w \in 1 .. n, g.discover[w] <= 0 PROVE In(w, w)
      OBVIOUS
    <2>2. g.parent[w] = 0
      BY <1>1, <1>2, <2>1
    <2>3. QED
      BY <1>3, <2>2
  <1>5. ASSUME NEW k \in P PROVE k + 1 \in P
    <2>1. k \in Nat /\ k + 1 \in Nat
      OBVIOUS
    <2>2. ASSUME NEW w \in 1 .. n, g.discover[w] <= k + 1 PROVE \E r \in 1 .. n : In(w, r)
      <3>1. CASE g.parent[w] = 0
        BY <1>3, <3>1
      <3>2. CASE g.parent[w] # 0
        <4>1. PICK p \in 1 .. n : /\ p = g.parent[w] /\ g.discover[p] < g.discover[w]
                                  /\ g.finish[w] <= g.finish[p]
          BY <1>2, <3>2
        <4>2. g.discover[p] <= k
          BY <1>1, <2>1, <2>2, <4>1
        <4>3. PICK r \in 1 .. n : In(p, r)
          BY <4>2
        <4>4. In(w, r)
          BY <1>1, <4>1, <4>3
        <4>5. QED
          BY <4>4
      <3>3. QED
        BY <3>1, <3>2
    <2>3. QED
      BY <2>1, <2>2
  <1>6. P \in SUBSET Nat
    OBVIOUS
  <1> HIDE DEF P
  <1>7. P = Nat
    BY <1>4, <1>5, <1>6, EveryNat
  <1>8. SUFFICES ASSUME NEW w \in 1 .. n PROVE \E r \in 1 .. n : In(w, r)
    OBVIOUS
  <1>9. PICK k \in Nat : k = g.discover[w]
    BY <1>1
  <1>10. k \in P /\ g.discover[w] <= k
    BY <1>1, <1>7, <1>9
  <1>11. QED
    BY <1>10 DEF P

\* ball[k] is what at most k arcs lead to from v.
Grows(g, ball, v, n) ==
  /\ ball[0] = {v}
  /\ \A k \in 1 .. n :
       ball[k] = ball[k - 1] \cup {y \in 1 .. n : \E x \in ball[k - 1] : IsArc(g, x, y)}

\* n steps are enough: as long as the ball is not closed it gains a vertex.
LEMMA BallIsClosed ==
  ASSUME NEW n \in Nat, NEW g, NEW v \in 1 .. n,
         NEW ball \in [0 .. n -> SUBSET (1 .. n)], Grows(g, ball, v, n)
  PROVE  /\ v \in ball[n] /\ ClosedUnder(g, ball[n], n)
         /\ \A T \in SUBSET (1 .. n) : v \in T /\ ClosedUnder(g, T, n) => ball[n] \subseteq T
  <1>1. \A k \in 0 .. n : /\ ball[k] \in SUBSET (1 .. n) /\ IsFiniteSet(ball[k])
                          /\ Cardinality(ball[k]) \in 0 .. n
    <2>1. SUFFICES ASSUME NEW k \in 0 .. n
                   PROVE  /\ ball[k] \in SUBSET (1 .. n) /\ IsFiniteSet(ball[k])
                          /\ Cardinality(ball[k]) \in 0 .. n
      OBVIOUS
    <2>2. ball[k] \in SUBSET (1 .. n)
      OBVIOUS
    <2>3. IsFiniteSet(1 .. n) /\ Cardinality(1 .. n) = n
      BY FS_Interval
    <2>4. IsFiniteSet(ball[k]) /\ Cardinality(ball[k]) <= n
      BY <2>2, <2>3, FS_Subset
    <2>5. Cardinality(ball[k]) \in Nat
      BY <2>4, FS_CardinalityType
    <2>6. QED
      BY <2>2, <2>4, <2>5
  <1> DEFINE P == {k \in Nat : k <= n => /\ v \in ball[k]
                                         /\ ClosedUnder(g, ball[k], n) \/ Cardinality(ball[k]) > k}
  <1>2. 0 \in P
    <2>1. ball[0] = {v} /\ Cardinality({v}) = 1
      BY FS_Singleton DEF Grows
    <2>2. Cardinality(ball[0]) > 0
      BY <2>1
    <2>3. QED
      BY <2>1, <2>2
  <1>3. ASSUME NEW k \in P PROVE k + 1 \in P
    <2>1. k \in Nat /\ k + 1 \in Nat
      OBVIOUS
    <2>2. ASSUME k + 1 <= n
          PROVE  /\ v \in ball[k + 1]
                 /\ ClosedUnder(g, ball[k + 1], n) \/ Cardinality(ball[k + 1]) > k + 1
      <3>1. k + 1 \in 1 .. n /\ (k + 1) - 1 = k /\ k <= n /\ k \in 0 .. n /\ k + 1 \in 0 .. n
        BY <2>1, <2>2
      <3>2. PICK b \in SUBSET (1 .. n), c \in SUBSET (1 .. n) : b = ball[k] /\ c = ball[k + 1]
        BY <1>1, <3>1
      <3>3. c = b \cup {y \in 1 .. n : \E x \in b : IsArc(g, x, y)}
        BY <3>1, <3>2 DEF Grows
      <3>4. v \in b /\ (ClosedUnder(g, b, n) \/ Cardinality(b) > k)
        BY <3>1, <3>2
      <3>5. CASE ClosedUnder(g, b, n)
        <4>1. c = b
          BY <3>3, <3>5 DEF ClosedUnder
        <4>2. QED
          BY <3>2, <3>4, <3>5, <4>1
      <3>6. CASE ~ClosedUnder(g, b, n)
        <4>1. PICK y \in 1 .. n : y \notin b /\ \E x \in b : IsArc(g, x, y)
          BY <3>6 DEF ClosedUnder
        <4>2. b \cup {y} \in SUBSET c
          BY <3>3, <4>1
        <4>3. /\ IsFiniteSet(b) /\ IsFiniteSet(c)
              /\ Cardinality(b) \in Nat /\ Cardinality(c) \in Nat
          BY <1>1, <3>1, <3>2
        <4>4. Cardinality(b \cup {y}) = Cardinality(b) + 1
          BY <4>1, <4>3, FS_AddElement
        <4>5. Cardinality(b \cup {y}) <= Cardinality(c)
          BY <4>2, <4>3, FS_Subset
        <4>6. PICK i \in Nat, j \in Nat : i = Cardinality(b) /\ j = Cardinality(c)
          BY <4>3
        <4>7. i > k /\ i + 1 <= j
          BY <3>4, <3>6, <4>4, <4>5, <4>6
        <4>8. j > k + 1
          BY <2>1, <4>7
        <4>9. QED
          BY <3>2, <3>3, <3>4, <4>6, <4>8
      <3>7. QED
        BY <3>5, <3>6
    <2>3. QED
      BY <2>1, <2>2
  <1>4. P \in SUBSET Nat
    OBVIOUS
  <1> HIDE DEF P
  <1>5. P = Nat
    BY <1>2, <1>3, <1>4, EveryNat
  <1>6. n \in P /\ n <= n /\ n \in 0 .. n
    BY <1>5
  <1>7. v \in ball[n] /\ (ClosedUnder(g, ball[n], n) \/ Cardinality(ball[n]) > n)
    BY <1>6 DEF P
  <1>8. ~(Cardinality(ball[n]) > n)
    <2>1. PICK c \in 0 .. n : c = Cardinality(ball[n])
      BY <1>1, <1>6
    <2>2. ~(c > n)
      OBVIOUS
    <2>3. QED
      BY <2>1, <2>2
  <1>9. ASSUME NEW T \in SUBSET (1 .. n), v \in T, ClosedUnder(g, T, n)
        PROVE  ball[n] \subseteq T
    <2> DEFINE I == {k \in Nat : k <= n => ball[k] \subseteq T}
    <2>1. 0 \in I
      BY <1>9 DEF Grows
    <2>2. ASSUME NEW k \in I PROVE k + 1 \in I
      <3>1. k \in Nat /\ k + 1 \in Nat
        OBVIOUS
      <3>2. ASSUME k + 1 <= n PROVE ball[k + 1] \subseteq T
        <4>1. k + 1 \in 1 .. n /\ (k + 1) - 1 = k /\ k <= n
          BY <3>1, <3>2
        <4>2. ball[k] \subseteq T
          BY <4>1
        <4>3. ball[k + 1] = ball[k] \cup {y \in 1 .. n : \E x \in ball[k] : IsArc(g, x, y)}
          BY <4>1 DEF Grows
        <4>4. QED
          BY <1>9, <4>2, <4>3 DEF ClosedUnder
      <3>3. QED
        BY <3>1, <3>2
    <2>3. I \in SUBSET Nat
      OBVIOUS
    <2> HIDE DEF I
    <2>4. I = Nat
      BY <2>1, <2>2, <2>3, EveryNat
    <2>5. n \in I /\ n <= n
      BY <2>4
    <2>6. QED
      BY <2>5 DEF I
  <1>10. QED
    BY <1>7, <1>8, <1>9

\* What is reached from w is reached from whatever reaches w.
LEMMA ReachesOn ==
  ASSUME NEW n, NEW g, NEW R, Reaching(g, R, n), NEW v \in 1 .. n, NEW w \in R[v]
  PROVE  w \in 1 .. n /\ R[w] \subseteq R[v]
  <1>1. R[v] \in SUBSET (1 .. n)
    BY DEF Reaching
  <1>2. w \in 1 .. n
    BY <1>1
  <1>3. ClosedUnder(g, R[v], n)
    BY DEF Reaching
  <1>4. QED
    BY <1>1, <1>2, <1>3 DEF Reaching

\* h has the arcs of g turned round.
Reversed(h, g, n) == \A x, y \in 1 .. n : IsArc(h, x, y) <=> IsArc(g, y, x)

\* A root comes before whatever is discovered after it, in decreasing order of f.
RootsFirst(h, f, n) ==
  \A r, x \in 1 .. n : h.parent[r] = 0 /\ h.discover[r] <= h.discover[x] => f[r] >= f[x]

\* What the second search finds from a root is in the root's component.
LEMMA TreeIsJoined ==
  ASSUME NEW n \in Nat, NEW g, Explored(g, n), NEW R, Reaching(g, R, n),
         NEW h, Explored(h, n), Reversed(h, g, n), RootsFirst(h, g.finish, n),
         NEW r \in 1 .. n, h.parent[r] = 0
  PROVE  \A x \in 1 .. n : Within(h, r, x) => r \in R[x] /\ x \in R[r]
  <1> DEFINE Fine(x) == r \in R[x] /\ x \in R[r] /\ g.discover[r] <= g.discover[x]
             P == {k \in Nat : \A x \in 1 .. n : h.discover[x] <= k /\ Within(h, r, x) => Fine(x)}
  <1>1. \A w \in 1 .. n : /\ g.discover[w] \in Nat /\ g.finish[w] \in Nat
                          /\ g.discover[w] < g.finish[w]
    BY DEF Explored
  <1>2. \A w \in 1 .. n : /\ h.discover[w] \in Nat /\ h.finish[w] \in Nat
                          /\ h.discover[w] < h.finish[w]
    BY DEF Explored
  <1>3. Fine(r)
    BY <1>1 DEF Reaching
  <1>4. ASSUME NEW k \in Nat, NEW x \in 1 .. n, Within(h, r, x), h.discover[x] <= k + 1,
               \A y \in 1 .. n : h.discover[y] <= k /\ Within(h, r, y) => Fine(y)
        PROVE  Fine(x)
    <2>1. CASE x = r
      BY <1>3, <2>1
    <2>2. CASE x # r
      <3>1. h.discover[r] # h.discover[x]
        BY <2>2 DEF Explored
      <3>2. h.discover[r] < h.discover[x] /\ ~(h.finish[r] < h.discover[x])
        BY <1>2, <1>4, <3>1 DEF Within
      <3>3. PICK p : p = h.parent[x]
        OBVIOUS
      <3>4. p = r \/ (p # 0 /\ h.discover[r] < h.discover[p])
        BY <3>2, <3>3 DEF Explored
      <3>5. p # 0
        BY <3>4
      <3>6. p \in 1 .. n /\ IsArc(h, p, x) /\ h.discover[p] < h.discover[x]
        BY <3>3, <3>5 DEF Explored
      <3>7. Fine(p)
        <4>1. CASE p = r
          BY <1>3, <4>1
        <4>2. CASE p # r
          <5>1. h.discover[r] < h.discover[p]
            BY <3>4, <4>2
          <5>2. h.discover[p] <= k /\ Within(h, r, p)
            BY <1>2, <1>4, <3>2, <3>6, <5>1 DEF Within
          <5>3. QED
            BY <1>4, <3>6, <5>2
        <4>3. QED
          BY <4>1, <4>2
      <3>8. IsArc(g, x, p)
        BY <3>6 DEF Reversed
      <3>9. p \in R[x]
        BY <3>6, <3>8 DEF Reaching, ClosedUnder
      <3>10. r \in R[x]
        BY <3>7, <3>9, ReachesOn
      <3>11. g.finish[x] <= g.finish[r]
        <4>1. g.finish[r] >= g.finish[x]
          BY <1>4 DEF RootsFirst, Within
        <4>2. QED
          BY <1>1, <4>1
      <3>12. g.discover[r] < g.finish[x]
        <4>1. g.discover[p] < g.finish[x] /\ g.discover[r] <= g.discover[p]
          BY <3>6, <3>7, <3>8 DEF Explored
        <4>2. QED
          BY <1>1, <3>6, <4>1
      <3>13. g.discover[r] <= g.discover[x]
        <4>1. SUFFICES ASSUME g.discover[x] < g.discover[r]
                       PROVE  FALSE
          BY <1>1
        <4>2. Within(g, x, r)
          BY <1>1, <3>12, <4>1 DEF Within
        <4>3. g.finish[r] <= g.finish[x]
          BY <4>2, Descends
        <4>4. g.finish[r] = g.finish[x]
          BY <1>1, <3>11, <4>3
        <4>5. QED
          BY <2>2, <4>4 DEF Explored
      <3>14. Within(g, r, x)
        BY <1>1, <3>11, <3>13 DEF Within
      <3>15. x \in R[r]
        BY <3>14, Descends
      <3>16. QED
        BY <3>10, <3>13, <3>15
    <2>3. QED
      BY <2>1, <2>2
  <1> HIDE DEF Fine
  <1>5. 0 \in P
    <2>1. SUFFICES ASSUME NEW x \in 1 .. n, h.discover[x] <= 0, Within(h, r, x)
                   PROVE  Fine(x)
      OBVIOUS
    <2>2. h.discover[r] = h.discover[x]
      BY <1>2, <2>1 DEF Within
    <2>3. x = r
      BY <2>2 DEF Explored
    <2>4. QED
      BY <1>3, <2>3
  <1>6. ASSUME NEW k \in P PROVE k + 1 \in P
    <2>1. k \in Nat /\ k + 1 \in Nat
      OBVIOUS
    <2>2. \A y \in 1 .. n : h.discover[y] <= k /\ Within(h, r, y) => Fine(y)
      OBVIOUS
    <2>3. \A x \in 1 .. n : h.discover[x] <= k + 1 /\ Within(h, r, x) => Fine(x)
      BY <1>4, <2>1, <2>2
    <2>4. QED
      BY <2>1, <2>3
  <1>7. P \in SUBSET Nat
    OBVIOUS
  <1> HIDE DEF P
  <1>8. P = Nat
    BY <1>5, <1>6, <1>7, EveryNat
  <1>9. SUFFICES ASSUME NEW x \in 1 .. n, Within(h, r, x)
                 PROVE  r \in R[x] /\ x \in R[r]
    OBVIOUS
  <1>10. PICK k \in Nat : k = h.discover[x]
    BY <1>2
  <1>11. k \in P /\ h.discover[x] <= k
    BY <1>2, <1>8, <1>10
  <1>12. Fine(x)
    BY <1>9, <1>11 DEF P
  <1>13. QED
    BY <1>12 DEF Fine

\* A root of the second search is not reached from one that is found later: what is
\* found after its tree leads to nothing that was found before.
LEMMA RootsAreParted ==
  ASSUME NEW n \in Nat, NEW g, NEW R, Reaching(g, R, n),
         NEW h, Explored(h, n), Reversed(h, g, n), NEW Q, Reaching(h, Q, n),
         NEW r \in 1 .. n, h.parent[r] = 0, NEW s \in 1 .. n, h.parent[s] = 0,
         h.discover[r] < h.discover[s]
  PROVE  r \notin R[s]
  <1> DEFINE T == {y \in 1 .. n : ~(h.discover[y] <= h.finish[r])}
  <1>1. \A w \in 1 .. n : /\ h.discover[w] \in Nat /\ h.finish[w] \in Nat
                          /\ h.discover[w] < h.finish[w]
    BY DEF Explored
  <1>2. s \in T
    <2>1. h.finish[r] < h.discover[s]
      BY RootsApart
    <2>2. QED
      BY <1>1, <2>1
  <1>3. r \notin T
    BY <1>1
  <1>4. ASSUME NEW y \in T, NEW z \in 1 .. n, IsArc(g, y, z), z \notin T PROVE FALSE
    <2>1. IsArc(h, z, y)
      BY <1>4 DEF Reversed
    <2>2. h.discover[y] < h.finish[z]
      BY <2>1 DEF Explored
    <2>3. h.discover[z] <= h.finish[r]
      BY <1>4
    <2>4. h.finish[z] <= h.finish[r]
      <3>1. CASE h.discover[r] <= h.discover[z]
        <4>1. Within(h, r, z)
          BY <2>3, <3>1 DEF Within
        <4>2. QED
          BY <4>1, Descends
      <3>2. CASE h.discover[z] < h.discover[r]
        <4>1. h.finish[z] < h.discover[r]
          BY <3>2, RootsApart
        <4>2. QED
          BY <1>1, <4>1
      <3>3. QED
        BY <1>1, <3>1, <3>2
    <2>5. QED
      BY <1>1, <1>4, <2>2, <2>4
  <1>5. T \in SUBSET (1 .. n)
    OBVIOUS
  <1> HIDE DEF T
  <1>6. ClosedUnder(g, T, n)
    BY <1>4 DEF ClosedUnder
  <1>7. R[s] \subseteq T
    BY <1>2, <1>5, <1>6 DEF Reaching
  <1>8. QED
    BY <1>3, <1>7

\* t takes every vertex to the root of its tree in the second search: the trees are the
\* components of g, no tree is finished amid another, and arcs lead on.
Planted(t, g, R, h, n) ==
  /\ t \in [1 .. n -> 1 .. n]
  /\ \A x \in 1 .. n : /\ h.parent[t[x]] = 0
                       /\ h.finish[x] <= h.finish[t[x]]
                       /\ h.parent[x] = 0 => t[x] = x
  /\ \A x, r \in 1 .. n :
       h.parent[r] = 0 /\ h.finish[x] <= h.finish[r] => h.finish[t[x]] <= h.finish[r]
  /\ \A x, y \in 1 .. n : t[x] = t[y] <=> y \in R[x] /\ x \in R[y]
  /\ \A x, y \in 1 .. n : IsArc(g, x, y) => h.finish[t[x]] <= h.finish[t[y]]

\* The trees of the search in the reversed graph are the classes of mutual reachability.
LEMMA TreesAre ==
  ASSUME NEW n \in Nat, NEW g, Explored(g, n), NEW R, Reaching(g, R, n),
         NEW h, Explored(h, n), Reversed(h, g, n), RootsFirst(h, g.finish, n),
         NEW Q, Reaching(h, Q, n)
  PROVE  \E t : Planted(t, g, R, h, n)
  <1>1. \A w \in 1 .. n : /\ h.discover[w] \in Nat /\ h.finish[w] \in Nat
                          /\ h.discover[w] < h.finish[w]
    BY DEF Explored
  <1> DEFINE In(w, r) == /\ h.parent[r] = 0 /\ h.discover[r] <= h.discover[w]
                         /\ h.finish[w] <= h.finish[r]
             u == [w \in 1 .. n |-> CHOOSE r \in 1 .. n : In(w, r)]
  <1>2. PICK t : t = u
    OBVIOUS
  <1>3. t \in [1 .. n -> 1 .. n] /\ \A x \in 1 .. n : In(x, t[x])
    <2>1. \A w \in 1 .. n : \E r \in 1 .. n : In(w, r)
      BY HasRoot
    <2> HIDE DEF In
    <2>2. QED
      BY <1>2, <2>1
  <1>4. \A x \in 1 .. n : t[x] \in 1 .. n
    BY <1>3
  <1>5. ASSUME NEW r \in 1 .. n, NEW s \in 1 .. n, h.parent[r] = 0, h.parent[s] = 0, r # s
        PROVE  h.finish[r] < h.discover[s] \/ h.finish[s] < h.discover[r]
    <2>1. h.discover[r] # h.discover[s]
      BY <1>5 DEF Explored
    <2>2. h.discover[r] < h.discover[s] \/ h.discover[s] < h.discover[r]
      BY <1>1, <2>1
    <2>3. QED
      BY <1>5, <2>2, RootsApart
  <1>6. ASSUME NEW x \in 1 .. n, h.parent[x] = 0 PROVE t[x] = x
    <2>1. SUFFICES ASSUME t[x] # x PROVE FALSE
      OBVIOUS
    <2>2. PICK r \in 1 .. n : r = t[x] /\ In(x, r)
      BY <1>3, <1>4
    <2>3. h.finish[r] < h.discover[x] \/ h.finish[x] < h.discover[r]
      BY <1>5, <1>6, <2>1, <2>2
    <2>4. QED
      BY <1>1, <2>2, <2>3
  <1>7. ASSUME NEW x \in 1 .. n, NEW r \in 1 .. n, h.parent[r] = 0, h.finish[x] <= h.finish[r]
        PROVE  h.finish[t[x]] <= h.finish[r]
    <2>1. PICK s \in 1 .. n : s = t[x] /\ In(x, s)
      BY <1>3, <1>4
    <2>2. CASE r = s
      BY <1>1, <2>1, <2>2
    <2>3. CASE r # s
      <3>1. h.finish[r] < h.discover[s] \/ h.finish[s] < h.discover[r]
        BY <1>5, <1>7, <2>1, <2>3
      <3>2. QED
        BY <1>1, <1>7, <2>1, <3>1
    <2>4. QED
      BY <2>2, <2>3
  <1>8. ASSUME NEW x \in 1 .. n, NEW y \in 1 .. n, IsArc(g, x, y)
        PROVE  h.finish[t[x]] <= h.finish[t[y]]
    <2>1. PICK s \in 1 .. n : s = t[x] /\ In(x, s)
      BY <1>3, <1>4
    <2>2. PICK r \in 1 .. n : r = t[y] /\ In(y, r)
      BY <1>3, <1>4
    <2>3. h.discover[x] < h.finish[y]
      <3>1. IsArc(h, y, x)
        BY <1>8 DEF Reversed
      <3>2. QED
        BY <3>1 DEF Explored
    <2>4. CASE r = s
      BY <1>1, <2>1, <2>2, <2>4
    <2>5. CASE r # s
      <3>1. h.finish[r] < h.discover[s] \/ h.finish[s] < h.discover[r]
        BY <1>5, <2>1, <2>2, <2>5
      <3>2. QED
        BY <1>1, <2>1, <2>2, <2>3, <3>1
    <2>6. QED
      BY <2>4, <2>5
  <1>9. ASSUME NEW x \in 1 .. n PROVE t[x] \in R[x] /\ x \in R[t[x]]
    <2>1. PICK r \in 1 .. n : r = t[x] /\ In(x, r)
      BY <1>3, <1>4
    <2>2. Within(h, r, x)
      BY <1>1, <2>1 DEF Within
    <2>3. r \in R[x] /\ x \in R[r]
      BY <2>1, <2>2, TreeIsJoined
    <2>4. QED
      BY <2>1, <2>3
  <1>10. ASSUME NEW x \in 1 .. n, NEW y \in 1 .. n
         PROVE  t[x] = t[y] <=> y \in R[x] /\ x \in R[y]
    <2>1. PICK s \in 1 .. n, r \in 1 .. n : s = t[x] /\ r = t[y]
      BY <1>4
    <2>2. s \in R[x] /\ x \in R[s] /\ r \in R[y] /\ y \in R[r]
      BY <1>9, <2>1
    <2>3. ASSUME s = r PROVE y \in R[x] /\ x \in R[y]
      <3>1. R[s] \subseteq R[x] /\ R[r] \subseteq R[y]
        BY <2>2, ReachesOn
      <3>2. QED
        BY <2>2, <2>3, <3>1
    <2>4. ASSUME y \in R[x], x \in R[y], s # r PROVE FALSE
      <3>1. R[y] \subseteq R[x] /\ R[x] \subseteq R[s] /\ R[x] \subseteq R[y] /\ R[y] \subseteq R[r]
        BY <2>2, <2>4, ReachesOn
      <3>2. r \in R[s] /\ s \in R[r]
        BY <2>2, <3>1
      <3>3. h.parent[r] = 0 /\ h.parent[s] = 0
        BY <1>3, <2>1
      <3>4. h.discover[r] # h.discover[s]
        BY <2>4 DEF Explored
      <3>5. h.discover[r] < h.discover[s] \/ h.discover[s] < h.discover[r]
        BY <1>1, <3>4
      <3>6. QED
        BY <3>2, <3>3, <3>5, RootsAreParted
    <2>5. QED
      BY <2>1, <2>3, <2>4
  <1>11. \A x \in 1 .. n : /\ h.parent[t[x]] = 0 /\ h.finish[x] <= h.finish[t[x]]
    BY <1>3
  <1> HIDE DEF In, u
  <1>12. Planted(t, g, R, h, n)
    BY <1>3, <1>6, <1>7, <1>8, <1>10, <1>11 DEF Planted
  <1>13. QED
    BY <1>12

-----------------------------------------------------------------------------
(* The vertices in the order in which they were finished, the trees of the *)
(* roots one after the other                                               *)
Onto(s, n) == Len(s) = n /\ \A v \in 1 .. n : \E k \in 1 .. n : s[k] = v

Falls(q, f, k) == \A i, j \in 1 .. k : i < j => f[q[i]] >= f[q[j]]

\* s has every vertex, by decreasing f.
Ranked(s, f, n) == Onto(s, n) /\ Falls(s, f, n)

\* q is the vertices in the order in which they were finished.
FinishOrder(q, h, n) ==
  /\ q \in [1 .. n -> 1 .. n]
  /\ \A i, j \in 1 .. n : q[i] = q[j] => i = j
  /\ \A v \in 1 .. n : \E i \in 1 .. n : q[i] = v
  /\ \A i, j \in 1 .. n : i <= j <=> h.finish[q[i]] <= h.finish[q[j]]

\* The blocks of q end where the roots are.
EndsAtRoots(e, t, q, h, n) ==
  /\ Blocks(e, n)
  /\ \A k \in 1 .. n : h.parent[q[k]] = 0 <=> e[k] = k
  /\ \A i \in 1 .. n : q[e[i]] = t[q[i]]

\* Read from its end, what is ranked is the vertices in the order of finishing: in a
\* list of n that has all of n vertices none is twice.
LEMMA BackwardsFinishes ==
  ASSUME NEW n \in Nat, NEW h, Explored(h, n), NEW s \in Seq(1 .. n), Ranked(s, h.finish, n),
         NEW q, q = [i \in 1 .. n |-> s[n + 1 - i]]
  PROVE  FinishOrder(q, h, n)
  <1>1. PICK f : f = h.finish
    OBVIOUS
  <1>2. /\ \A v \in 1 .. n : f[v] \in Nat
        /\ \A v, w \in 1 .. n : f[v] = f[w] => v = w
    BY <1>1 DEF Explored
  <1>3. /\ Len(s) = n
        /\ \A v \in 1 .. n : \E k \in 1 .. n : s[k] = v
        /\ \A i, j \in 1 .. n : i < j => f[s[i]] >= f[s[j]]
    BY <1>1 DEF Ranked, Onto, Falls
  <1>4. \A i \in 1 .. n : s[i] \in 1 .. n
    BY <1>3, ElementOfSeq
  <1>5. \A i \in 1 .. n : n + 1 - i \in 1 .. n /\ n + 1 - (n + 1 - i) = i
    OBVIOUS
  <1>6. q \in [1 .. n -> 1 .. n] /\ \A i \in 1 .. n : q[i] = s[n + 1 - i]
    BY <1>4, <1>5
  <1>7. ASSUME NEW v \in 1 .. n PROVE \E i \in 1 .. n : q[i] = v
    <2>1. PICK k \in 1 .. n : s[k] = v
      BY <1>3
    <2>2. PICK i \in 1 .. n : i = n + 1 - k
      BY <1>5
    <2>3. n + 1 - i = k
      BY <2>2
    <2>4. QED
      BY <1>6, <2>1, <2>3
  <1>8. \A i, j \in 1 .. n : q[i] = q[j] => i = j
    <2>1. q \in Surjection(1 .. n, 1 .. n)
      BY <1>6, <1>7, Fun_IsSurj
    <2>2. IsFiniteSet(1 .. n)
      BY FS_Interval
    <2>3. q \in Injection(1 .. n, 1 .. n)
      BY <2>1, <2>2, FS_SurjSameCardinalityImpliesInj
    <2>4. QED
      BY <2>3 DEF Injection, IsInjective
  <1>9. \A i, j \in 1 .. n : i < j => f[q[i]] <= f[q[j]]
    <2>1. SUFFICES ASSUME NEW i \in 1 .. n, NEW j \in 1 .. n, i < j PROVE f[q[i]] <= f[q[j]]
      OBVIOUS
    <2>2. PICK a \in 1 .. n, b \in 1 .. n : a = n + 1 - i /\ b = n + 1 - j
      BY <1>5
    <2>3. b < a /\ q[i] = s[a] /\ q[j] = s[b]
      BY <1>6, <2>1, <2>2
    <2>4. f[s[b]] >= f[s[a]] /\ s[a] \in 1 .. n /\ s[b] \in 1 .. n
      BY <1>3, <1>4, <2>3
    <2>5. QED
      BY <1>2, <2>3, <2>4
  <1>10. ASSUME NEW i \in 1 .. n, NEW j \in 1 .. n PROVE i <= j <=> f[q[i]] <= f[q[j]]
    <2>1. PICK x \in 1 .. n, y \in 1 .. n : x = q[i] /\ y = q[j]
      BY <1>6
    <2>2. PICK b \in Nat, c \in Nat : b = f[x] /\ c = f[y]
      BY <1>2
    <2>3. (i < j => b <= c) /\ (j < i => c <= b)
      BY <1>9, <2>1, <2>2
    <2>4. b = c => i = j
      BY <1>2, <1>8, <2>1, <2>2, ZenonT(60)
    <2>5. i = j => b = c
      BY <2>1, <2>2
    <2>6. i <= j <=> b <= c
      BY <2>3, <2>4, <2>5
    <2>7. QED
      BY <2>1, <2>2, <2>6
  <1>11. QED
    BY <1>1, <1>6, <1>7, <1>8, <1>10 DEF FinishOrder

\* Read backwards, the order of finishing has each tree in one stretch, its root at the end.
LEMMA RootsEndBlocks ==
  ASSUME NEW n \in Nat, NEW g, NEW R, NEW h, NEW t, Planted(t, g, R, h, n),
         NEW q, FinishOrder(q, h, n)
  PROVE  \E e : EndsAtRoots(e, t, q, h, n)
  <1> DEFINE u == [i \in 1 .. n |-> CHOOSE j \in 1 .. n : q[j] = t[q[i]]]
  <1>1. PICK e : e = u
    OBVIOUS
  <1>2. /\ \A i \in 1 .. n : q[i] \in 1 .. n
        /\ \A i, j \in 1 .. n : q[i] = q[j] => i = j
        /\ \A i, j \in 1 .. n : i <= j <=> h.finish[q[i]] <= h.finish[q[j]]
    BY DEF FinishOrder
  <1>3. /\ \A x \in 1 .. n : /\ t[x] \in 1 .. n /\ h.parent[t[x]] = 0
                             /\ h.finish[x] <= h.finish[t[x]]
                             /\ h.parent[x] = 0 => t[x] = x
        /\ \A x, r \in 1 .. n :
             h.parent[r] = 0 /\ h.finish[x] <= h.finish[r] => h.finish[t[x]] <= h.finish[r]
    BY DEF Planted
  <1>4. e \in [1 .. n -> 1 .. n] /\ \A i \in 1 .. n : q[e[i]] = t[q[i]]
    <2>1. \A i \in 1 .. n : \E j \in 1 .. n : q[j] = t[q[i]]
      BY <1>2, <1>3 DEF FinishOrder
    <2>2. QED
      BY <1>1, <2>1
  <1> HIDE DEF u
  <1>5. \A i \in 1 .. n : e[i] \in 1 .. n
    BY <1>4
  <1>6. ASSUME NEW i \in 1 .. n PROVE h.parent[q[i]] = 0 <=> e[i] = i
    <2>1. ASSUME h.parent[q[i]] = 0 PROVE e[i] = i
      <3>1. t[q[i]] = q[i]
        BY <1>2, <1>3, <2>1
      <3>2. QED
        BY <1>2, <1>4, <1>5, <3>1
    <2>2. ASSUME e[i] = i PROVE h.parent[q[i]] = 0
      <3>1. q[i] = t[q[i]]
        BY <1>4, <2>2
      <3>2. QED
        BY <1>2, <1>3, <3>1
    <2>3. QED
      BY <2>1, <2>2
  <1>7. ASSUME NEW i \in 1 .. n PROVE i <= e[i] /\ e[e[i]] = e[i]
    <2>0. PICK x \in 1 .. n : x = q[i] /\ q[e[i]] = t[x]
      BY <1>2, <1>4
    <2>1. h.finish[q[i]] <= h.finish[q[e[i]]]
      BY <1>3, <2>0
    <2>2. h.parent[q[e[i]]] = 0
      BY <1>3, <2>0
    <2>3. QED
      BY <1>2, <1>5, <1>6, <2>1, <2>2
  <1>8. ASSUME NEW i \in 1 .. n, NEW j \in 1 .. n, i <= j, e[j] = j PROVE e[i] <= j
    <2>1. h.finish[q[i]] <= h.finish[q[j]] /\ h.parent[q[j]] = 0
      BY <1>2, <1>6, <1>8
    <2>2. h.finish[t[q[i]]] <= h.finish[q[j]]
      BY <1>2, <1>3, <2>1
    <2>3. h.finish[q[e[i]]] <= h.finish[q[j]]
      BY <1>4, <2>2
    <2>4. QED
      BY <1>2, <1>5, <2>3
  <1>9. Blocks(e, n)
    BY <1>4, <1>7, <1>8 DEF Blocks
  <1>10. EndsAtRoots(e, t, q, h, n)
    BY <1>4, <1>6, <1>9 DEF EndsAtRoots
  <1>11. QED
    BY <1>10

\* What is printed are the trees, r their roots as they were finished.
Trees(P, r, t, h, n) ==
  /\ P \in Seq(Seq(1 .. n))
  /\ \A m \in 1 .. Len(P) : /\ HasJust(P[m], {x \in 1 .. n : t[x] = r[m]}, n)
                            /\ r[m] \in 1 .. n /\ h.parent[r[m]] = 0 /\ t[r[m]] = r[m]
  /\ \A i, j \in 1 .. Len(P) : i <= j <=> h.finish[r[i]] <= h.finish[r[j]]
  /\ \A v \in 1 .. n : h.parent[v] = 0 => \E m \in 1 .. Len(P) : r[m] = v

\* The stretches cut at the roots are the trees, each once.
LEMMA TreesArePrinted ==
  ASSUME NEW n \in Nat, NEW h, NEW t, t \in [1 .. n -> 1 .. n],
         NEW q, FinishOrder(q, h, n), NEW e, EndsAtRoots(e, t, q, h, n),
         NEW p, Ends(p, e, n, n), NEW P, BlocksOf(P, p, q, e, n)
  PROVE  \E r : Trees(P, r, t, h, n)
  <1>1. PICK l \in Nat : l = Len(p) /\ \A m \in 1 .. l : p[m] \in 1 .. n
    <2>1. p \in Seq(1 .. n)
      BY DEF Ends
    <2>2. QED
      BY <2>1, LenProperties, ElementOfSeq
  <1>2. Len(P) = l /\ P \in Seq(Seq(1 .. n))
    BY <1>1 DEF BlocksOf
  <1> DEFINE r == [m \in 1 .. l |-> q[p[m]]]
  <1>3. /\ \A i \in 1 .. n : q[i] \in 1 .. n /\ e[i] \in 1 .. n /\ q[e[i]] = t[q[i]]
        /\ \A i, j \in 1 .. n : q[i] = q[j] => i = j
        /\ \A i, j \in 1 .. n : i <= j <=> h.finish[q[i]] <= h.finish[q[j]]
        /\ \A v \in 1 .. n : \E i \in 1 .. n : q[i] = v
        /\ \A i \in 1 .. n : h.parent[q[i]] = 0 <=> e[i] = i
    <2>1. Blocks(e, n)
      BY DEF EndsAtRoots
    <2>2. \A i \in 1 .. n : e[i] \in 1 .. n
      BY <2>1 DEF Blocks
    <2>3. QED
      BY <2>2 DEF FinishOrder, EndsAtRoots
  <1>4. /\ \A i, j \in 1 .. l : i < j => p[i] < p[j]
        /\ \A i \in 1 .. l : e[p[i]] = p[i]
        /\ \A j \in 1 .. n : e[j] = j => \E i \in 1 .. l : p[i] = j
    <2>1. \A j \in 1 .. n : j <= n
      OBVIOUS
    <2>2. QED
      BY <1>1, <2>1 DEF Ends, Has
  <1>5. \A m \in 1 .. l : r[m] = q[p[m]]
    OBVIOUS
  <1> HIDE DEF r
  <1>6. ASSUME NEW m \in 1 .. l
        PROVE  /\ HasJust(P[m], {x \in 1 .. n : t[x] = r[m]}, n)
               /\ r[m] \in 1 .. n /\ h.parent[r[m]] = 0 /\ t[r[m]] = r[m]
    <2>1. BlockAt(q, e, p[m], n) = {x \in 1 .. n : t[x] = r[m]}
      <3>1. ASSUME NEW i \in 1 .. n, e[i] = p[m] PROVE q[i] \in 1 .. n /\ t[q[i]] = r[m]
        <4>1. q[i] \in 1 .. n /\ t[q[i]] = q[e[i]]
          BY <1>3
        <4>2. q[e[i]] = r[m]
          BY <1>5, <3>1
        <4>3. QED
          BY <4>1, <4>2
      <3>2. ASSUME NEW x \in 1 .. n, t[x] = r[m]
            PROVE  \E i \in 1 .. n : q[i] = x /\ e[i] = p[m]
        <4>1. PICK i \in 1 .. n : q[i] = x
          BY <1>3
        <4>2. q[e[i]] = q[p[m]]
          BY <1>3, <1>5, <3>2, <4>1
        <4>3. e[i] = p[m]
          BY <1>1, <1>3, <4>2
        <4>4. QED
          BY <4>1, <4>3
      <3>3. QED
        BY <3>1, <3>2 DEF BlockAt
    <2>2. HasJust(P[m], BlockAt(q, e, p[m], n), n)
      BY <1>1 DEF BlocksOf
    <2>3. r[m] \in 1 .. n /\ h.parent[r[m]] = 0 /\ t[r[m]] = r[m]
      <3>1. PICK a \in 1 .. n : a = p[m] /\ r[m] = q[a] /\ e[a] = a
        BY <1>1, <1>4, <1>5
      <3>2. q[a] \in 1 .. n /\ q[e[a]] = t[q[a]] /\ (h.parent[q[a]] = 0 <=> e[a] = a)
        BY <1>3
      <3>3. QED
        BY <3>1, <3>2
    <2>4. QED
      BY <2>1, <2>2, <2>3
  <1>7. ASSUME NEW i \in 1 .. l, NEW j \in 1 .. l
        PROVE  i <= j <=> h.finish[r[i]] <= h.finish[r[j]]
    <2>1. PICK a \in 1 .. n, b \in 1 .. n : a = p[i] /\ b = p[j]
      BY <1>1
    <2>2. r[i] = q[a] /\ r[j] = q[b]
      BY <1>5, <2>1
    <2>3. (i < j => a < b) /\ (j < i => b < a) /\ (i = j => a = b)
      BY <1>4, <2>1
    <2>4. i <= j <=> a <= b
      BY <2>3
    <2>5. a <= b <=> h.finish[q[a]] <= h.finish[q[b]]
      BY <1>3
    <2>6. QED
      BY <2>2, <2>4, <2>5
  <1>8. ASSUME NEW v \in 1 .. n, h.parent[v] = 0 PROVE \E m \in 1 .. l : r[m] = v
    <2>1. PICK i \in 1 .. n : q[i] = v
      BY <1>3
    <2>2. e[i] = i
      BY <1>3, <1>8, <2>1
    <2>3. PICK m \in 1 .. l : p[m] = i
      BY <1>4, <2>2
    <2>4. QED
      BY <1>5, <2>1, <2>3
  <1>9. Trees(P, r, t, h, n)
    BY <1>2, <1>6, <1>7, <1>8 DEF Trees
  <1>10. QED
    BY <1>9

-----------------------------------------------------------------------------
(* What EndDFS sorts: q has the first k of s, by decreasing finish time.   *)
Sorts(q, s, f, k, n) ==
  /\ q \in Seq(1 .. n) /\ Len(q) = k
  /\ Falls(q, f, k)
  /\ \A i \in 1 .. k : Has(q, k, s[i])

\* The place a where Inserted puts v: behind all that finish no earlier.
PlaceFor(q, v, f, a, k) ==
  /\ a \in 0 .. k
  /\ \A i \in 1 .. k : f[q[i]] >= f[v] => i <= a
  /\ a > 0 => f[q[a]] >= f[v]

\* One step of EndDFS's insertion sort: what is inserted at its place keeps the list sorted.
LEMMA SortsOne ==
  ASSUME NEW n \in Nat, NEW s, NEW f \in [1 .. n -> Int], NEW k \in Nat, NEW q,
         Sorts(q, s, f, k, n), NEW v \in 1 .. n, v = s[k + 1], NEW a, PlaceFor(q, v, f, a, k)
  PROVE  Sorts(Inserted(q, a, v), s, f, k + 1, n)
  <1>1. q \in Seq(1 .. n) /\ Len(q) = k /\ a \in 0 .. Len(q)
    BY DEF Sorts, PlaceFor
  <1>2. PICK m : m = Inserted(q, a, v)
    OBVIOUS
  <1>3. /\ m \in Seq(1 .. n) /\ Len(m) = k + 1
        /\ \A i \in 1 .. (k + 1) : m[i] = IF i <= a THEN q[i] ELSE IF i = a + 1 THEN v ELSE q[i - 1]
    <2>1. PICK T : T = 1 .. n
      OBVIOUS
    <2>2. q \in Seq(T) /\ v \in T /\ a \in 0 .. Len(q)
      BY <1>1, <2>1
    <2>3. m \in Seq(T) /\ Len(m) = Len(q) + 1
      BY <1>2, <2>2, InsertedIs
    <2>4. \A i \in 1 .. (Len(q) + 1) :
            Inserted(q, a, v)[i] = IF i <= a THEN q[i] ELSE IF i = a + 1 THEN v ELSE q[i - 1]
      BY <2>2, InsertedIs
    <2>5. \A i \in 1 .. (k + 1) :
            m[i] = IF i <= a THEN q[i] ELSE IF i = a + 1 THEN v ELSE q[i - 1]
      BY <1>1, <1>2, <2>4
    <2>6. QED
      BY <1>1, <2>1, <2>3, <2>5
  <1>4. a \in Int /\ 0 <= a /\ a <= k
    BY <1>1
  <1>5. /\ \A i \in 1 .. k : q[i] \in 1 .. n
        /\ Falls(q, f, k) /\ \A i \in 1 .. k : Has(q, k, s[i])
    BY <1>1, ElementOfSeq DEF Sorts
  <1>6. PICK z \in [1 .. k -> Int] : \A i \in 1 .. k : z[i] = f[q[i]]
    <2>1. [i \in 1 .. k |-> f[q[i]]] \in [1 .. k -> Int]
      BY <1>5
    <2>2. QED
      BY <2>1
  <1>7. PICK w \in Int : w = f[v]
    OBVIOUS
  <1>8. /\ \A i, j \in 1 .. k : i < j => z[i] >= z[j]
        /\ \A i \in 1 .. k : z[i] >= w => i <= a
        /\ a > 0 => z[a] >= w
    <2>1. \A i, j \in 1 .. k : i < j => z[i] >= z[j]
      BY <1>5, <1>6 DEF Falls
    <2>2. \A i \in 1 .. k : z[i] >= w => i <= a
      BY <1>6, <1>7 DEF PlaceFor
    <2>3. ASSUME a > 0 PROVE z[a] >= w
      <3>1. a \in 1 .. k
        BY <1>4, <2>3
      <3>2. QED
        BY <1>6, <1>7, <2>3, <3>1 DEF PlaceFor
    <2>4. QED
      BY <2>1, <2>2, <2>3
  <1>9. \A i \in 1 .. (k + 1) :
          f[m[i]] = IF i <= a THEN z[i] ELSE IF i = a + 1 THEN w ELSE z[i - 1]
    <2>1. SUFFICES ASSUME NEW i \in 1 .. (k + 1)
                   PROVE  f[m[i]] = IF i <= a THEN z[i] ELSE IF i = a + 1 THEN w ELSE z[i - 1]
      OBVIOUS
    <2>2. /\ i <= a => i \in 1 .. k
          /\ ~(i <= a) /\ i # a + 1 => i - 1 \in 1 .. k
      BY <1>4
    <2>3. QED
      BY <1>3, <1>6, <1>7, <2>2
  <1>10. ASSUME NEW i \in 1 .. (k + 1), NEW j \in 1 .. (k + 1), i < j
         PROVE  f[m[i]] >= f[m[j]]
    <2>1. CASE j <= a
      <3>1. i \in 1 .. k /\ j \in 1 .. k /\ i <= a
        BY <1>4, <1>10, <2>1
      <3>2. QED
        BY <1>8, <1>9, <1>10, <2>1, <3>1
    <2>2. CASE j = a + 1
      <3>1. i \in 1 .. k /\ a \in 1 .. k /\ i <= a /\ ~(j <= a)
        BY <1>4, <1>10, <2>2
      <3>2. z[i] >= z[a] /\ z[a] >= w /\ z[i] \in Int /\ z[a] \in Int
        <4>1. z[i] \in Int /\ z[a] \in Int
          BY <3>1
        <4>2. i = a \/ i < a
          BY <1>4, <3>1
        <4>3. z[a] >= w
          BY <1>4, <1>8, <3>1
        <4>4. QED
          BY <1>8, <3>1, <4>1, <4>2, <4>3
      <3>3. f[m[i]] = z[i] /\ f[m[j]] = w
        BY <1>9, <2>2, <3>1
      <3>4. QED
        BY <3>2, <3>3
    <2>3. CASE j > a + 1
      <3>1. j - 1 \in 1 .. k /\ a < j - 1 /\ ~(j <= a) /\ j # a + 1
        BY <1>4, <2>3
      <3>2. f[m[j]] = z[j - 1] /\ z[j - 1] \in Int
        BY <1>9, <3>1
      <3>3. CASE i <= a
        <4>1. i \in 1 .. k /\ i < j - 1
          BY <1>4, <3>1, <3>3
        <4>2. f[m[i]] = z[i]
          BY <1>9, <3>3
        <4>3. QED
          BY <1>8, <3>1, <3>2, <4>1, <4>2
      <3>4. CASE i = a + 1
        <4>1. f[m[i]] = w
          BY <1>4, <1>9, <3>4
        <4>2. ~(z[j - 1] >= w)
          BY <1>4, <1>8, <3>1
        <4>3. QED
          BY <3>2, <4>1, <4>2
      <3>5. CASE i > a + 1
        <4>1. i - 1 \in 1 .. k /\ i - 1 < j - 1 /\ ~(i <= a) /\ i # a + 1
          BY <1>4, <1>10, <3>5
        <4>2. f[m[i]] = z[i - 1]
          BY <1>9, <4>1
        <4>3. QED
          BY <1>8, <3>1, <3>2, <4>1, <4>2
      <3>6. QED
        BY <1>4, <3>3, <3>4, <3>5
    <2>4. QED
      BY <1>4, <2>1, <2>2, <2>3
  <1>11. \A i \in 1 .. (k + 1) : Has(m, k + 1, s[i])
    <2>1. SUFFICES ASSUME NEW i \in 1 .. (k + 1) PROVE \E j \in 1 .. (k + 1) : m[j] = s[i]
      BY DEF Has
    <2>2. CASE i = k + 1
      <3>1. a + 1 \in 1 .. (k + 1) /\ ~(a + 1 <= a)
        BY <1>4
      <3>2. m[a + 1] = v
        BY <1>3, <3>1
      <3>3. QED
        BY <2>2, <3>1, <3>2
    <2>3. CASE i # k + 1
      <3>1. i \in 1 .. k
        BY <2>3
      <3>2. PICK j \in 1 .. k : q[j] = s[i]
        BY <1>5, <3>1 DEF Has
      <3>3. CASE j <= a
        <4>1. j \in 1 .. (k + 1) /\ m[j] = q[j]
          BY <1>3, <3>3, SMTT(30)
        <4>2. QED
          BY <3>2, <4>1
      <3>4. CASE ~(j <= a)
        <4>1. j + 1 \in 1 .. (k + 1) /\ ~(j + 1 <= a) /\ j + 1 # a + 1 /\ (j + 1) - 1 = j
          BY <1>4, <3>4
        <4>2. m[j + 1] = q[j]
          BY <1>3, <4>1, SMTT(30)
        <4>3. QED
          BY <3>2, <4>1, <4>2
      <3>5. QED
        BY <3>3, <3>4
    <2>4. QED
      BY <2>2, <2>3
  <1>12. QED
    BY <1>2, <1>3, <1>10, <1>11 DEF Sorts, Falls

-----------------------------------------------------------------------------
(* The graph on which DFS runs, as it runs                                 *)
Colors == {"WHITE", "GRAY", "BLACK"}

IsDigraph(g, n) ==
  g \in [neighbors : [1 .. n -> Seq(1 .. n)], color : [1 .. n -> Colors],
         parent : [1 .. n -> 0 .. n], discover : [1 .. n -> Int],
         finish : [1 .. n -> Int], size : Int]

\* What the cursors start with.
LEMMA AtTheStart ==
  /\ 1 \in Nat \ {0} /\ 0 \in Int
  /\ \A T : <<>> \in Seq(T) /\ 1 .. Len(<<>>) = {}
  OBVIOUS

-----------------------------------------------------------------------------
(* How the calls of DFS_Visit nest: st is the stack, a the cursors and t   *)
(* the time.                                                               *)
Reached(g, n) == {v \in 1 .. n : g.color[v] # "WHITE"}
Blackened(g, n) == {v \in 1 .. n : g.color[v] = "BLACK"}

\* v was finished before time x.
Ended(g, v, x) == g.color[v] = "BLACK" /\ g.finish[v] < x

\* The gray vertices are on the stack, each the parent of the next.
Stacked(g, st, n) ==
  /\ \A v \in 1 .. n : g.color[v] = "GRAY" <=> \E k \in 1 .. Len(st) : st[k] = v
  /\ \A k \in 1 .. Len(st) : g.parent[st[k]] = IF k = 1 THEN 0 ELSE st[k - 1]
  /\ \A j, k \in 1 .. Len(st) : j < k => g.discover[st[j]] < g.discover[st[k]]

\* The clock counts what has been discovered and what has been finished.
Timed(g, t, n) ==
  /\ t = Cardinality(Reached(g, n)) + Cardinality(Blackened(g, n))
  /\ \A v \in Reached(g, n) :
       /\ g.discover[v] \in 1 .. t
       /\ g.color[v] = "BLACK" => g.finish[v] \in 1 .. t
  /\ \A v \in 1 .. n : g.color[v] # "BLACK" => g.finish[v] = -1

\* A parent was discovered before and is not finished before.
Enclosed(g, n) ==
  \A w \in Reached(g, n) : g.parent[w] # 0 =>
    /\ g.parent[w] \in Reached(g, n)
    /\ g.discover[g.parent[w]] < g.discover[w]
    /\ g.color[g.parent[w]] = "BLACK" =>
         g.color[w] = "BLACK" /\ g.finish[w] <= g.finish[g.parent[w]]

\* What is discovered while v is gray hangs from v, or from something that was
\* discovered after v.
Hangs(g, n) ==
  \A v, w \in Reached(g, n) : g.discover[v] < g.discover[w] =>
    \/ Ended(g, v, g.discover[w])
    \/ g.parent[w] = v
    \/ g.parent[w] # 0 /\ g.discover[v] < g.discover[g.parent[w]]

\* The arcs that have been followed lead to vertices that have been reached.
Followed(g, a, n) ==
  \A v \in Reached(g, n) : \A j \in DOMAIN g.neighbors[v] :
    g.color[v] = "BLACK" \/ j < a[v] => g.neighbors[v][j] \in Reached(g, n)

Nested(g, st, a, t, n) ==
  /\ IsDigraph(g, n) /\ st \in Seq(1 .. n) /\ a \in [1 .. n -> Nat]
  /\ Stacked(g, st, n) /\ Timed(g, t, n) /\ Enclosed(g, n) /\ Hangs(g, n)
  /\ Followed(g, a, n)

\* How many have been reached and how many are black.
LEMMA CountsAre ==
  ASSUME NEW g, NEW n \in Nat
  PROVE  /\ IsFiniteSet(Reached(g, n)) /\ IsFiniteSet(Blackened(g, n))
         /\ Cardinality(Reached(g, n)) \in 0 .. n /\ Cardinality(Blackened(g, n)) \in 0 .. n
  <1>1. Reached(g, n) \in SUBSET (1 .. n) /\ Blackened(g, n) \in SUBSET (1 .. n)
    BY DEF Reached, Blackened
  <1>2. IsFiniteSet(1 .. n) /\ Cardinality(1 .. n) = n
    BY FS_Interval
  <1>3. \A s \in SUBSET (1 .. n) : IsFiniteSet(s) /\ Cardinality(s) \in 0 .. n
    <2>1. SUFFICES ASSUME NEW s \in SUBSET (1 .. n)
                   PROVE  IsFiniteSet(s) /\ Cardinality(s) \in 0 .. n
      OBVIOUS
    <2>2. IsFiniteSet(s) /\ Cardinality(s) <= n
      BY <1>2, FS_Subset
    <2>3. Cardinality(s) \in Nat
      BY <2>2, FS_CardinalityType
    <2>4. QED
      BY <2>2, <2>3
  <1>4. QED
    BY <1>1, <1>3

\* The graph when DFS begins.
LEMMA NestedAtFirst ==
  ASSUME NEW g, NEW n \in Nat, IsDigraph(g, n), NEW a \in [1 .. n -> Nat],
         \A v \in 1 .. n : g.color[v] = "WHITE" /\ g.finish[v] = -1
  PROVE  Nested(g, <<>>, a, 0, n)
  <1>1. Reached(g, n) = {} /\ Blackened(g, n) = {}
    BY DEF Reached, Blackened
  <1>2. 1 .. Len(<<>>) = {}
    BY AtTheStart
  <1>3. Cardinality(Reached(g, n)) = 0 /\ Cardinality(Blackened(g, n)) = 0
    BY <1>1, FS_EmptySet
  <1>4. Stacked(g, <<>>, n)
    BY <1>2 DEF Stacked
  <1>5. Timed(g, 0, n)
    BY <1>1, <1>3 DEF Timed
  <1>6. <<>> \in Seq(1 .. n)
    BY AtTheStart
  <1>7. QED
    BY <1>1, <1>4, <1>5, <1>6 DEF Nested, Enclosed, Hangs, Followed

\* f is e, but perhaps at v.
SameBut(f, e, v, n) == \A w \in 1 .. n : w # v => f[w] = e[w]

\* The graph with v discovered at t, from p.
Discovered(g, v, p, t) ==
  [g EXCEPT !.discover[v] = t, !.color[v] = "GRAY", !.parent[v] = p]

\* h is g with v gray.
GrayIn(h, g, v, p, t, n) ==
  /\ IsDigraph(h, n) /\ h.neighbors = g.neighbors /\ h.size = g.size
  /\ h.finish = g.finish
  /\ h.color[v] = "GRAY" /\ h.discover[v] = t /\ h.parent[v] = p
  /\ SameBut(h.color, g.color, v, n) /\ SameBut(h.discover, g.discover, v, n)
  /\ SameBut(h.parent, g.parent, v, n)

\* What a discovery changes in the graph, and what it keeps.
LEMMA DiscoveredIs ==
  ASSUME NEW n \in Nat, NEW g, IsDigraph(g, n),
         NEW v \in 1 .. n, NEW p \in 0 .. n, NEW t \in Int,
         NEW h, h = Discovered(g, v, p, t)
  PROVE  GrayIn(h, g, v, p, t, n)
  <1> DEFINE d == [g.discover EXCEPT ![v] = t]
             c == [g.color EXCEPT ![v] = "GRAY"]
             r == [g.parent EXCEPT ![v] = p]
  <1>1. /\ g.discover \in [1 .. n -> Int] /\ g.color \in [1 .. n -> Colors]
        /\ g.parent \in [1 .. n -> 0 .. n]
    BY DEF IsDigraph
  <1>2. d \in [1 .. n -> Int] /\ c \in [1 .. n -> Colors] /\ r \in [1 .. n -> 0 .. n]
    BY <1>1 DEF Colors
  <1>3. d[v] = t /\ \A w \in 1 .. n : w # v => d[w] = g.discover[w]
    BY <1>1
  <1>4. c[v] = "GRAY" /\ \A w \in 1 .. n : w # v => c[w] = g.color[w]
    BY <1>1
  <1>5. r[v] = p /\ \A w \in 1 .. n : w # v => r[w] = g.parent[w]
    BY <1>1
  <1> HIDE DEF d, c, r
  <1>6. h = [g EXCEPT !.discover = d, !.color = c, !.parent = r]
    BY DEF IsDigraph, Discovered, d, c, r
  <1>7. /\ IsDigraph(h, n) /\ h.neighbors = g.neighbors /\ h.size = g.size
        /\ h.finish = g.finish /\ h.discover = d /\ h.color = c /\ h.parent = r
    BY <1>2, <1>6 DEF IsDigraph
  <1>8. QED
    BY <1>3, <1>4, <1>5, <1>7 DEF SameBut, GrayIn

\* The graph with v finished at t.
Finished(g, v, t) == [g EXCEPT !.finish[v] = t, !.color[v] = "BLACK"]

\* h is g with v black.
BlackIn(h, g, v, t, n) ==
  /\ IsDigraph(h, n) /\ h.neighbors = g.neighbors /\ h.size = g.size
  /\ h.parent = g.parent /\ h.discover = g.discover
  /\ h.color[v] = "BLACK" /\ h.finish[v] = t
  /\ SameBut(h.color, g.color, v, n) /\ SameBut(h.finish, g.finish, v, n)

\* What finishing a vertex changes in the graph, and what it keeps.
LEMMA FinishedIs ==
  ASSUME NEW n \in Nat, NEW g, IsDigraph(g, n), NEW v \in 1 .. n, NEW t \in Int,
         NEW h, h = Finished(g, v, t)
  PROVE  BlackIn(h, g, v, t, n)
  <1> DEFINE f == [g.finish EXCEPT ![v] = t]
             c == [g.color EXCEPT ![v] = "BLACK"]
  <1>1. g.finish \in [1 .. n -> Int] /\ g.color \in [1 .. n -> Colors]
    BY DEF IsDigraph
  <1>2. f \in [1 .. n -> Int] /\ c \in [1 .. n -> Colors]
    BY <1>1 DEF Colors
  <1>3. f[v] = t /\ \A w \in 1 .. n : w # v => f[w] = g.finish[w]
    BY <1>1
  <1>4. c[v] = "BLACK" /\ \A w \in 1 .. n : w # v => c[w] = g.color[w]
    BY <1>1
  <1> HIDE DEF f, c
  <1>5. h = [g EXCEPT !.finish = f, !.color = c]
    BY DEF IsDigraph, Finished, f, c
  <1>6. /\ IsDigraph(h, n) /\ h.neighbors = g.neighbors /\ h.size = g.size
        /\ h.parent = g.parent /\ h.discover = g.discover /\ h.finish = f /\ h.color = c
    BY <1>2, <1>5 DEF IsDigraph
  <1>7. QED
    BY <1>3, <1>4, <1>6 DEF SameBut, BlackIn

\* Whose call it is that calls.
Caller(st) == IF Len(st) = 0 THEN 0 ELSE st[Len(st)]

\* The cursors b are as far as the cursors a, or past an arc to v.
Advanced(g, a, b, v, n) ==
  \A w \in 1 .. n : \A j \in DOMAIN g.neighbors[w] :
    j < b[w] => j < a[w] \/ g.neighbors[w][j] = v

\* A call of DFS_Visit for v begins; the arc that led to v has been followed.
LEMMA EnterNests ==
  ASSUME NEW g, NEW n \in Nat, NEW st, NEW t \in Nat, NEW a, Nested(g, st, a, t, n),
         NEW v \in 1 .. n, g.color[v] = "WHITE", NEW p \in 0 .. n, p = Caller(st),
         NEW c, c \in [1 .. n -> Nat] /\ Advanced(g, a, c, v, n)
  PROVE  Nested(Discovered(g, v, p, t + 1), Append(st, v), [c EXCEPT ![v] = 1], t + 1, n)
  <1>1. PICK h, s, b : /\ h = Discovered(g, v, p, t + 1) /\ s = Append(st, v)
                       /\ b = [c EXCEPT ![v] = 1]
    OBVIOUS
  <1>2. IsDigraph(g, n) /\ st \in Seq(1 .. n) /\ g.neighbors \in [1 .. n -> Seq(1 .. n)]
    BY DEF Nested, IsDigraph
  <1>3. IsDigraph(g, n)
    BY DEF Nested
  <1>4. /\ IsDigraph(h, n) /\ h.neighbors = g.neighbors /\ h.finish = g.finish
        /\ h.color[v] = "GRAY" /\ h.discover[v] = t + 1 /\ h.parent[v] = p
        /\ \A w \in 1 .. n : w # v => /\ h.color[w] = g.color[w] /\ h.parent[w] = g.parent[w]
                                      /\ h.discover[w] = g.discover[w]
    <2>1. PICK x \in Int : x = t + 1
      OBVIOUS
    <2>2. h = Discovered(g, v, p, x)
      BY <1>1, <2>1
    <2>3. GrayIn(h, g, v, p, x, n)
      BY <1>3, <2>2, DiscoveredIs
    <2>4. QED
      BY <2>1, <2>3 DEF SameBut, GrayIn
  <1> DEFINE R == Reached(g, n)
  <1>5. Reached(h, n) = R \cup {v} /\ v \notin R /\ R \in SUBSET (1 .. n)
    BY <1>4 DEF Reached
  <1>6. Blackened(h, n) = Blackened(g, n)
    BY <1>4 DEF Blackened
  <1>7. PICK l \in Nat : l = Len(st)
    BY <1>2, LenProperties
  <1>8. /\ s \in Seq(1 .. n) /\ Len(s) = l + 1 /\ s[l + 1] = v
        /\ \A k \in 1 .. l : s[k] = st[k] /\ st[k] \in 1 .. n
    <2>1. PICK T : T = 1 .. n
      OBVIOUS
    <2>2. st \in Seq(T) /\ v \in T
      BY <1>2, <2>1
    <2>3. s \in Seq(T) /\ Len(s) = l + 1 /\ \A k \in 1 .. (l + 1) : s[k] = IF k <= l THEN st[k] ELSE v
      BY <1>1, <1>7, <2>2, AppendProperties, SMTT(30)
    <2>4. \A k \in 1 .. l : st[k] \in 1 .. n
      BY <1>2, <1>7, ElementOfSeq
    <2>5. l + 1 \in 1 .. (l + 1) /\ ~(l + 1 <= l) /\ \A k \in 1 .. l : k \in 1 .. (l + 1) /\ k <= l
      OBVIOUS
    <2>6. QED
      BY <2>1, <2>3, <2>4, <2>5
  <1>9. /\ Stacked(g, st, n) /\ Timed(g, t, n) /\ Enclosed(g, n) /\ Hangs(g, n)
        /\ Followed(g, a, n)
    BY DEF Nested
  <1>10. \A k \in 1 .. l : /\ st[k] # v /\ st[k] \in R /\ g.color[st[k]] = "GRAY"
                          /\ g.discover[st[k]] \in 1 .. t
    <2>1. \A k \in 1 .. l : g.color[st[k]] = "GRAY"
      BY <1>7, <1>8, <1>9 DEF Stacked
    <2>2. \A k \in 1 .. l : st[k] \in R
      BY <1>8, <2>1 DEF Reached
    <2>3. QED
      BY <1>9, <2>1, <2>2 DEF Timed
  <1>11. l > 0 => p = st[l] /\ l \in 1 .. l
    BY <1>7 DEF Caller
  <1>12. l = 0 => p = 0
    BY <1>7 DEF Caller
  <1>13. Stacked(h, s, n)
    <2>1. ASSUME NEW w \in 1 .. n
          PROVE  h.color[w] = "GRAY" <=> \E k \in 1 .. (l + 1) : s[k] = w
      <3>1. CASE w = v
        <4>1. l + 1 \in 1 .. (l + 1)
          OBVIOUS
        <4>2. QED
          BY <1>4, <1>8, <3>1, <4>1
      <3>2. CASE w # v
        <4>1. h.color[w] = "GRAY" <=> \E k \in 1 .. l : st[k] = w
          BY <1>4, <1>7, <1>9, <3>2, ZenonT(60) DEF Stacked
        <4>2. \A k \in 1 .. (l + 1) : k \in 1 .. l \/ k = l + 1
          OBVIOUS
        <4>3. \A k \in 1 .. l : k \in 1 .. (l + 1)
          OBVIOUS
        <4>4. QED
          BY <1>8, <3>2, <4>1, <4>2, <4>3
      <3>3. QED
        BY <3>1, <3>2
    <2>2. ASSUME NEW k \in 1 .. (l + 1)
          PROVE  h.parent[s[k]] = IF k = 1 THEN 0 ELSE s[k - 1]
      <3>1. CASE k = l + 1
        <4>1. h.parent[s[k]] = p
          BY <1>4, <1>8, <3>1
        <4>2. CASE l = 0
          BY <1>12, <3>1, <4>1, <4>2
        <4>3. CASE l > 0
          <5>1. k # 1 /\ k - 1 = l /\ s[l] = st[l]
            BY <1>8, <3>1, <4>3, SMTT(30)
          <5>2. QED
            BY <1>11, <4>1, <4>3, <5>1
        <4>4. QED
          BY <4>2, <4>3
      <3>2. CASE k \in 1 .. l
        <4>1. h.parent[s[k]] = g.parent[st[k]]
          BY <1>4, <1>8, <1>10, <3>2, ZenonT(60)
        <4>2. g.parent[st[k]] = IF k = 1 THEN 0 ELSE st[k - 1]
          BY <1>7, <1>9, <3>2 DEF Stacked
        <4>3. k # 1 => k - 1 \in 1 .. l
          BY <3>2
        <4>4. QED
          BY <1>8, <4>1, <4>2, <4>3
      <3>3. QED
        BY <3>1, <3>2
    <2>3. ASSUME NEW j \in 1 .. (l + 1), NEW k \in 1 .. (l + 1), j < k
          PROVE  h.discover[s[j]] < h.discover[s[k]]
      <3>1. j \in 1 .. l
        BY <2>3
      <3>2. h.discover[s[j]] = g.discover[st[j]] /\ g.discover[st[j]] \in 1 .. t
        BY <1>4, <1>8, <1>10, <3>1, ZenonT(60)
      <3>3. CASE k = l + 1
        <4>1. h.discover[s[k]] = t + 1
          BY <1>4, <1>8, <3>3
        <4>2. QED
          BY <3>2, <4>1, SMTT(30)
      <3>4. CASE k \in 1 .. l
        <4>1. h.discover[s[k]] = g.discover[st[k]]
          BY <1>4, <1>8, <1>10, <3>4, ZenonT(60)
        <4>2. g.discover[st[j]] < g.discover[st[k]]
          BY <1>7, <1>9, <2>3, <3>1, <3>4 DEF Stacked
        <4>3. QED
          BY <3>2, <4>1, <4>2
      <3>5. QED
        BY <3>3, <3>4
    <2>4. QED
      BY <1>8, <2>1, <2>2, <2>3 DEF Stacked
  <1>14. Timed(h, t + 1, n)
    <2>1. t + 1 = Cardinality(Reached(h, n)) + Cardinality(Blackened(h, n))
      <3>1. IsFiniteSet(R) /\ Cardinality(R) \in Nat /\ Cardinality(Blackened(g, n)) \in Nat
        BY CountsAre
      <3>2. Cardinality(R \cup {v}) = Cardinality(R) + 1
        BY <1>5, <3>1, FS_AddElement
      <3>3. t = Cardinality(R) + Cardinality(Blackened(g, n))
        BY <1>9 DEF Timed
      <3>4. QED
        BY <1>5, <1>6, <3>1, <3>2, <3>3
    <2>2. ASSUME NEW w \in Reached(h, n)
          PROVE  /\ h.discover[w] \in 1 .. (t + 1)
                 /\ h.color[w] = "BLACK" => h.finish[w] \in 1 .. (t + 1)
      <3>1. CASE w = v
        BY <1>4, <3>1
      <3>2. CASE w # v
        <4>1. w \in R /\ w \in 1 .. n
          BY <1>5, <3>2
        <4>2. g.discover[w] \in 1 .. t /\ (g.color[w] = "BLACK" => g.finish[w] \in 1 .. t)
          BY <1>9, <4>1 DEF Timed
        <4>3. QED
          BY <1>4, <3>2, <4>1, <4>2, SMTT(30)
      <3>3. QED
        BY <3>1, <3>2
    <2>3. \A w \in 1 .. n : h.color[w] # "BLACK" => h.finish[w] = -1
      BY <1>4, <1>9 DEF Timed
    <2>4. QED
      BY <2>1, <2>2, <2>3 DEF Timed
  <1>15. Enclosed(h, n)
    <2>1. SUFFICES ASSUME NEW w \in Reached(h, n), h.parent[w] # 0
                   PROVE  /\ h.parent[w] \in Reached(h, n)
                          /\ h.discover[h.parent[w]] < h.discover[w]
                          /\ h.color[h.parent[w]] = "BLACK" =>
                               h.color[w] = "BLACK" /\ h.finish[w] <= h.finish[h.parent[w]]
      BY DEF Enclosed
    <2>2. CASE w = v
      <3>1. l > 0 /\ h.parent[w] = st[l] /\ l \in 1 .. l
        BY <1>4, <1>11, <1>12, <2>1, <2>2
      <3>2. PICK u \in 1 .. n : u = st[l]
        BY <1>8, <3>1
      <3>3. u # v /\ u \in R /\ g.color[u] = "GRAY" /\ g.discover[u] \in 1 .. t
        BY <1>10, <3>1, <3>2
      <3>4. h.color[u] = "GRAY" /\ h.discover[u] = g.discover[u]
        BY <1>4, <3>3
      <3>5. QED
        BY <1>4, <1>5, <2>2, <3>1, <3>2, <3>3, <3>4, SMTT(30)
    <2>3. CASE w # v
      <3>1. w \in R /\ w \in 1 .. n
        BY <1>5, <2>3
      <3>2. h.parent[w] = g.parent[w] /\ h.color[w] = g.color[w] /\ h.discover[w] = g.discover[w]
        BY <1>4, <2>3, <3>1
      <3>3. PICK u : u = g.parent[w]
        OBVIOUS
      <3>4. /\ u \in R /\ g.discover[u] < g.discover[w]
            /\ g.color[u] = "BLACK" => g.color[w] = "BLACK" /\ g.finish[w] <= g.finish[u]
        BY <1>9, <2>1, <3>1, <3>2, <3>3 DEF Enclosed
      <3>5. h.color[u] = g.color[u] /\ h.discover[u] = g.discover[u]
        BY <1>4, <1>5, <3>4
      <3>6. QED
        BY <1>4, <1>5, <3>2, <3>3, <3>4, <3>5
    <2>4. QED
      BY <2>2, <2>3
  <1>16. Hangs(h, n)
    <2>1. SUFFICES ASSUME NEW x \in Reached(h, n), NEW w \in Reached(h, n),
                          h.discover[x] < h.discover[w]
                   PROVE  \/ Ended(h, x, h.discover[w]) \/ h.parent[w] = x
                          \/ h.parent[w] # 0 /\ h.discover[x] < h.discover[h.parent[w]]
      BY DEF Hangs
    <2>2. \A y \in R : y \in 1 .. n /\ y # v /\ h.discover[y] = g.discover[y]
                       /\ g.discover[y] \in 1 .. t /\ h.color[y] = g.color[y]
                       /\ h.parent[y] = g.parent[y]
      BY <1>4, <1>5, <1>9 DEF Timed
    <2>3. x \in R
      <3>1. CASE x = v
        <4>1. h.discover[x] = t + 1
          BY <1>4, <3>1
        <4>2. CASE w = v
          BY <2>1, <3>1, <4>2, <1>4
        <4>3. CASE w \in R
          BY <2>1, <2>2, <4>1, <4>3
        <4>4. QED
          BY <1>5, <4>2, <4>3
      <3>2. QED
        BY <1>5, <3>1
    <2>4. CASE w = v
      <3>1. h.discover[w] = t + 1 /\ h.parent[w] = p
        BY <1>4, <2>4
      <3>2. CASE g.color[x] = "BLACK"
        <4>1. g.finish[x] \in 1 .. t
          BY <1>9, <2>3, <3>2 DEF Timed
        <4>2. g.finish[x] < t + 1
          BY <4>1
        <4>3. QED
          BY <1>4, <2>2, <2>3, <3>1, <3>2, <4>2 DEF Ended
      <3>3. CASE g.color[x] # "BLACK"
        <4>1. g.color[x] = "GRAY"
          BY <1>2, <2>2, <2>3, <3>3 DEF Reached, IsDigraph, Colors
        <4>2. PICK k \in 1 .. l : st[k] = x
          BY <1>7, <1>9, <2>2, <2>3, <4>1 DEF Stacked
        <4>3. l > 0 /\ p = st[l] /\ l \in 1 .. l /\ st[l] \in R /\ st[l] \in 1 .. n
          BY <1>8, <1>10, <1>11, SMTT(30)
        <4>4. CASE k = l
          BY <3>1, <4>2, <4>3, <4>4
        <4>5. CASE k # l
          <5>1. k < l
            BY <4>5
          <5>2. g.discover[x] < g.discover[st[l]]
            BY <1>7, <1>9, <4>2, <4>3, <5>1 DEF Stacked
          <5>3. h.discover[x] < h.discover[p]
            BY <2>2, <2>3, <4>3, <5>2
          <5>4. p # 0
            BY <4>3
          <5>5. QED
            BY <3>1, <5>3, <5>4
        <4>6. QED
          BY <4>4, <4>5
      <3>4. QED
        BY <3>2, <3>3
    <2>5. CASE w \in R
      <3>1. g.discover[x] < g.discover[w]
        BY <2>1, <2>2, <2>3, <2>5
      <3>2. \/ Ended(g, x, g.discover[w]) \/ g.parent[w] = x
            \/ g.parent[w] # 0 /\ g.discover[x] < g.discover[g.parent[w]]
        BY <1>9, <2>3, <2>5, <3>1 DEF Hangs
      <3>3. g.parent[w] # 0 => g.parent[w] \in R
        BY <1>9, <2>5 DEF Enclosed
      <3>4. QED
        BY <1>4, <2>2, <2>3, <2>5, <3>2, <3>3 DEF Ended
    <2>6. QED
      BY <1>5, <2>4, <2>5
  <1>17. Followed(h, b, n)
    <2>1. SUFFICES ASSUME NEW w \in Reached(h, n), NEW j \in DOMAIN g.neighbors[w],
                          h.color[w] = "BLACK" \/ j < b[w]
                   PROVE  g.neighbors[w][j] \in Reached(h, n)
      BY <1>4 DEF Followed
    <2>2. CASE w = v
      <3>1. j \in Nat \ {0} /\ j < 1
        <4>1. DOMAIN g.neighbors[w] = 1 .. Len(g.neighbors[w]) /\ Len(g.neighbors[w]) \in Nat
          BY <1>2, <2>2, LenProperties
        <4>2. j < b[w] /\ b[w] = 1
          BY <1>1, <1>4, <2>1, <2>2
        <4>3. QED
          BY <2>2, <4>1, <4>2
      <3>2. QED
        BY <3>1
    <2>3. CASE w # v
      <3>1. w \in R /\ w \in 1 .. n
        BY <1>5, <2>3
      <3>2. g.color[w] = "BLACK" \/ j < a[w] \/ g.neighbors[w][j] = v
        BY <1>1, <1>4, <2>1, <2>3, <3>1 DEF Advanced
      <3>3. g.neighbors[w][j] \in R \/ g.neighbors[w][j] = v
        BY <1>9, <3>1, <3>2 DEF Followed
      <3>4. QED
        BY <1>5, <3>3
    <2>4. QED
      BY <2>2, <2>3
  <1>18. b \in [1 .. n -> Nat]
    BY <1>1
  <1>19. QED
    BY <1>1, <1>4, <1>8, <1>13, <1>14, <1>15, <1>16, <1>17, <1>18 DEF Nested

\* The cursors move past an arc to a vertex that has been reached.
LEMMA SkipNests ==
  ASSUME NEW g, NEW n \in Nat, NEW st, NEW t \in Nat, NEW a, Nested(g, st, a, t, n),
         NEW v \in 1 .. n, g.color[v] # "WHITE",
         NEW c, c \in [1 .. n -> Nat] /\ Advanced(g, a, c, v, n)
  PROVE  Nested(g, st, c, t, n)
  <1>1. v \in Reached(g, n) /\ Reached(g, n) \in SUBSET (1 .. n)
    BY DEF Reached
  <1>2. Followed(g, a, n)
    BY DEF Nested
  <1>3. Followed(g, c, n)
    BY <1>1, <1>2 DEF Followed, Advanced
  <1>4. QED
    BY <1>3 DEF Nested

\* The last call returns, as its cursor is past the end of its list.
LEMMA LeaveNests ==
  ASSUME NEW g, NEW n \in Nat, NEW st, NEW t \in Nat, NEW a, Nested(g, st, a, t, n),
         Len(st) # 0, NEW u \in 1 .. n, u = st[Len(st)], a[u] > Len(g.neighbors[u])
  PROVE  Nested(Finished(g, u, t + 1), SubSeq(st, 1, Len(st) - 1), a, t + 1, n)
  <1>1. PICK h, s : h = Finished(g, u, t + 1) /\ s = SubSeq(st, 1, Len(st) - 1)
    OBVIOUS
  <1>2. st \in Seq(1 .. n) /\ g.neighbors \in [1 .. n -> Seq(1 .. n)]
    BY DEF Nested, IsDigraph
  <1>3. IsDigraph(g, n)
    BY DEF Nested
  <1>4. /\ IsDigraph(h, n) /\ h.neighbors = g.neighbors
        /\ h.parent = g.parent /\ h.discover = g.discover
        /\ h.color[u] = "BLACK" /\ h.finish[u] = t + 1
        /\ \A w \in 1 .. n : w # u => h.color[w] = g.color[w] /\ h.finish[w] = g.finish[w]
    <2>1. PICK x \in Int : x = t + 1
      OBVIOUS
    <2>2. h = Finished(g, u, x)
      BY <1>1, <2>1
    <2>3. BlackIn(h, g, u, x, n)
      BY <1>3, <2>2, FinishedIs
    <2>4. QED
      BY <2>1, <2>3 DEF SameBut, BlackIn
  <1>5. PICK l \in Nat : l = Len(st) /\ l # 0
    BY <1>2, LenProperties
  <1>6. u = st[l] /\ l \in 1 .. l /\ \A k \in 1 .. (l - 1) : k \in 1 .. l
    BY <1>5
  <1>7. \A k \in 1 .. l : st[k] \in 1 .. n
    BY <1>2, <1>5, ElementOfSeq
  <1>8. s \in Seq(1 .. n) /\ Len(s) = l - 1 /\ \A k \in 1 .. (l - 1) : s[k] = st[k]
    <2>1. 1 \in Int /\ l - 1 \in Int /\ s = SubSeq(st, 1, l - 1)
      BY <1>1, <1>5
    <2>2. \A k \in 1 .. (l - 1) : st[k] \in 1 .. n
      BY <1>6, <1>7
    <2>3. /\ s \in Seq(1 .. n)
          /\ Len(s) = IF 1 <= l - 1 THEN (l - 1) - 1 + 1 ELSE 0
          /\ \A k \in 1 .. (l - 1) - 1 + 1 : s[k] = st[1 + k - 1]
      BY <2>1, <2>2, SubSeqProperties
    <2>4. Len(s) = l - 1 /\ \A k \in 1 .. (l - 1) : s[k] = st[k]
      BY <1>5, <2>3
    <2>5. QED
      BY <2>3, <2>4
  <1>9. /\ Stacked(g, st, n) /\ Timed(g, t, n) /\ Enclosed(g, n) /\ Hangs(g, n)
        /\ Followed(g, a, n) /\ a \in [1 .. n -> Nat]
    BY DEF Nested
  <1> DEFINE R == Reached(g, n)
             B == Blackened(g, n)
  <1>10. R \in SUBSET (1 .. n) /\ B \in SUBSET (1 .. n) /\ u \in R /\ u \notin B /\ g.color[u] = "GRAY"
    <2>1. g.color[u] = "GRAY"
      BY <1>5, <1>6, <1>9 DEF Stacked
    <2>2. QED
      BY <2>1 DEF Reached, Blackened
  <1>11. Reached(h, n) = R
    BY <1>4, <1>10 DEF Reached
  <1>12. Blackened(h, n) = B \cup {u}
    BY <1>4 DEF Blackened
  <1>13. \A j, k \in 1 .. l : j < k => g.discover[st[j]] < g.discover[st[k]]
    BY <1>5, <1>9 DEF Stacked
  <1>14. \A w \in 1 .. n : g.discover[w] \in Int
    BY <1>3 DEF IsDigraph
  <1>15. \A k \in 1 .. (l - 1) : st[k] # u
    <2>1. SUFFICES ASSUME NEW k \in 1 .. (l - 1) PROVE st[k] # u
      OBVIOUS
    <2>2. k \in 1 .. l /\ k < l
      BY <1>5
    <2>3. g.discover[st[k]] < g.discover[u] /\ g.discover[u] \in Int
      BY <1>6, <1>13, <1>14, <2>2
    <2>4. QED
      BY <2>3
  <1>16. Stacked(h, s, n)
    <2>1. ASSUME NEW w \in 1 .. n
          PROVE  h.color[w] = "GRAY" <=> \E k \in 1 .. (l - 1) : s[k] = w
      <3>1. CASE w = u
        BY <1>4, <1>8, <1>15, <3>1
      <3>2. CASE w # u
        <4>1. h.color[w] = "GRAY" <=> \E k \in 1 .. l : st[k] = w
          BY <1>4, <1>5, <1>9, <3>2, ZenonT(60) DEF Stacked
        <4>2. \A k \in 1 .. l : k \in 1 .. (l - 1) \/ k = l
          BY <1>5
        <4>3. QED
          BY <1>6, <1>8, <3>2, <4>1, <4>2
      <3>3. QED
        BY <3>1, <3>2
    <2>2. ASSUME NEW k \in 1 .. (l - 1)
          PROVE  h.parent[s[k]] = IF k = 1 THEN 0 ELSE s[k - 1]
      <3>1. g.parent[st[k]] = IF k = 1 THEN 0 ELSE st[k - 1]
        BY <1>5, <1>6, <1>9 DEF Stacked
      <3>2. k # 1 => k - 1 \in 1 .. (l - 1)
        BY <1>5
      <3>3. QED
        BY <1>4, <1>8, <3>1, <3>2
    <2>3. \A j, k \in 1 .. (l - 1) : j < k => h.discover[s[j]] < h.discover[s[k]]
      BY <1>4, <1>6, <1>8, <1>13
    <2>4. QED
      BY <1>8, <2>1, <2>2, <2>3 DEF Stacked
  <1>17. Timed(h, t + 1, n)
    <2>1. t + 1 = Cardinality(Reached(h, n)) + Cardinality(Blackened(h, n))
      <3>1. IsFiniteSet(B) /\ Cardinality(B) \in Nat /\ Cardinality(R) \in Nat
        BY CountsAre
      <3>2. Cardinality(B \cup {u}) = Cardinality(B) + 1
        BY <1>10, <3>1, FS_AddElement
      <3>3. t = Cardinality(R) + Cardinality(B)
        BY <1>9 DEF Timed
      <3>4. QED
        BY <1>11, <1>12, <3>1, <3>2, <3>3
    <2>2. ASSUME NEW w \in Reached(h, n)
          PROVE  /\ h.discover[w] \in 1 .. (t + 1)
                 /\ h.color[w] = "BLACK" => h.finish[w] \in 1 .. (t + 1)
      <3>1. w \in R /\ w \in 1 .. n
        BY <1>10, <1>11
      <3>2. g.discover[w] \in 1 .. t /\ (g.color[w] = "BLACK" => g.finish[w] \in 1 .. t)
        BY <1>9, <3>1 DEF Timed
      <3>3. CASE w = u
        BY <1>4, <3>2, <3>3
      <3>4. CASE w # u
        BY <1>4, <3>1, <3>2, <3>4, SMTT(30)
      <3>5. QED
        BY <3>3, <3>4
    <2>3. \A w \in 1 .. n : h.color[w] # "BLACK" => h.finish[w] = -1
      BY <1>4, <1>9 DEF Timed
    <2>4. QED
      BY <2>1, <2>2, <2>3 DEF Timed
  <1>18. Enclosed(h, n)
    <2>1. SUFFICES ASSUME NEW w \in R, g.parent[w] # 0
                   PROVE  /\ g.parent[w] \in R
                          /\ g.discover[g.parent[w]] < g.discover[w]
                          /\ h.color[g.parent[w]] = "BLACK" =>
                               h.color[w] = "BLACK" /\ h.finish[w] <= h.finish[g.parent[w]]
      BY <1>4, <1>11 DEF Enclosed
    <2>2. PICK p : p = g.parent[w]
      OBVIOUS
    <2>3. /\ p \in R /\ g.discover[p] < g.discover[w]
          /\ g.color[p] = "BLACK" => g.color[w] = "BLACK" /\ g.finish[w] <= g.finish[p]
      BY <1>9, <2>1, <2>2 DEF Enclosed
    <2>4. p \in 1 .. n /\ w \in 1 .. n
      BY <1>10, <2>3
    <2>5. p # w
      BY <1>14, <2>3, <2>4
    <2>6. h.color[p] = "BLACK" => h.color[w] = "BLACK" /\ h.finish[w] <= h.finish[p]
      <3>1. CASE p = u
        <4>1. w # u
          BY <2>5, <3>1
        <4>2. g.color[w] = "BLACK"
          <5>1. ASSUME g.color[w] # "BLACK" PROVE FALSE
            <6>1. g.color[w] = "GRAY"
              BY <1>3, <2>1, <2>4, <5>1 DEF Reached, IsDigraph, Colors
            <6>2. PICK k \in 1 .. l : st[k] = w
              BY <1>5, <1>9, <2>4, <6>1 DEF Stacked
            <6>3. g.parent[w] = IF k = 1 THEN 0 ELSE st[k - 1]
              BY <1>5, <1>9, <6>2 DEF Stacked
            <6>4. k # 1 /\ st[k - 1] = u
              BY <2>1, <2>2, <3>1, <6>3
            <6>5. k - 1 \in 1 .. (l - 1)
              BY <1>5, <6>4
            <6>6. QED
              BY <1>15, <6>4, <6>5
          <5>2. QED
            BY <5>1
        <4>3. g.finish[w] \in 1 .. t
          BY <1>9, <2>1, <4>2 DEF Timed
        <4>4. h.finish[p] = t + 1 /\ h.finish[w] = g.finish[w] /\ h.color[w] = "BLACK"
          BY <1>4, <2>4, <3>1, <4>1, <4>2
        <4>5. QED
          BY <4>3, <4>4
      <3>2. CASE p # u
        <4>1. h.color[p] = g.color[p] /\ h.finish[p] = g.finish[p]
          BY <1>4, <2>4, <3>2
        <4>2. g.color[p] = "BLACK" => w # u
          BY <1>10, <2>3
        <4>3. QED
          BY <1>4, <2>3, <2>4, <4>1, <4>2
      <3>3. QED
        BY <3>1, <3>2
    <2>7. QED
      BY <2>2, <2>3, <2>6
  <1>19. Hangs(h, n)
    <2>1. SUFFICES ASSUME NEW x \in R, NEW w \in R, g.discover[x] < g.discover[w]
                   PROVE  \/ Ended(h, x, g.discover[w]) \/ g.parent[w] = x
                          \/ g.parent[w] # 0 /\ g.discover[x] < g.discover[g.parent[w]]
      BY <1>4, <1>11 DEF Hangs
    <2>2. \/ Ended(g, x, g.discover[w]) \/ g.parent[w] = x
          \/ g.parent[w] # 0 /\ g.discover[x] < g.discover[g.parent[w]]
      BY <1>9, <2>1 DEF Hangs
    <2>3. Ended(g, x, g.discover[w]) => Ended(h, x, g.discover[w])
      BY <1>4, <1>10 DEF Ended
    <2>4. QED
      BY <2>2, <2>3
  <1>20. Followed(h, a, n)
    <2>1. SUFFICES ASSUME NEW w \in R, NEW j \in DOMAIN g.neighbors[w],
                          h.color[w] = "BLACK" \/ j < a[w]
                   PROVE  g.neighbors[w][j] \in R
      BY <1>4, <1>11 DEF Followed
    <2>2. w = u => j < a[w]
      <3>1. SUFFICES ASSUME w = u PROVE j < a[u]
        OBVIOUS
      <3>2. DOMAIN g.neighbors[u] = 1 .. Len(g.neighbors[u]) /\ Len(g.neighbors[u]) \in Nat
        BY <1>2, LenProperties
      <3>3. a[u] \in Nat
        BY <1>9
      <3>4. PICK m \in Nat, x \in Nat : m = Len(g.neighbors[u]) /\ x = a[u]
        BY <3>2, <3>3
      <3>5. j \in 1 .. m /\ x > m
        BY <3>1, <3>2, <3>4
      <3>6. QED
        BY <3>4, <3>5
    <2>3. w \in 1 .. n
      BY <1>10
    <2>4. g.color[w] = "BLACK" \/ j < a[w]
      BY <1>4, <2>1, <2>2, <2>3
    <2>5. QED
      BY <1>9, <2>4 DEF Followed
  <1>21. QED
    BY <1>1, <1>4, <1>8, <1>9, <1>16, <1>17, <1>18, <1>19, <1>20 DEF Nested

-----------------------------------------------------------------------------
(* What DFS records, beside the nesting: s is the list of vertices that it *)
(* is given and k the next in it.                                          *)
\* No two times are the same, and a vertex is finished after what it points to
\* has been discovered.
Dated(g, n) ==
  /\ \A v, w \in Reached(g, n) : g.discover[v] = g.discover[w] => v = w
  /\ \A v, w \in Blackened(g, n) : g.finish[v] = g.finish[w] => v = w
  /\ \A v \in Blackened(g, n) : g.discover[v] < g.finish[v]
  /\ \A v \in Blackened(g, n), w \in 1 .. n :
       IsArc(g, v, w) => g.discover[w] < g.finish[v]
  /\ \A w \in Reached(g, n) : g.parent[w] # 0 => IsArc(g, g.parent[w], w)

\* When x is found after the root r, or not yet, it comes after r in s.
After(s, r, x, n) == \E i, j \in 1 .. n : s[i] = r /\ s[j] = x /\ i <= j

Rooted(g, s, n) ==
  \A r \in Reached(g, n), x \in 1 .. n :
    g.parent[r] = 0 /\ (x \in Reached(g, n) => g.discover[r] <= g.discover[x])
      => After(s, r, x, n)

Tried(g, s, k, n) == \A i \in 1 .. n : i < k => s[i] \in Reached(g, n)

\* A discovery keeps times apart and the arcs of black vertices dated.
LEMMA EnterDates ==
  ASSUME NEW g, NEW n \in Nat, NEW st, NEW t \in Nat, NEW a, Nested(g, st, a, t, n), Dated(g, n),
         NEW v \in 1 .. n, g.color[v] = "WHITE", NEW p \in 0 .. n, p # 0 => IsArc(g, p, v),
         NEW h, h = Discovered(g, v, p, t + 1)
  PROVE  Dated(h, n) /\ Reached(h, n) = Reached(g, n) \cup {v}
  <1>1. IsDigraph(g, n) /\ Timed(g, t, n) /\ Followed(g, a, n)
    BY DEF Nested
  <1>2. /\ h.neighbors = g.neighbors /\ h.finish = g.finish
        /\ h.color[v] = "GRAY" /\ h.discover[v] = t + 1 /\ h.parent[v] = p
        /\ \A w \in 1 .. n : w # v => /\ h.color[w] = g.color[w] /\ h.parent[w] = g.parent[w]
                                      /\ h.discover[w] = g.discover[w]
    <2>1. PICK x \in Int : x = t + 1
      OBVIOUS
    <2>2. IsDigraph(g, n)
      BY <1>1
    <2>3. GrayIn(h, g, v, p, x, n)
      BY <2>1, <2>2, DiscoveredIs
    <2>4. QED
      BY <2>1, <2>3 DEF SameBut, GrayIn
  <1> DEFINE R == Reached(g, n)
             B == Blackened(g, n)
  <1>3. Reached(h, n) = R \cup {v} /\ v \notin R /\ R \in SUBSET (1 .. n)
    BY <1>2 DEF Reached
  <1>4. Blackened(h, n) = B /\ v \notin B /\ B \in SUBSET R
    BY <1>2 DEF Blackened, Reached
  <1>5. \A x, y : IsArc(h, x, y) <=> IsArc(g, x, y)
    BY <1>2 DEF IsArc
  <1>6. \A w \in R : g.discover[w] \in Int /\ g.discover[w] < t + 1 /\ w # v
    BY <1>1, <1>3 DEF Timed
  <1>7. \A w \in R : h.discover[w] = g.discover[w] /\ h.parent[w] = g.parent[w]
    BY <1>2, <1>3
  <1>8. \A x \in B, w \in 1 .. n : IsArc(g, x, w) => w \in R
    BY <1>1, <1>4 DEF Followed, Blackened, IsArc
  <1> HIDE DEF R, B
  <1>9. ASSUME NEW x \in R \cup {v}, NEW w \in R \cup {v}, h.discover[x] = h.discover[w]
        PROVE  x = w
    <2>1. ASSUME x \in R, w \in R PROVE x = w
      BY <1>7, <1>9, <2>1 DEF Dated, R
    <2>2. QED
      BY <1>2, <1>6, <1>7, <1>9, <2>1
  <1>10. \A x \in B, w \in 1 .. n : IsArc(h, x, w) => h.discover[w] < h.finish[x]
    BY <1>2, <1>5, <1>7, <1>8 DEF Dated, B
  <1>11. \A x \in B : h.discover[x] < h.finish[x]
    BY <1>2, <1>4, <1>7 DEF Dated, B
  <1>12. \A w \in R \cup {v} : h.parent[w] # 0 => IsArc(h, h.parent[w], w)
    BY <1>2, <1>5, <1>7 DEF Dated, R
  <1>13. \A x, w \in B : h.finish[x] = h.finish[w] => x = w
    BY <1>2 DEF Dated, B
  <1>14. QED
    BY <1>3, <1>4, <1>9, <1>10, <1>11, <1>12, <1>13 DEF Dated, R

\* So does the end of a call, when all neighbours have been tried.
LEMMA LeaveDates ==
  ASSUME NEW g, NEW n \in Nat, NEW st, NEW t \in Nat, NEW a, Nested(g, st, a, t, n), Dated(g, n),
         NEW u \in 1 .. n, g.color[u] = "GRAY", a[u] > Len(g.neighbors[u]),
         NEW h, h = Finished(g, u, t + 1)
  PROVE  /\ Dated(h, n) /\ Reached(h, n) = Reached(g, n)
         /\ h.parent = g.parent /\ h.discover = g.discover
  <1>1. IsDigraph(g, n)
    BY DEF Nested
  <1>2. Timed(g, t, n) /\ Followed(g, a, n) /\ a \in [1 .. n -> Nat]
    BY DEF Nested
  <1>3. /\ h.neighbors = g.neighbors /\ h.parent = g.parent /\ h.discover = g.discover
        /\ h.color[u] = "BLACK" /\ h.finish[u] = t + 1
        /\ \A w \in 1 .. n : w # u => h.color[w] = g.color[w] /\ h.finish[w] = g.finish[w]
    <2>1. PICK x \in Int : x = t + 1
      OBVIOUS
    <2>2. h = Finished(g, u, x)
      BY <2>1
    <2>3. BlackIn(h, g, u, x, n)
      BY <1>1, <2>2, FinishedIs
    <2>4. QED
      BY <2>1, <2>3 DEF SameBut, BlackIn
  <1> DEFINE R == Reached(g, n)
             B == Blackened(g, n)
  <1>4. Reached(h, n) = R /\ u \in R
    BY <1>3 DEF Reached
  <1>5. Blackened(h, n) = B \cup {u} /\ u \notin B /\ B \in SUBSET R /\ B \in SUBSET (1 .. n)
    BY <1>3 DEF Blackened, Reached
  <1>6. \A x, y : IsArc(h, x, y) <=> IsArc(g, x, y)
    BY <1>3 DEF IsArc
  <1>7. \A w \in R : g.discover[w] \in Int /\ g.discover[w] < t + 1
    BY <1>2 DEF Timed
  <1>8. \A w \in B : g.finish[w] \in Int /\ g.finish[w] < t + 1
    <2>1. \A w \in B : w \in R /\ g.color[w] = "BLACK"
      BY <1>5 DEF Blackened
    <2>2. \A w \in B : g.finish[w] \in 1 .. t
      BY <1>2, <2>1 DEF Timed
    <2>3. QED
      BY <2>2
  <1>9. \A w \in 1 .. n : IsArc(g, u, w) => w \in R
    <2>1. SUFFICES ASSUME NEW j \in DOMAIN g.neighbors[u] PROVE g.neighbors[u][j] \in R
      BY DEF IsArc
    <2>2. PICK L \in Seq(1 .. n) : L = g.neighbors[u]
      BY <1>1 DEF IsDigraph
    <2>3. DOMAIN L = 1 .. Len(L) /\ Len(L) \in Nat
      BY LenProperties
    <2>4. PICK c \in Nat : c = a[u]
      BY <1>2
    <2>5. j < c
      BY <2>2, <2>3, <2>4
    <2>6. QED
      BY <1>2, <1>4, <2>4, <2>5 DEF Followed
  <1>10. \A x \in B : h.finish[x] = g.finish[x]
    BY <1>3, <1>5
  <1> HIDE DEF R, B
  <1>11. \A x \in B \cup {u}, w \in 1 .. n : IsArc(h, x, w) => h.discover[w] < h.finish[x]
    BY <1>3, <1>6, <1>7, <1>9, <1>10 DEF Dated, B
  <1>12. \A x \in B \cup {u} : h.discover[x] < h.finish[x]
    BY <1>3, <1>4, <1>7, <1>10 DEF Dated, B
  <1>13. \A w \in R : h.parent[w] # 0 => IsArc(h, h.parent[w], w)
    BY <1>3, <1>6 DEF Dated, R
  <1>14. ASSUME NEW x \in B \cup {u}, NEW w \in B \cup {u}, h.finish[x] = h.finish[w]
         PROVE  x = w
    <2>1. ASSUME x \in B, w \in B PROVE x = w
      BY <1>10, <1>14, <2>1 DEF Dated, B
    <2>2. QED
      BY <1>3, <1>8, <1>10, <1>14, <2>1
  <1>15. \A x, w \in R : h.discover[x] = h.discover[w] => x = w
    BY <1>3 DEF Dated, R
  <1>16. QED
    BY <1>3, <1>4, <1>5, <1>11, <1>12, <1>13, <1>14, <1>15 DEF Dated, R

\* A root is entered when all before it in s have been tried.
LEMMA EnterRoots ==
  ASSUME NEW g, NEW n \in Nat, NEW t \in Nat, NEW h, NEW s, Onto(s, n), Rooted(g, s, n),
         NEW v \in 1 .. n, v \notin Reached(g, n), Reached(h, n) = Reached(g, n) \cup {v},
         \A w \in 1 .. n : w # v => h.parent[w] = g.parent[w] /\ h.discover[w] = g.discover[w],
         h.discover[v] = t + 1, \A w \in Reached(g, n) : g.discover[w] \in 1 .. t,
         h.parent[v] = 0 => \E i \in 1 .. n : s[i] = v /\ Tried(g, s, i, n)
  PROVE  Rooted(h, s, n)
  <1> DEFINE R == Reached(g, n)
  <1>1. R \in SUBSET (1 .. n)
    BY DEF Reached
  <1>2. \A w \in R : w # v /\ h.parent[w] = g.parent[w] /\ h.discover[w] = g.discover[w]
    BY <1>1
  <1>3. \A w \in R : g.discover[w] \in Int /\ g.discover[w] < t + 1
    OBVIOUS
  <1> HIDE DEF R
  <1>4. SUFFICES ASSUME NEW r \in R \cup {v}, NEW x \in 1 .. n, h.parent[r] = 0,
                        x \in R \cup {v} => h.discover[r] <= h.discover[x]
                 PROVE  After(s, r, x, n)
    BY DEF Rooted, R
  <1>5. CASE r = v
    <2>1. PICK i \in 1 .. n : s[i] = v /\ Tried(g, s, i, n)
      BY <1>4, <1>5
    <2>2. PICK j \in 1 .. n : s[j] = x
      BY DEF Onto
    <2>3. CASE x = v
      BY <1>5, <2>1, <2>3 DEF After
    <2>4. CASE x # v
      <3>1. x \notin R
        BY <1>2, <1>3, <1>4, <1>5
      <3>2. ~(j < i)
        BY <2>1, <2>2, <3>1 DEF Tried, R
      <3>3. i <= j
        BY <3>2
      <3>4. QED
        BY <1>5, <2>1, <2>2, <3>3 DEF After
    <2>5. QED
      BY <2>3, <2>4
  <1>6. CASE r # v
    <2>1. r \in R /\ g.parent[r] = 0
      BY <1>2, <1>4, <1>6
    <2>2. x \in R => g.discover[r] <= g.discover[x]
      BY <1>2, <1>4, <2>1
    <2>3. QED
      BY <2>1, <2>2 DEF Rooted, R
  <1>7. QED
    BY <1>5, <1>6

\* What is reached has been reached whatever is reached next.
LEMMA TriesMore ==
  ASSUME NEW g, NEW h, NEW s, NEW k, NEW n \in Nat,
         Tried(g, s, k, n), Reached(g, n) \subseteq Reached(h, n)
  PROVE  Tried(h, s, k, n)
  BY DEF Tried

\* The cursor may pass a vertex that has been found.
LEMMA TriesNext ==
  ASSUME NEW g, NEW s, NEW k \in Nat, NEW n \in Nat,
         Tried(g, s, k, n), s[k] \in Reached(g, n)
  PROVE  Tried(g, s, k + 1, n)
  <1>1. SUFFICES ASSUME NEW i \in 1 .. n, i < k + 1 PROVE s[i] \in Reached(g, n)
    BY DEF Tried
  <1>2. i < k \/ i = k
    BY <1>1
  <1>3. QED
    BY <1>2 DEF Tried

Recorded(g, s, k, n) == Onto(s, n) /\ Dated(g, n) /\ Rooted(g, s, n) /\ Tried(g, s, k, n)

\* A discovery, of a root or along an arc, keeps the record of the search.
LEMMA EnterSearches ==
  ASSUME NEW g, NEW n \in Nat, NEW st, NEW t \in Nat, NEW a, Nested(g, st, a, t, n),
         NEW s, NEW k, Recorded(g, s, k, n),
         NEW v \in 1 .. n, g.color[v] = "WHITE", NEW p \in 0 .. n, p # 0 => IsArc(g, p, v),
         p = 0 => \E i \in 1 .. n : s[i] = v /\ Tried(g, s, i, n),
         NEW h, h = Discovered(g, v, p, t + 1)
  PROVE  Recorded(h, s, k, n) /\ v \in Reached(h, n)
  <1>1. Dated(g, n) /\ Onto(s, n) /\ Rooted(g, s, n) /\ Tried(g, s, k, n)
    BY DEF Recorded
  <1>2. Dated(h, n) /\ Reached(h, n) = Reached(g, n) \cup {v}
    BY <1>1, EnterDates
  <1>3. /\ h.discover[v] = t + 1 /\ h.parent[v] = p
        /\ \A w \in 1 .. n : w # v => h.parent[w] = g.parent[w] /\ h.discover[w] = g.discover[w]
    <2>1. PICK x \in Int : x = t + 1
      OBVIOUS
    <2>2. IsDigraph(g, n)
      BY DEF Nested
    <2>3. GrayIn(h, g, v, p, x, n)
      BY <2>1, <2>2, DiscoveredIs
    <2>4. QED
      BY <2>1, <2>3 DEF SameBut, GrayIn
  <1>4. \A w \in Reached(g, n) : g.discover[w] \in 1 .. t
    BY DEF Nested, Timed
  <1>5. v \notin Reached(g, n)
    BY DEF Reached
  <1>6. Rooted(h, s, n)
    BY <1>1, <1>2, <1>3, <1>4, <1>5, EnterRoots
  <1>7. Tried(h, s, k, n)
    BY <1>1, <1>2, TriesMore
  <1>8. QED
    BY <1>1, <1>2, <1>6, <1>7 DEF Recorded

\* So does the end of a call.
LEMMA LeaveSearches ==
  ASSUME NEW g, NEW n \in Nat, NEW st, NEW t \in Nat, NEW a, Nested(g, st, a, t, n),
         NEW s, NEW k, Recorded(g, s, k, n),
         NEW u \in 1 .. n, g.color[u] = "GRAY", a[u] > Len(g.neighbors[u]),
         NEW h, h = Finished(g, u, t + 1)
  PROVE  Recorded(h, s, k, n)
  <1>1. Dated(g, n) /\ Onto(s, n) /\ Rooted(g, s, n) /\ Tried(g, s, k, n)
    BY DEF Recorded
  <1>2. Dated(h, n) /\ Reached(h, n) = Reached(g, n) /\ h.parent = g.parent /\ h.discover = g.discover
    BY <1>1, LeaveDates
  <1>3. Rooted(h, s, n) /\ Tried(h, s, k, n)
    BY <1>1, <1>2 DEF Rooted, Tried
  <1>4. QED
    BY <1>1, <1>2, <1>3 DEF Recorded

-----------------------------------------------------------------------------
(* Where a search ends                                                     *)
LEMMA FreshSearches ==
  ASSUME NEW n \in Nat, NEW g, \A v \in 1 .. n : g.color[v] = "WHITE", NEW s, Onto(s, n)
  PROVE  Recorded(g, s, 1, n)
  <1>1. Reached(g, n) = {} /\ Blackened(g, n) = {}
    BY DEF Reached, Blackened
  <1>2. Dated(g, n) /\ Rooted(g, s, n)
    BY <1>1 DEF Dated, Rooted
  <1>3. Tried(g, s, 1, n)
    <2>1. \A i \in 1 .. n : ~(i < 1)
      OBVIOUS
    <2>2. QED
      BY <2>1 DEF Tried
  <1>4. QED
    BY <1>2, <1>3 DEF Recorded

\* When every vertex has been tried and none is being visited.
LEMMA SearchEnds ==
  ASSUME NEW n \in Nat, NEW g, NEW a, NEW t, Nested(g, <<>>, a, t, n),
         NEW s, NEW k \in Nat, k > n, Recorded(g, s, k, n)
  PROVE  Explored(g, n) /\ Reached(g, n) = 1 .. n
  <1>1. \A v \in 1 .. n : v \in Reached(g, n)
    <2>1. SUFFICES ASSUME NEW v \in 1 .. n PROVE v \in Reached(g, n)
      OBVIOUS
    <2>2. PICK i \in 1 .. n : s[i] = v
      BY DEF Recorded, Onto
    <2>3. i < k
      OBVIOUS
    <2>4. QED
      BY <2>2, <2>3 DEF Recorded, Tried
  <1>2. \A v \in 1 .. n : g.color[v] = "BLACK"
    <2>1. SUFFICES ASSUME NEW v \in 1 .. n PROVE g.color[v] = "BLACK"
      OBVIOUS
    <2>2. g.color[v] # "GRAY"
      <3>1. 1 .. Len(<<>>) = {}
        BY AtTheStart
      <3>2. QED
        BY <3>1 DEF Nested, Stacked
    <2>3. g.color[v] # "WHITE"
      BY <1>1 DEF Reached
    <2>4. g.color[v] \in Colors
      BY DEF Nested, IsDigraph
    <2>5. QED
      BY <2>2, <2>3, <2>4 DEF Colors
  <1>3. Reached(g, n) = 1 .. n /\ Blackened(g, n) = 1 .. n
    BY <1>1, <1>2 DEF Reached, Blackened
  <1>4. Dated(g, n)
    BY DEF Recorded
  <1>5. Timed(g, t, n) /\ Enclosed(g, n) /\ Hangs(g, n)
    BY DEF Nested
  <1>6. \A v \in 1 .. n : /\ g.discover[v] \in Nat /\ g.finish[v] \in Nat
                          /\ g.discover[v] < g.finish[v]
    <2>1. \A v \in 1 .. n : g.discover[v] \in 1 .. t /\ g.finish[v] \in 1 .. t
      BY <1>2, <1>3, <1>5 DEF Timed
    <2>2. t \in Nat
      <3>1. /\ Cardinality(Reached(g, n)) \in 0 .. n /\ Cardinality(Blackened(g, n)) \in 0 .. n
            /\ t = Cardinality(Reached(g, n)) + Cardinality(Blackened(g, n))
        BY <1>5, CountsAre DEF Timed
      <3>2. QED
        BY <3>1
    <2>3. \A v \in 1 .. n : g.discover[v] < g.finish[v]
      BY <1>3, <1>4 DEF Dated
    <2>4. QED
      BY <2>1, <2>2, <2>3
  <1>7. /\ \A v, w \in 1 .. n : g.discover[v] = g.discover[w] => v = w
        /\ \A v, w \in 1 .. n : g.finish[v] = g.finish[w] => v = w
        /\ \A v, w \in 1 .. n : IsArc(g, v, w) => g.discover[w] < g.finish[v]
        /\ \A w \in 1 .. n : g.parent[w] # 0 => IsArc(g, g.parent[w], w)
    BY <1>3, <1>4 DEF Dated
  <1>8. \A w \in 1 .. n : g.parent[w] # 0 =>
          /\ g.parent[w] \in 1 .. n
          /\ g.discover[g.parent[w]] < g.discover[w]
          /\ g.finish[w] <= g.finish[g.parent[w]]
    BY <1>2, <1>3, <1>5 DEF Enclosed
  <1>9. \A v, w \in 1 .. n : g.discover[v] < g.discover[w] =>
          \/ g.finish[v] < g.discover[w]
          \/ g.parent[w] = v
          \/ g.parent[w] # 0 /\ g.discover[v] < g.discover[g.parent[w]]
    BY <1>3, <1>5 DEF Hangs, Ended
  <1>10. QED
    BY <1>3, <1>6, <1>7, <1>8, <1>9 DEF Explored

\* In a list that falls by f, a root has a greater f than what is found after it.
LEMMA RootsComeFirst ==
  ASSUME NEW n \in Nat, NEW g, NEW s, Rooted(g, s, n), Reached(g, n) = 1 .. n,
         NEW f \in [1 .. n -> Int], Falls(s, f, n)
  PROVE  RootsFirst(g, f, n)
  <1>1. SUFFICES ASSUME NEW r \in 1 .. n, NEW x \in 1 .. n, g.parent[r] = 0,
                        g.discover[r] <= g.discover[x]
                 PROVE  f[r] >= f[x]
    BY DEF RootsFirst
  <1>2. After(s, r, x, n)
    BY <1>1 DEF Rooted
  <1>3. PICK i \in 1 .. n, j \in 1 .. n : s[i] = r /\ s[j] = x /\ i <= j
    BY <1>2 DEF After
  <1>4. CASE i = j
    BY <1>3, <1>4
  <1>5. CASE i # j
    <2>1. i < j
      BY <1>3, <1>5
    <2>2. QED
      BY <1>3, <2>1 DEF Falls
  <1>6. QED
    BY <1>4, <1>5

\* A list sorted to the end is ranked by f, the greatest first.
LEMMA SortingRanks ==
  ASSUME NEW n \in Nat, NEW s, Onto(s, n), NEW q, NEW f, Sorts(q, s, f, n, n)
  PROVE  Ranked(q, f, n)
  <1>1. ASSUME NEW v \in 1 .. n PROVE \E i \in 1 .. n : q[i] = v
    <2>1. PICK k \in 1 .. n : s[k] = v
      BY DEF Onto
    <2>2. Has(q, n, s[k])
      BY DEF Sorts
    <2>3. QED
      BY <2>1, <2>2 DEF Has
  <1>2. QED
    BY <1>1 DEF Sorts, Ranked, Onto
=============================================================================

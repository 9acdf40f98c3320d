---------------------------- MODULE ListADTProofs ----------------------------
(***************************************************************************)
(* Proofs about the list of List.c, for any finite set of nodes, any       *)
(* number of lists and any elements.                                       *)
(*                                                                         *)
(* The nodes of a list are given a row: a function from the positions to   *)
(* the nodes.  The invariant says that there is a row for each list that   *)
(* agrees with all its links, and that the rows divide up the heap         *)
(* (Sound).  Every call that changes the links puts a node into one row or *)
(* takes one out (PuttingIn, TakingOut), at whatever position.  What the   *)
(* loops of List.c see, the walk from the front along next, is then the    *)
(* row, by induction on the number of steps (WalkIsRow).                   *)
(***************************************************************************)
EXTENDS ListADTProperties, CommonLemmas, FiniteSetTheorems, FunctionTheorems,
        SequenceTheorems, TLAPS

Pointers == Nodes \cup {NULL}
Structs  == [length : Nat, index : Int, front : Pointers, back : Pointers,
             cursor : Pointers]
Cells    == [data : Values, next : Pointers, prev : Pointers]

\* The node at position i of the row c of n nodes.
At(c, n, i) == IF i \in 0 .. (n - 1) THEN c[i] ELSE NULL

\* The links among the nodes of the row c of n nodes agree with c.
Linked(h, c, n) ==
  /\ c \in [0 .. (n - 1) -> DOMAIN h]
  /\ \A i, j \in 0 .. (n - 1) : c[i] = c[j] => i = j
  /\ \A i \in 0 .. (n - 1) : /\ h[c[i]].next = At(c, n, i + 1)
                             /\ h[c[i]].prev = At(c, n, i - 1)

\* The fields of the struct l agree with the row c.
Holds(l, c) ==
  /\ l \in Structs
  /\ l.front = At(c, l.length, 0)
  /\ l.back = At(c, l.length, l.length - 1)
  /\ l.index \in -1 .. (l.length - 1)
  /\ l.cursor # NULL => l.index >= 0 /\ l.cursor = c[l.index]

Strung(l, h, c) == Linked(h, c, l.length) /\ Holds(l, c)

NodesOf(c, n) == {c[i] : i \in 0 .. (n - 1)}

\* The nodes of a list, given its row.
Own(l, c) == IF l = NULL THEN {} ELSE NodesOf(c, l.length)

Stored(h) == \A n \in DOMAIN h : n \in Nodes /\ h[n] \in Cells

\* The rows agree with the lists and the heap, and divide up the heap.
Sound(ls, h, rows) ==
  /\ DOMAIN ls = Lists /\ ls = [L \in Lists |-> ls[L]]
  /\ Stored(h)
  /\ \A L \in Lists : ls[L] # NULL => Strung(ls[L], h, rows[L])
  /\ \A K, L \in Lists : K # L => Own(ls[K], rows[K]) \cap Own(ls[L], rows[L]) = {}
  /\ DOMAIN h = UNION {Own(ls[L], rows[L]) : L \in Lists}

IInv ==
  /\ process \in {"running", "exited", "crashed"}
  /\ \E rows : Sound(list, heap, rows)

-----------------------------------------------------------------------------
(* Walking along next                                                      *)
WalkIn(l, h) ==
  LET node[i \in Nat] == IF i = 0 THEN l.front
                         ELSE IF node[i - 1] = NULL THEN NULL
                         ELSE h[node[i - 1]].next
  IN  node

LEMMA WalkIsRow ==
  ASSUME NEW l, NEW h, NEW c, Strung(l, h, c), Stored(h)
  PROVE  \A i \in Nat : WalkIn(l, h)[i] = At(c, l.length, i)
  <1> DEFINE n == l.length
             Along(f) == [i \in Nat |-> IF i = 0 THEN l.front
                                        ELSE IF f[i - 1] = NULL THEN NULL
                                        ELSE h[f[i - 1]].next]
             w == [i \in Nat |-> At(c, n, i)]
  <1>1. n \in Nat /\ l.front = At(c, n, 0)
    BY DEF Strung, Holds, Structs
  <1>2. ASSUME NEW i \in Nat \ {0}
        PROVE  At(c, n, i) = IF At(c, n, i - 1) = NULL THEN NULL
                             ELSE h[At(c, n, i - 1)].next
    <2> HIDE DEF n
    <2>1. CASE i - 1 \in 0 .. (n - 1)
      <3>1. c[i - 1] \in DOMAIN h /\ h[c[i - 1]].next = At(c, n, (i - 1) + 1)
        BY <2>1 DEF Strung, Linked, n
      <3>2. c[i - 1] # NULL
        BY <3>1, ListAssumption DEF Stored
      <3>3. (i - 1) + 1 = i
        BY <1>2
      <3>4. QED
        BY <2>1, <3>1, <3>2, <3>3 DEF At
    <2>2. CASE i - 1 \notin 0 .. (n - 1)
      <3>1. i \notin 0 .. (n - 1)
        BY <1>1, <2>2
      <3>2. QED
        BY <2>2, <3>1 DEF At
    <2>3. QED
      BY <2>1, <2>2
  <1>3. w = Along(w)
    <2> HIDE DEF n
    <2>1. \A i \in Nat : i # 0 => w[i - 1] = At(c, n, i - 1)
      OBVIOUS
    <2>2. ASSUME NEW i \in Nat
          PROVE  w[i] = Along(w)[i]
      BY <1>1, <1>2, <2>1
    <2>3. QED
      BY <2>2
  <1>4. WalkIn(l, h) = CHOOSE f : f = Along(f)
    BY DEF WalkIn
  <1>5. WalkIn(l, h) = Along(WalkIn(l, h))
    <2> HIDE DEF Along, w
    <2>1. QED
      BY <1>3, <1>4
  <1>6. ASSUME NEW f, f = Along(f)
        PROVE  \A i \in Nat : f[i] = At(c, n, i)
    <2> DEFINE S == {i \in Nat : f[i] = At(c, n, i)}
    <2> HIDE DEF n
    <2>1. f[0] = l.front /\ \A i \in Nat \ {0} :
             f[i] = IF f[i - 1] = NULL THEN NULL ELSE h[f[i - 1]].next
      BY <1>6
    <2>2. 0 \in S
      BY <1>1, <2>1
    <2>3. ASSUME NEW i \in S PROVE i + 1 \in S
      <3>1. i + 1 \in Nat \ {0} /\ (i + 1) - 1 = i
        OBVIOUS
      <3>2. QED
        BY <1>2, <2>1, <3>1
    <2>4. S \in SUBSET Nat
      OBVIOUS
    <2> HIDE DEF S
    <2>5. S = Nat
      BY <2>2, <2>3, <2>4, EveryNat
    <2>6. QED
      BY <2>5 DEF S
  <1> HIDE DEF Along, w
  <1>7. QED
    BY <1>5, <1>6

-----------------------------------------------------------------------------
(* Putting a node into a row, and taking one out                           *)

\* The heap h2 is h with the node x put between p and q (or an end).
PutIn(h, h2, x, d, p, q) ==
  /\ x \in Nodes \ DOMAIN h /\ d \in Values
  /\ DOMAIN h2 = DOMAIN h \cup {x}
  /\ h2[x] \in Cells /\ h2[x].data = d /\ h2[x].next = q /\ h2[x].prev = p
  /\ \A m \in DOMAIN h :
       /\ h2[m] \in Cells /\ h2[m].data = h[m].data
       /\ h2[m].next = IF m = p THEN x ELSE h[m].next
       /\ h2[m].prev = IF m = q THEN x ELSE h[m].prev

Put(c, n, k, x) ==
  [i \in 0 .. n |-> IF i < k THEN c[i] ELSE IF i = k THEN x ELSE c[i - 1]]

\* The heap h2 is h without the node x, which was between p and q.
TakeOut(h, h2, x, p, q) ==
  /\ x \in DOMAIN h
  /\ DOMAIN h2 = DOMAIN h \ {x}
  /\ \A m \in DOMAIN h2 :
       /\ h2[m] \in Cells /\ h2[m].data = h[m].data
       /\ h2[m].next = IF m = p THEN q ELSE h[m].next
       /\ h2[m].prev = IF m = q THEN p ELSE h[m].prev

Cut(c, n, k) == [i \in 0 .. (n - 2) |-> IF i < k THEN c[i] ELSE c[i + 1]]

LEMMA PuttingIn ==
  ASSUME NEW h, NEW h2, NEW x, NEW d, NEW c, NEW n \in Nat, NEW k \in 0 .. n,
         Stored(h), Linked(h, c, n),
         PutIn(h, h2, x, d, At(c, n, k - 1), At(c, n, k))
  PROVE  /\ Linked(h2, Put(c, n, k, x), n + 1)
         /\ NodesOf(Put(c, n, k, x), n + 1) = NodesOf(c, n) \cup {x}
  <1> DEFINE e == Put(c, n, k, x)
             p == At(c, n, k - 1)
             q == At(c, n, k)
  <1>1. /\ \A i \in 0 .. n : i < k => e[i] = c[i] /\ i \in 0 .. (n - 1)
        /\ e[k] = x
        /\ \A i \in 0 .. n : i > k => e[i] = c[i - 1] /\ i - 1 \in 0 .. (n - 1)
        /\ e \in [0 .. n -> {c[i] : i \in 0 .. (n - 1)} \cup {x}]
    BY DEF Put
  <1>2. /\ \A i \in 0 .. (n - 1) : c[i] \in DOMAIN h /\ c[i] # x /\ c[i] # NULL
        /\ \A i, j \in 0 .. (n - 1) : c[i] = c[j] => i = j
        /\ x \notin DOMAIN h /\ x \in DOMAIN h2 /\ x # NULL
        /\ DOMAIN h2 = DOMAIN h \cup {x}
    BY ListAssumption DEF Linked, PutIn, Stored
  <1>3. \A i, j \in 0 .. n : e[i] = e[j] => i = j
    <2> HIDE DEF e
    <2>1. TAKE i, j \in 0 .. n
    <2>2. CASE i < k /\ j < k
      BY <1>1, <1>2, <2>2
    <2>3. CASE i > k /\ j > k
      <3>1. e[i] = e[j] => i - 1 = j - 1
        BY <1>1, <1>2, <2>3
      <3>2. QED
        BY <3>1
    <2>4. CASE i < k /\ j > k
      <3>1. e[i] = e[j] => i = j - 1
        BY <1>1, <1>2, <2>4
      <3>2. QED
        BY <2>4, <3>1
    <2>5. CASE i > k /\ j < k
      <3>1. e[i] = e[j] => i - 1 = j
        BY <1>1, <1>2, <2>5
      <3>2. QED
        BY <2>5, <3>1
    <2>6. CASE i = k /\ j # k
      BY <1>1, <1>2, <2>6
    <2>7. CASE i # k /\ j = k
      BY <1>1, <1>2, <2>7
    <2>8. QED
      BY <2>2, <2>3, <2>4, <2>5, <2>6, <2>7
  <1>4. \A i \in 0 .. n : e[i] \in DOMAIN h2
    <2> HIDE DEF e
    <2>1. QED
      BY <1>1, <1>2
  <1>5. {e[i] : i \in 0 .. n} = {c[i] : i \in 0 .. (n - 1)} \cup {x}
    <2>1. ASSUME NEW i \in 0 .. (n - 1)
          PROVE  \E j \in 0 .. n : e[j] = c[i]
      <3> HIDE DEF e
      <3>1. CASE i < k
        BY <1>1, <3>1
      <3>2. CASE i >= k
        <4>1. i + 1 \in 0 .. n /\ i + 1 > k /\ (i + 1) - 1 = i
          BY <3>2
        <4>2. e[i + 1] = c[i]
          BY <1>1, <4>1
        <4>3. QED
          BY <4>1, <4>2
      <3>3. QED
        BY <3>1, <3>2
    <2> HIDE DEF e
    <2>2. QED
      BY <1>1, <2>1
  <1>6. ASSUME NEW i \in 0 .. n
        PROVE  h2[e[i]].next = At(e, n + 1, i + 1)
    <2> HIDE DEF e
    <2>1. CASE i = n
      <3>1. At(e, n + 1, i + 1) = NULL
        BY <2>1 DEF At
      <3>2. CASE k = n
        BY <1>1, <2>1, <3>1, <3>2 DEF PutIn, At
      <3>3. CASE k < n
        <4>1. e[i] = c[n - 1] /\ n - 1 \in 0 .. (n - 1)
          BY <1>1, <2>1, <3>3
        <4>2. h[c[n - 1]].next = At(c, n, (n - 1) + 1) /\ (n - 1) + 1 = n
          BY <4>1 DEF Linked
        <4>3. p # c[n - 1]
          BY <1>2, <3>3, <4>1 DEF At
        <4>4. h2[c[n - 1]].next = h[c[n - 1]].next
          BY <1>2, <4>1, <4>3 DEF PutIn
        <4>5. At(c, n, n) = NULL
          BY DEF At
        <4>6. QED
          BY <3>1, <4>1, <4>2, <4>4, <4>5
      <3>4. QED
        BY <3>2, <3>3
    <2>2. CASE i < n
      <3>1. At(e, n + 1, i + 1) = e[i + 1] /\ i + 1 \in 0 .. n
        BY <2>2 DEF At
      <3>2. CASE i = k
        <4>1. e[i + 1] = c[i] /\ h2[x].next = q /\ q = c[i]
          BY <1>1, <2>2, <3>1, <3>2 DEF PutIn, At
        <4>2. QED
          BY <1>1, <3>1, <3>2, <4>1
      <3>3. CASE i = k - 1
        <4>1. p = c[i] /\ e[i] = c[i] /\ e[i + 1] = x /\ i \in 0 .. (n - 1)
          BY <1>1, <2>2, <3>3 DEF At
        <4>2. QED
          BY <1>2, <3>1, <4>1 DEF PutIn
      <3>4. CASE i < k - 1
        <4>1. e[i] = c[i] /\ e[i + 1] = c[i + 1] /\ i \in 0 .. (n - 1) /\ i + 1 \in 0 .. (n - 1)
          BY <1>1, <2>2, <3>1, <3>4
        <4>2. h[c[i]].next = At(c, n, i + 1) /\ At(c, n, i + 1) = c[i + 1]
          BY <4>1 DEF Linked, At
        <4>3. p # c[i]
          BY <1>2, <3>4, <4>1 DEF At
        <4>4. QED
          BY <1>2, <3>1, <4>1, <4>2, <4>3 DEF PutIn
      <3>5. CASE i > k
        <4>1. e[i] = c[i - 1] /\ e[i + 1] = c[i] /\ i - 1 \in 0 .. (n - 1) /\ i \in 0 .. (n - 1)
          BY <1>1, <2>2, <3>1, <3>5
        <4>2. h[c[i - 1]].next = At(c, n, (i - 1) + 1) /\ At(c, n, i) = c[i] /\ (i - 1) + 1 = i
          BY <4>1 DEF Linked, At
        <4>3. p # c[i - 1]
          BY <1>2, <3>5, <4>1 DEF At
        <4>4. QED
          BY <1>2, <3>1, <4>1, <4>2, <4>3 DEF PutIn
      <3>6. QED
        BY <3>2, <3>3, <3>4, <3>5
    <2>3. QED
      BY <2>1, <2>2
  <1>7. ASSUME NEW i \in 0 .. n
        PROVE  h2[e[i]].prev = At(e, n + 1, i - 1)
    <2> HIDE DEF e
    <2>1. CASE i = 0
      <3>1. At(e, n + 1, i - 1) = NULL
        BY <2>1 DEF At
      <3>2. CASE k = 0
        BY <1>1, <2>1, <3>1, <3>2 DEF PutIn, At
      <3>3. CASE k > 0
        <4>1. e[0] = c[0] /\ 0 \in 0 .. (n - 1)
          BY <1>1, <2>1, <3>3
        <4>2. h[c[0]].prev = At(c, n, 0 - 1) /\ At(c, n, 0 - 1) = NULL
          BY <4>1 DEF Linked, At
        <4>3. q # c[0]
          BY <1>2, <3>3, <4>1 DEF At
        <4>4. h2[c[0]].prev = h[c[0]].prev
          BY <1>2, <4>1, <4>3 DEF PutIn
        <4>5. QED
          BY <2>1, <3>1, <4>1, <4>2, <4>4
      <3>4. QED
        BY <3>2, <3>3
    <2>2. CASE i > 0
      <3>1. At(e, n + 1, i - 1) = e[i - 1] /\ i - 1 \in 0 .. n
        BY <2>2 DEF At
      <3>2. CASE i = k
        <4>1. e[i - 1] = c[i - 1] /\ h2[x].prev = p /\ p = c[i - 1]
          BY <1>1, <2>2, <3>1, <3>2 DEF PutIn, At
        <4>2. QED
          BY <1>1, <3>1, <3>2, <4>1
      <3>3. CASE i = k + 1
        <4>1. q = c[i - 1] /\ e[i] = c[i - 1] /\ e[i - 1] = x /\ i - 1 \in 0 .. (n - 1)
          BY <1>1, <2>2, <3>3 DEF At
        <4>2. QED
          BY <1>2, <3>1, <4>1 DEF PutIn
      <3>4. CASE i < k
        <4>1. e[i] = c[i] /\ e[i - 1] = c[i - 1] /\ i \in 0 .. (n - 1) /\ i - 1 \in 0 .. (n - 1)
          BY <1>1, <2>2, <3>1, <3>4
        <4>2. h[c[i]].prev = At(c, n, i - 1) /\ At(c, n, i - 1) = c[i - 1]
          BY <4>1 DEF Linked, At
        <4>3. q # c[i]
          BY <1>2, <3>4, <4>1 DEF At
        <4>4. QED
          BY <1>2, <3>1, <4>1, <4>2, <4>3 DEF PutIn
      <3>5. CASE i > k + 1
        <4>1. /\ e[i] = c[i - 1] /\ e[i - 1] = c[i - 2]
              /\ i - 1 \in 0 .. (n - 1) /\ i - 2 \in 0 .. (n - 1)
          <5>1. i - 1 > k /\ (i - 1) - 1 = i - 2
            BY <3>5
          <5>2. QED
            BY <1>1, <3>1, <3>5, <5>1
        <4>2. h[c[i - 1]].prev = At(c, n, (i - 1) - 1) /\ At(c, n, i - 2) = c[i - 2] /\ (i - 1) - 1 = i - 2
          BY <4>1 DEF Linked, At
        <4>3. q # c[i - 1]
          BY <1>2, <3>5, <4>1 DEF At
        <4>4. QED
          BY <1>2, <3>1, <4>1, <4>2, <4>3 DEF PutIn
      <3>6. QED
        BY <3>2, <3>3, <3>4, <3>5
    <2>3. QED
      BY <2>1, <2>2
  <1>8. e \in [0 .. n -> DOMAIN h2]
    BY <1>4 DEF Put
  <1>9. (n + 1) - 1 = n
    OBVIOUS
  <1> HIDE DEF e
  <1>10. QED
    BY <1>3, <1>5, <1>6, <1>7, <1>8, <1>9 DEF Linked, NodesOf, e

LEMMA TakingOut ==
  ASSUME NEW h, NEW h2, NEW c, NEW n \in Nat, NEW k \in 0 .. (n - 1),
         Stored(h), Linked(h, c, n),
         TakeOut(h, h2, c[k], At(c, n, k - 1), At(c, n, k + 1))
  PROVE  /\ Linked(h2, Cut(c, n, k), n - 1)
         /\ NodesOf(Cut(c, n, k), n - 1) = NodesOf(c, n) \ {c[k]}
  <1> DEFINE e == Cut(c, n, k)
             p == At(c, n, k - 1)
             q == At(c, n, k + 1)
  <1>1. /\ \A i \in 0 .. (n - 2) : i < k => e[i] = c[i] /\ i \in 0 .. (n - 1)
        /\ \A i \in 0 .. (n - 2) : i >= k => e[i] = c[i + 1] /\ i + 1 \in 0 .. (n - 1)
    BY DEF Cut
  <1>2. /\ \A i \in 0 .. (n - 1) : c[i] \in DOMAIN h /\ c[i] # NULL
        /\ \A i, j \in 0 .. (n - 1) : c[i] = c[j] => i = j
        /\ DOMAIN h2 = DOMAIN h \ {c[k]}
    BY ListAssumption DEF Linked, TakeOut, Stored
  <1>3. \A i, j \in 0 .. (n - 2) : e[i] = e[j] => i = j
    <2> HIDE DEF e
    <2>1. TAKE i, j \in 0 .. (n - 2)
    <2>2. CASE i < k /\ j < k
      BY <1>1, <1>2, <2>2
    <2>3. CASE i >= k /\ j >= k
      <3>1. e[i] = e[j] => i + 1 = j + 1
        BY <1>1, <1>2, <2>3
      <3>2. QED
        BY <3>1
    <2>4. CASE i < k /\ j >= k
      <3>1. e[i] = e[j] => i = j + 1
        BY <1>1, <1>2, <2>4
      <3>2. QED
        BY <2>4, <3>1
    <2>5. CASE i >= k /\ j < k
      <3>1. e[i] = e[j] => i + 1 = j
        BY <1>1, <1>2, <2>5
      <3>2. QED
        BY <2>5, <3>1
    <2>6. QED
      BY <2>2, <2>3, <2>4, <2>5
  <1>4. \A i \in 0 .. (n - 2) : e[i] \in DOMAIN h2
    <2> HIDE DEF e
    <2>1. TAKE i \in 0 .. (n - 2)
    <2>2. CASE i < k
      <3>1. e[i] = c[i] /\ i \in 0 .. (n - 1) /\ i # k
        BY <1>1, <2>2
      <3>2. QED
        BY <1>2, <3>1
    <2>3. CASE i >= k
      <3>1. e[i] = c[i + 1] /\ i + 1 \in 0 .. (n - 1) /\ i + 1 # k
        BY <1>1, <2>3
      <3>2. QED
        BY <1>2, <3>1
    <2>4. QED
      BY <2>2, <2>3
  <1>5. {e[i] : i \in 0 .. (n - 2)} = {c[i] : i \in 0 .. (n - 1)} \ {c[k]}
    <2>1. ASSUME NEW i \in 0 .. (n - 1), i # k
          PROVE  \E j \in 0 .. (n - 2) : e[j] = c[i]
      <3> HIDE DEF e
      <3>1. CASE i < k
        <4>1. i \in 0 .. (n - 2) /\ e[i] = c[i]
          BY <1>1, <3>1
        <4>2. QED
          BY <4>1
      <3>2. CASE i > k
        <4>1. i - 1 \in 0 .. (n - 2) /\ i - 1 >= k /\ (i - 1) + 1 = i
          BY <3>2
        <4>2. e[i - 1] = c[i]
          BY <1>1, <4>1
        <4>3. QED
          BY <4>1, <4>2
      <3>3. QED
        BY <2>1, <3>1, <3>2
    <2>2. \A i \in 0 .. (n - 2) : e[i] \in {c[j] : j \in 0 .. (n - 1)}
      <3> HIDE DEF e
      <3>1. QED
        BY <1>1
    <2>3. \A i \in 0 .. (n - 2) : e[i] # c[k]
      <3> HIDE DEF e
      <3>1. QED
        BY <1>2, <1>4
    <2> HIDE DEF e
    <2>4. QED
      BY <2>1, <2>2, <2>3
  <1>6. ASSUME NEW i \in 0 .. (n - 2)
        PROVE  h2[e[i]].next = At(e, n - 1, i + 1)
    <2> HIDE DEF e
    <2>1. CASE i = k - 1
      <3>1. e[i] = c[i] /\ i \in 0 .. (n - 1) /\ p = c[i]
        BY <1>1, <2>1 DEF At
      <3>2. h2[e[i]].next = q
        BY <1>4, <3>1 DEF TakeOut
      <3>3. CASE k = n - 1
        BY <2>1, <3>2, <3>3 DEF At
      <3>4. CASE k < n - 1
        <4>1. i + 1 \in 0 .. (n - 2) /\ i + 1 = k /\ k + 1 \in 0 .. (n - 1)
          BY <2>1, <3>4
        <4>2. e[i + 1] = c[k + 1]
          BY <1>1, <4>1
        <4>3. QED
          BY <3>2, <4>1, <4>2 DEF At
      <3>5. QED
        BY <3>3, <3>4
    <2>2. CASE i < k - 1
      <3>1. e[i] = c[i] /\ i \in 0 .. (n - 1) /\ i + 1 \in 0 .. (n - 2) /\ i + 1 \in 0 .. (n - 1)
        BY <1>1, <2>2
      <3>2. e[i + 1] = c[i + 1] /\ h[c[i]].next = At(c, n, i + 1)
        BY <1>1, <2>2, <3>1 DEF Linked
      <3>3. p # c[i]
        BY <1>2, <2>2, <3>1 DEF At
      <3>4. h2[e[i]].next = h[c[i]].next
        BY <1>4, <3>1, <3>3 DEF TakeOut
      <3>5. QED
        BY <3>1, <3>2, <3>4 DEF At
    <2>3. CASE i >= k
      <3>1. e[i] = c[i + 1] /\ i + 1 \in 0 .. (n - 1)
        BY <1>1, <2>3
      <3>2. h[c[i + 1]].next = At(c, n, (i + 1) + 1) /\ (i + 1) + 1 = i + 2
        BY <3>1, SMTT(30) DEF Linked
      <3>3. p # c[i + 1]
        BY <1>2, <2>3, <3>1 DEF At
      <3>4. h2[e[i]].next = h[c[i + 1]].next
        BY <1>4, <3>1, <3>3 DEF TakeOut
      <3>5. CASE i = n - 2
        <4>1. At(c, n, i + 2) = NULL /\ At(e, n - 1, i + 1) = NULL
          BY <3>5 DEF At
        <4>2. QED
          BY <3>2, <3>4, <4>1
      <3>6. CASE i < n - 2
        <4>1. i + 1 \in 0 .. (n - 2) /\ i + 1 >= k /\ i + 2 \in 0 .. (n - 1) /\ (i + 1) + 1 = i + 2
          BY <2>3, <3>6
        <4>2. e[i + 1] = c[i + 2]
          BY <1>1, <4>1
        <4>3. At(c, n, i + 2) = c[i + 2] /\ At(e, n - 1, i + 1) = e[i + 1]
          BY <4>1 DEF At
        <4>4. QED
          BY <3>2, <3>4, <4>2, <4>3
      <3>7. QED
        BY <3>5, <3>6
    <2>4. QED
      BY <2>1, <2>2, <2>3
  <1>7. ASSUME NEW i \in 0 .. (n - 2)
        PROVE  h2[e[i]].prev = At(e, n - 1, i - 1)
    <2> HIDE DEF e
    <2>1. CASE i = k
      <3>1. e[i] = c[k + 1] /\ k + 1 \in 0 .. (n - 1) /\ q = c[k + 1]
        BY <1>1, <2>1 DEF At
      <3>2. h2[e[i]].prev = p
        BY <1>4, <3>1 DEF TakeOut
      <3>3. CASE k = 0
        BY <2>1, <3>2, <3>3 DEF At
      <3>4. CASE k > 0
        <4>1. i - 1 \in 0 .. (n - 2) /\ i - 1 < k /\ k - 1 \in 0 .. (n - 1) /\ i - 1 = k - 1
          BY <2>1, <3>4
        <4>2. e[i - 1] = c[k - 1]
          BY <1>1, <4>1
        <4>3. QED
          BY <3>2, <4>1, <4>2 DEF At
      <3>5. QED
        BY <3>3, <3>4
    <2>2. CASE i > k
      <3>1. e[i] = c[i + 1] /\ i + 1 \in 0 .. (n - 1) /\ i - 1 \in 0 .. (n - 2) /\ i - 1 >= k
            /\ (i - 1) + 1 = i /\ i \in 0 .. (n - 1)
        BY <1>1, <2>2
      <3>2. e[i - 1] = c[i] /\ h[c[i + 1]].prev = At(c, n, (i + 1) - 1) /\ (i + 1) - 1 = i
        BY <1>1, <3>1, SMTT(30) DEF Linked
      <3>3. q # c[i + 1]
        BY <1>2, <2>2, <3>1 DEF At
      <3>4. h2[e[i]].prev = h[c[i + 1]].prev
        BY <1>4, <3>1, <3>3 DEF TakeOut
      <3>5. QED
        BY <3>1, <3>2, <3>4 DEF At
    <2>3. CASE i < k
      <3>1. e[i] = c[i] /\ i \in 0 .. (n - 1) /\ h[c[i]].prev = At(c, n, i - 1)
        BY <1>1, <2>3 DEF Linked
      <3>2. q # c[i]
        BY <1>2, <2>3, <3>1 DEF At
      <3>3. h2[e[i]].prev = h[c[i]].prev
        BY <1>4, <3>1, <3>2 DEF TakeOut
      <3>4. At(e, n - 1, i - 1) = At(c, n, i - 1)
        <4>1. CASE i = 0
          BY <4>1 DEF At
        <4>2. CASE i > 0
          <5>1. i - 1 \in 0 .. (n - 2) /\ i - 1 < k
            BY <2>3, <4>2
          <5>2. e[i - 1] = c[i - 1] /\ i - 1 \in 0 .. (n - 1)
            BY <1>1, <5>1
          <5>3. QED
            BY <5>1, <5>2 DEF At
        <4>3. QED
          BY <4>1, <4>2
      <3>5. QED
        BY <3>1, <3>3, <3>4
    <2>4. QED
      BY <2>1, <2>2, <2>3
  <1>8. e \in [0 .. (n - 2) -> DOMAIN h2]
    BY <1>4 DEF Cut
  <1>9. (n - 1) - 1 = n - 2
    OBVIOUS
  <1> HIDE DEF e
  <1>10. QED
    BY <1>3, <1>5, <1>6, <1>7, <1>8, <1>9 DEF Linked, NodesOf, e

-----------------------------------------------------------------------------
(* Assignments to fields                                                   *)
WithLength(l, x) == [l EXCEPT !.length = x]
WithIndex(l, x)  == [l EXCEPT !.index = x]
WithFront(l, x)  == [l EXCEPT !.front = x]
WithBack(l, x)   == [l EXCEPT !.back = x]
WithCursor(l, x) == [l EXCEPT !.cursor = x]

LEMMA LengthSet ==
  ASSUME NEW l \in Structs, NEW x \in Nat
  PROVE  /\ WithLength(l, x) \in Structs /\ WithLength(l, x).length = x
         /\ WithLength(l, x).index = l.index /\ WithLength(l, x).front = l.front
         /\ WithLength(l, x).back = l.back /\ WithLength(l, x).cursor = l.cursor
  BY DEF WithLength, Structs

LEMMA IndexSet ==
  ASSUME NEW l \in Structs, NEW x \in Int
  PROVE  /\ WithIndex(l, x) \in Structs /\ WithIndex(l, x).index = x
         /\ WithIndex(l, x).length = l.length /\ WithIndex(l, x).front = l.front
         /\ WithIndex(l, x).back = l.back /\ WithIndex(l, x).cursor = l.cursor
  BY DEF WithIndex, Structs

LEMMA FrontSet ==
  ASSUME NEW l \in Structs, NEW x \in Pointers
  PROVE  /\ WithFront(l, x) \in Structs /\ WithFront(l, x).front = x
         /\ WithFront(l, x).length = l.length /\ WithFront(l, x).index = l.index
         /\ WithFront(l, x).back = l.back /\ WithFront(l, x).cursor = l.cursor
  BY DEF WithFront, Structs

LEMMA BackSet ==
  ASSUME NEW l \in Structs, NEW x \in Pointers
  PROVE  /\ WithBack(l, x) \in Structs /\ WithBack(l, x).back = x
         /\ WithBack(l, x).length = l.length /\ WithBack(l, x).index = l.index
         /\ WithBack(l, x).front = l.front /\ WithBack(l, x).cursor = l.cursor
  BY DEF WithBack, Structs

LEMMA CursorSet ==
  ASSUME NEW l \in Structs, NEW x \in Pointers
  PROVE  /\ WithCursor(l, x) \in Structs /\ WithCursor(l, x).cursor = x
         /\ WithCursor(l, x).length = l.length /\ WithCursor(l, x).index = l.index
         /\ WithCursor(l, x).front = l.front /\ WithCursor(l, x).back = l.back
  BY DEF WithCursor, Structs

WithNext(h, p, x) == [h EXCEPT ![p].next = x]
WithPrev(h, p, x) == [h EXCEPT ![p].prev = x]
WithData(h, p, x) == [h EXCEPT ![p].data = x]

LEMMA NextSet ==
  ASSUME NEW h, Stored(h), NEW p \in DOMAIN h, NEW x \in Pointers
  PROVE  LET k == WithNext(h, p, x) IN
         /\ Stored(k) /\ DOMAIN k = DOMAIN h
         /\ \A m \in DOMAIN h : /\ k[m].data = h[m].data /\ k[m].prev = h[m].prev
                                /\ k[m].next = IF m = p THEN x ELSE h[m].next
  <1> DEFINE k == WithNext(h, p, x)
  <1>1. DOMAIN k = DOMAIN h /\ \A m \in DOMAIN h : m # p => k[m] = h[m]
    BY DEF WithNext
  <1>2. k[p] = [h[p] EXCEPT !.next = x]
    BY DEF WithNext
  <1>3. k[p] \in Cells /\ k[p].data = h[p].data /\ k[p].prev = h[p].prev /\ k[p].next = x
    BY <1>2 DEF Stored, Cells
  <1> HIDE DEF k
  <1>4. QED
    BY <1>1, <1>3 DEF Stored, k

LEMMA PrevSet ==
  ASSUME NEW h, Stored(h), NEW p \in DOMAIN h, NEW x \in Pointers
  PROVE  LET k == WithPrev(h, p, x) IN
         /\ Stored(k) /\ DOMAIN k = DOMAIN h
         /\ \A m \in DOMAIN h : /\ k[m].data = h[m].data /\ k[m].next = h[m].next
                                /\ k[m].prev = IF m = p THEN x ELSE h[m].prev
  <1> DEFINE k == WithPrev(h, p, x)
  <1>1. DOMAIN k = DOMAIN h /\ \A m \in DOMAIN h : m # p => k[m] = h[m]
    BY DEF WithPrev
  <1>2. k[p] = [h[p] EXCEPT !.prev = x]
    BY DEF WithPrev
  <1>3. k[p] \in Cells /\ k[p].data = h[p].data /\ k[p].next = h[p].next /\ k[p].prev = x
    BY <1>2 DEF Stored, Cells
  <1> HIDE DEF k
  <1>4. QED
    BY <1>1, <1>3 DEF Stored, k

LEMMA DataSet ==
  ASSUME NEW h, Stored(h), NEW p \in DOMAIN h, NEW x \in Values
  PROVE  LET k == WithData(h, p, x) IN
         /\ Stored(k) /\ DOMAIN k = DOMAIN h
         /\ \A m \in DOMAIN h : /\ k[m].next = h[m].next /\ k[m].prev = h[m].prev
                                /\ k[m].data = IF m = p THEN x ELSE h[m].data
  <1> DEFINE k == WithData(h, p, x)
  <1>1. DOMAIN k = DOMAIN h /\ \A m \in DOMAIN h : m # p => k[m] = h[m]
    BY DEF WithData
  <1>2. k[p] = [h[p] EXCEPT !.data = x]
    BY DEF WithData
  <1>3. k[p] \in Cells /\ k[p].next = h[p].next /\ k[p].prev = h[p].prev /\ k[p].data = x
    BY <1>2 DEF Stored, Cells
  <1> HIDE DEF k
  <1>4. QED
    BY <1>1, <1>3 DEF Stored, k

\* k is the heap h with a new node n.
HasNew(k, h, n, x, q, p) ==
  /\ Stored(k) /\ DOMAIN k = DOMAIN h \cup {n}
  /\ k[n].data = x /\ k[n].next = q /\ k[n].prev = p
  /\ \A m \in DOMAIN h : k[m] = h[m]

LEMMA NewNode ==
  ASSUME NEW h, NEW n, NEW x, NEW p, NEW q,
         Stored(h), n \in Nodes, n \notin DOMAIN h, x \in Values,
         p \in Pointers, q \in Pointers
  PROVE  HasNew(newNode(h, n, x, q, p), h, n, x, q, p)
  <1> DEFINE k == newNode(h, n, x, q, p)
  <1>1. /\ DOMAIN k = DOMAIN h \cup {n}
        /\ k[n] = [data |-> x, next |-> q, prev |-> p]
        /\ \A m \in DOMAIN h : k[m] = h[m]
    BY DEF newNode
  <1>2. [data |-> x, next |-> q, prev |-> p] \in Cells
    BY DEF Cells
  <1> HIDE DEF k
  <1>3. HasNew(k, h, n, x, q, p)
    BY <1>1, <1>2 DEF Stored, HasNew
  <1>4. QED
    BY <1>3 DEF k

LEMMA FreedNode ==
  ASSUME NEW h, Stored(h), NEW n
  PROVE  LET k == freeNode(h, n) IN
         /\ Stored(k) /\ DOMAIN k = DOMAIN h \ {n}
         /\ \A m \in DOMAIN h \ {n} : k[m] = h[m]
  BY DEF freeNode, Restrict, Stored

LEMMA EmptyIs ==
  /\ Empty \in Structs /\ Empty.length = 0 /\ Empty.index = -1
  /\ Empty.front = NULL /\ Empty.back = NULL /\ Empty.cursor = NULL
  BY DEF Empty, Structs, Pointers

LEMMA BothIs ==
  ASSUME NEW l, NEW h
  PROVE  Both(l, h).l = l /\ Both(l, h).h = h
  BY DEF Both

-----------------------------------------------------------------------------
(* What a call does to the struct                                          *)
LEMMA HoldsPut ==
  ASSUME NEW c, NEW n \in Nat, NEW k \in 0 .. n, NEW x \in Nodes,
         NEW l, Holds(l, c), l.length = n, NEW l2 \in Structs,
         l2.length = n + 1,
         l2.front = IF k = 0 THEN x ELSE l.front,
         l2.back = IF k = n THEN x ELSE l.back,
         l2.cursor = l.cursor,
         l2.index = IF l.index >= k THEN l.index + 1 ELSE l.index
  PROVE  Holds(l2, Put(c, n, k, x))
  <1> DEFINE e == Put(c, n, k, x)
  <1>1. \A i \in 0 .. n : e[i] = IF i < k THEN c[i] ELSE IF i = k THEN x ELSE c[i - 1]
    BY DEF Put
  <1>2. /\ l.front = At(c, n, 0) /\ l.back = At(c, n, n - 1)
        /\ l.index \in -1 .. (n - 1)
        /\ l.cursor # NULL => l.index >= 0 /\ l.cursor = c[l.index]
    BY DEF Holds
  <1> HIDE DEF e
  <1>3. l2.front = At(e, n + 1, 0)
    BY <1>1, <1>2 DEF At
  <1>4. l2.back = At(e, n + 1, n)
    BY <1>1, <1>2 DEF At
  <1>5. l2.index \in -1 .. n
    BY <1>2
  <1>6. ASSUME l2.cursor # NULL
        PROVE  l2.index >= 0 /\ l2.cursor = e[l2.index]
    <2>1. l.index \in 0 .. (n - 1) /\ l2.cursor = c[l.index]
      BY <1>2, <1>6
    <2>2. CASE l.index >= k
      <3>1. /\ l.index + 1 \in 0 .. n /\ ~(l.index + 1 < k) /\ l.index + 1 # k
            /\ (l.index + 1) - 1 = l.index
        BY <2>1, <2>2
      <3>2. e[l.index + 1] = c[l.index]
        BY <1>1, <3>1
      <3>3. QED
        BY <2>1, <2>2, <3>2
    <2>3. CASE l.index < k
      BY <1>1, <2>1, <2>3
    <2>4. QED
      BY <2>1, <2>2, <2>3
  <1>7. (n + 1) - 1 = n
    OBVIOUS
  <1>8. QED
    BY <1>3, <1>4, <1>5, <1>6, <1>7 DEF Holds, e

LEMMA HoldsCut ==
  ASSUME NEW h, NEW c, NEW n \in Nat, NEW k \in 0 .. (n - 1),
         Stored(h), Linked(h, c, n),
         NEW l, Holds(l, c), l.length = n, NEW l2 \in Structs,
         l2.length = n - 1,
         l2.front = IF k = 0 THEN At(c, n, 1) ELSE l.front,
         l2.back = IF k = n - 1 THEN At(c, n, n - 2) ELSE l.back,
         l2.index \in -1 .. (n - 2),
         l2.cursor # NULL =>
           /\ l2.cursor = l.cursor /\ l.index # k
           /\ l2.index = IF l.index > k THEN l.index - 1 ELSE l.index
  PROVE  Holds(l2, Cut(c, n, k))
  <1> DEFINE e == Cut(c, n, k)
  <1>1. \A i \in 0 .. (n - 2) : e[i] = IF i < k THEN c[i] ELSE c[i + 1]
    BY DEF Cut
  <1>2. /\ l.front = At(c, n, 0) /\ l.back = At(c, n, n - 1)
        /\ l.index \in -1 .. (n - 1)
        /\ l.cursor # NULL => l.index >= 0 /\ l.cursor = c[l.index]
    BY DEF Holds
  <1> HIDE DEF e
  <1>3. l2.front = At(e, n - 1, 0)
    BY <1>1, <1>2 DEF At
  <1>4. l2.back = At(e, n - 1, n - 2)
    <2>1. CASE k = n - 1
      BY <1>1, <2>1 DEF At
    <2>2. CASE k < n - 1
      <3>1. n - 2 \in 0 .. (n - 2) /\ ~(n - 2 < k) /\ (n - 2) + 1 = n - 1
        BY <2>2
      <3>2. e[n - 2] = c[n - 1]
        BY <1>1, <3>1
      <3>3. QED
        BY <1>2, <2>2, <3>1, <3>2 DEF At
    <2>3. QED
      BY <2>1, <2>2
  <1>5. ASSUME l2.cursor # NULL
        PROVE  l2.index >= 0 /\ l2.cursor = e[l2.index]
    <2>1. l.index \in 0 .. (n - 1) /\ l2.cursor = c[l.index] /\ l.index # k
      BY <1>2, <1>5
    <2>2. CASE l.index > k
      <3>1. /\ l.index - 1 \in 0 .. (n - 2) /\ ~(l.index - 1 < k)
            /\ (l.index - 1) + 1 = l.index
        BY <2>1, <2>2
      <3>2. e[l.index - 1] = c[l.index]
        BY <1>1, <3>1
      <3>3. QED
        BY <1>5, <2>1, <2>2, <3>1, <3>2
    <2>3. CASE l.index < k
      <3>1. l.index \in 0 .. (n - 2) /\ l2.index = l.index
        BY <1>5, <2>1, <2>3
      <3>2. QED
        BY <1>1, <2>1, <2>3, <3>1
    <2>4. QED
      BY <2>1, <2>2, <2>3
  <1>6. (n - 1) - 1 = n - 2
    OBVIOUS
  <1>7. QED
    BY <1>3, <1>4, <1>5, <1>6 DEF Holds, e

\* s is the list l with the element d put in at position k, in the node x.
Puts(l, h, c, s, k, x, d) ==
  /\ PutIn(h, s.h, x, d, At(c, l.length, k - 1), At(c, l.length, k))
  /\ Holds(s.l, Put(c, l.length, k, x))
  /\ s.l.length = l.length + 1 /\ s.l.cursor = l.cursor
  /\ s.l.index = IF l.index >= k THEN l.index + 1 ELSE l.index

\* s is the list l without the element at position k.
Takes(l, h, c, s, k) ==
  /\ TakeOut(h, s.h, c[k], At(c, l.length, k - 1), At(c, l.length, k + 1))
  /\ Holds(s.l, Cut(c, l.length, k))
  /\ s.l.length = l.length - 1

\* The cursor after a deletion at an end: gone with its element.
Follows(l, l2, k) ==
  IF l.length > 1 /\ l.index # k
  THEN l2.cursor = l.cursor /\ l2.index = IF l.index > k THEN l.index - 1 ELSE l.index
  ELSE l2.cursor = NULL /\ l2.index = -1

LEMMA EndsAre ==
  ASSUME NEW l, NEW h, NEW c, Stored(h), Strung(l, h, c)
  PROVE  /\ l \in Structs /\ l.length \in Nat /\ l.index \in -1 .. (l.length - 1)
         /\ l.length = 0 => l.index = -1 /\ l.cursor = NULL
         /\ l.length > 0 => /\ l.front = c[0] /\ l.front \in DOMAIN h
                            /\ l.back = c[l.length - 1] /\ l.back \in DOMAIN h
         /\ \A i \in 0 .. (l.length - 1) : c[i] \in DOMAIN h /\ c[i] \in Nodes
         /\ DOMAIN h \subseteq Nodes
  <1>1. l \in Structs /\ l.length \in Nat /\ l.index \in -1 .. (l.length - 1)
    BY DEF Strung, Holds, Structs
  <1>2. \A i \in 0 .. (l.length - 1) : c[i] \in DOMAIN h
    BY DEF Strung, Linked
  <1>3. DOMAIN h \subseteq Nodes
    BY DEF Stored
  <1>4. l.length = 0 => l.index = -1 /\ l.cursor = NULL
    BY <1>1 DEF Strung, Holds
  <1>5. l.length > 0 => l.front = c[0] /\ l.back = c[l.length - 1]
    BY <1>1 DEF Strung, Holds, At
  <1>6. QED
    BY <1>1, <1>2, <1>3, <1>4, <1>5

-----------------------------------------------------------------------------
(* The four functions on the ends of a list                                *)
LEMMA PrependedPuts ==
  ASSUME NEW l, NEW h, NEW c, Stored(h), Strung(l, h, c),
         NEW n \in Nodes \ DOMAIN h, NEW x \in Values
  PROVE  Puts(l, h, c, Prepended(Both(l, h), n, x), 0, n, x)
  <1> DEFINE s == Prepended(Both(l, h), n, x)
             f == l.front
  <1>1. /\ l \in Structs /\ l.length \in Nat /\ l.index \in -1 .. (l.length - 1)
        /\ Holds(l, c) /\ n \in Pointers /\ NULL \in Pointers
    BY EndsAre DEF Strung, Pointers
  <1>2. At(c, l.length, 0 - 1) = NULL
    BY DEF At
  <1>3. CASE l.length = 0
    <2> DEFINE a == WithFront(l, n)
               b == WithBack(a, n)
               r == WithLength(b, 1)
               k == newNode(h, n, x, NULL, NULL)
    <2>1. s.l = r /\ s.h = k
      BY <1>3 DEF Prepended, Both, WithFront, WithBack, WithLength
    <2>2. a \in Structs /\ a.front = n /\ a.index = l.index /\ a.cursor = l.cursor
      BY <1>1, FrontSet
    <2>3. b \in Structs /\ b.back = n /\ b.front = n /\ b.index = l.index /\ b.cursor = l.cursor
      BY <1>1, <2>2, BackSet
    <2>4. /\ r \in Structs /\ r.length = 1 /\ r.back = n /\ r.front = n
          /\ r.index = l.index /\ r.cursor = l.cursor
      BY <2>3, LengthSet
    <2>5. Stored(k) /\ DOMAIN k = DOMAIN h \cup {n}
          /\ k[n].data = x /\ k[n].next = NULL /\ k[n].prev = NULL
          /\ \A m \in DOMAIN h : k[m] = h[m]
      <3>1. HasNew(k, h, n, x, NULL, NULL)
        BY <1>1, NewNode
      <3> HIDE DEF k
      <3>2. QED
        BY <3>1 DEF HasNew
    <2> HIDE DEF s, a, b, r, k
    <2>6. At(c, l.length, 0) = NULL /\ l.index = -1
      BY <1>1, <1>3 DEF At
    <2>7. NULL \notin DOMAIN h
      BY ListAssumption DEF Stored
    <2>8. PutIn(h, k, n, x, NULL, NULL)
      BY <2>5, <2>7 DEF PutIn, Stored
    <2>9. Holds(r, Put(c, l.length, 0, n))
      BY <1>1, <1>3, <2>4, <2>6, HoldsPut
    <2>10. r.length = l.length + 1 /\ r.index = IF l.index >= 0 THEN l.index + 1 ELSE l.index
      BY <1>3, <2>4, <2>6
    <2>11. QED
      BY <1>2, <2>1, <2>4, <2>6, <2>8, <2>9, <2>10 DEF Puts, s
  <1>4. CASE l.length # 0
    <2> DEFINE a == WithFront(l, n)
               b == WithLength(a, l.length + 1)
               i == IF l.index >= 0 THEN l.index + 1 ELSE l.index
               r == WithIndex(b, i)
               g == WithPrev(h, f, n)
               k == newNode(g, n, x, f, NULL)
    <2>1. s.l = r /\ s.h = k
      BY <1>4 DEF Prepended, Both, WithFront, WithIndex, WithLength, WithPrev
    <2>2. /\ a \in Structs /\ a.front = n /\ a.index = l.index /\ a.cursor = l.cursor
          /\ a.back = l.back
      BY <1>1, FrontSet
    <2>3. /\ b \in Structs /\ b.front = n /\ b.index = l.index /\ b.cursor = l.cursor
          /\ b.back = l.back /\ b.length = l.length + 1
      <3>1. l.length + 1 \in Nat
        BY <1>1
      <3>2. QED
        BY <2>2, <3>1, LengthSet
    <2>4. i \in Int
      BY <1>1
    <2>5. /\ r \in Structs /\ r.length = l.length + 1 /\ r.back = l.back /\ r.front = n
          /\ r.index = i /\ r.cursor = l.cursor
      BY <2>3, <2>4, IndexSet
    <2>6. f \in DOMAIN h /\ f = c[0] /\ At(c, l.length, 0) = f /\ f # NULL
      BY <1>1, <1>4, EndsAre, ListAssumption DEF At
    <2>7. /\ Stored(g) /\ DOMAIN g = DOMAIN h
          /\ \A m \in DOMAIN h : /\ g[m].data = h[m].data /\ g[m].next = h[m].next
                                 /\ g[m].prev = IF m = f THEN n ELSE h[m].prev
      BY <1>1, <2>6, PrevSet
    <2>8. f \in Pointers
      BY <2>6 DEF Stored, Pointers
    <2> HIDE DEF g
    <2>9. Stored(k) /\ DOMAIN k = DOMAIN h \cup {n}
          /\ k[n].data = x /\ k[n].next = f /\ k[n].prev = NULL
          /\ \A m \in DOMAIN h : k[m] = g[m]
      <3> HIDE DEF f
      <3>1. n \in Nodes /\ n \notin DOMAIN g
        BY <2>7
      <3>2. HasNew(k, g, n, x, f, NULL)
        BY <1>1, <2>7, <2>8, <3>1, NewNode
      <3> HIDE DEF k
      <3>3. QED
        BY <2>7, <3>2 DEF HasNew
    <2> HIDE DEF s, a, b, r, k, f, i
    <2>10. NULL \notin DOMAIN h
      BY ListAssumption DEF Stored
    <2>11. PutIn(h, k, n, x, NULL, f)
      BY <2>7, <2>9, <2>10 DEF PutIn, Stored
    <2>12. Holds(r, Put(c, l.length, 0, n))
      BY <1>1, <1>4, <2>5, HoldsPut DEF i
    <2>13. QED
      BY <1>2, <2>1, <2>5, <2>6, <2>11, <2>12 DEF Puts, s, i
  <1>5. QED
    BY <1>3, <1>4

LEMMA AppendedPuts ==
  ASSUME NEW l, NEW h, NEW c, Stored(h), Strung(l, h, c),
         NEW n \in Nodes \ DOMAIN h, NEW x \in Values
  PROVE  Puts(l, h, c, Appended(Both(l, h), n, x), l.length, n, x)
  <1> DEFINE s == Appended(Both(l, h), n, x)
             f == l.back
  <1>1. /\ l \in Structs /\ l.length \in Nat /\ l.index \in -1 .. (l.length - 1)
        /\ Holds(l, c) /\ n \in Pointers /\ NULL \in Pointers
    BY EndsAre DEF Strung, Pointers
  <1>2. At(c, l.length, l.length) = NULL /\ ~(l.index >= l.length)
    BY <1>1 DEF At
  <1>3. CASE l.length = 0
    <2> DEFINE a == WithFront(l, n)
               b == WithBack(a, n)
               r == WithLength(b, 1)
               k == newNode(h, n, x, NULL, NULL)
    <2>1. s.l = r /\ s.h = k
      BY <1>3 DEF Appended, Both, WithFront, WithBack, WithLength
    <2>2. a \in Structs /\ a.front = n /\ a.index = l.index /\ a.cursor = l.cursor
      BY <1>1, FrontSet
    <2>3. b \in Structs /\ b.back = n /\ b.front = n /\ b.index = l.index /\ b.cursor = l.cursor
      BY <1>1, <2>2, BackSet
    <2>4. /\ r \in Structs /\ r.length = 1 /\ r.back = n /\ r.front = n
          /\ r.index = l.index /\ r.cursor = l.cursor
      BY <2>3, LengthSet
    <2>5. Stored(k) /\ DOMAIN k = DOMAIN h \cup {n}
          /\ k[n].data = x /\ k[n].next = NULL /\ k[n].prev = NULL
          /\ \A m \in DOMAIN h : k[m] = h[m]
      <3>1. HasNew(k, h, n, x, NULL, NULL)
        BY <1>1, NewNode
      <3> HIDE DEF k
      <3>2. QED
        BY <3>1 DEF HasNew
    <2> HIDE DEF s, a, b, r, k
    <2>6. At(c, l.length, l.length - 1) = NULL
      BY <1>1, <1>3 DEF At
    <2>7. NULL \notin DOMAIN h
      BY ListAssumption DEF Stored
    <2>8. PutIn(h, k, n, x, NULL, NULL)
      BY <2>5, <2>7 DEF PutIn, Stored
    <2>9. Holds(r, Put(c, l.length, l.length, n))
      BY <1>1, <1>2, <1>3, <2>4, HoldsPut
    <2>10. r.length = l.length + 1
      BY <1>3, <2>4
    <2>11. QED
      BY <1>2, <2>1, <2>4, <2>6, <2>8, <2>9, <2>10 DEF Puts, s
  <1>4. CASE l.length # 0
    <2> DEFINE a == WithBack(l, n)
               r == WithLength(a, l.length + 1)
               g == WithNext(h, f, n)
               k == newNode(g, n, x, NULL, f)
    <2>1. s.l = r /\ s.h = k
      BY <1>4 DEF Appended, Both, WithBack, WithLength, WithNext
    <2>2. /\ a \in Structs /\ a.back = n /\ a.index = l.index /\ a.cursor = l.cursor
          /\ a.front = l.front
      BY <1>1, BackSet
    <2>3. /\ r \in Structs /\ r.front = l.front /\ r.index = l.index /\ r.cursor = l.cursor
          /\ r.back = n /\ r.length = l.length + 1
      <3>1. l.length + 1 \in Nat
        BY <1>1
      <3>2. QED
        BY <2>2, <3>1, LengthSet
    <2>6. /\ f \in DOMAIN h /\ f = c[l.length - 1]
          /\ At(c, l.length, l.length - 1) = f /\ f # NULL
      BY <1>1, <1>4, EndsAre, ListAssumption DEF At
    <2>7. /\ Stored(g) /\ DOMAIN g = DOMAIN h
          /\ \A m \in DOMAIN h : /\ g[m].data = h[m].data /\ g[m].prev = h[m].prev
                                 /\ g[m].next = IF m = f THEN n ELSE h[m].next
      BY <1>1, <2>6, NextSet
    <2>8. f \in Pointers
      BY <2>6 DEF Stored, Pointers
    <2> HIDE DEF g
    <2>9. Stored(k) /\ DOMAIN k = DOMAIN h \cup {n}
          /\ k[n].data = x /\ k[n].next = NULL /\ k[n].prev = f
          /\ \A m \in DOMAIN h : k[m] = g[m]
      <3> HIDE DEF f
      <3>1. n \in Nodes /\ n \notin DOMAIN g
        BY <2>7
      <3>2. HasNew(k, g, n, x, NULL, f)
        BY <1>1, <2>7, <2>8, <3>1, NewNode
      <3> HIDE DEF k
      <3>3. QED
        BY <2>7, <3>2 DEF HasNew
    <2> HIDE DEF s, a, r, k, f
    <2>10. NULL \notin DOMAIN h
      BY ListAssumption DEF Stored
    <2>11. PutIn(h, k, n, x, f, NULL)
      BY <2>7, <2>9, <2>10 DEF PutIn, Stored
    <2>12. Holds(r, Put(c, l.length, l.length, n))
      BY <1>1, <1>2, <1>4, <2>3, HoldsPut
    <2>13. QED
      BY <1>2, <2>1, <2>3, <2>6, <2>11, <2>12 DEF Puts, s
  <1>5. QED
    BY <1>3, <1>4

LEMMA WithoutFrontTakes ==
  ASSUME NEW l, NEW h, NEW c, Stored(h), Strung(l, h, c), l.length >= 1
  PROVE  LET s == WithoutFront(Both(l, h)) IN
         Takes(l, h, c, s, 0) /\ Follows(l, s.l, 0)
  <1> DEFINE s == WithoutFront(Both(l, h))
             f == l.front
             g == h[f].next
  <1>1. /\ l \in Structs /\ l.length \in Nat /\ l.index \in -1 .. (l.length - 1)
        /\ Holds(l, c) /\ NULL \in Pointers /\ Linked(h, c, l.length)
    BY EndsAre DEF Strung, Pointers
  <1>2. /\ f = c[0] /\ f \in DOMAIN h /\ 0 \in 0 .. (l.length - 1)
        /\ At(c, l.length, 0 - 1) = NULL /\ g = At(c, l.length, 0 + 1)
    BY <1>1, EndsAre DEF Linked, At
  <1>3. NULL \notin DOMAIN h
    BY ListAssumption DEF Stored
  <1>4. CASE l.length = 1
    <2> DEFINE k == freeNode(h, f)
    <2>1. s.l = Empty /\ s.h = k
      BY <1>4 DEF WithoutFront, Both
    <2>2. Stored(k) /\ DOMAIN k = DOMAIN h \ {f} /\ \A m \in DOMAIN h \ {f} : k[m] = h[m]
      BY FreedNode
    <2> HIDE DEF s, k
    <2>3. At(c, l.length, 0 + 1) = NULL
      BY <1>4 DEF At
    <2>4. TakeOut(h, k, c[0], NULL, NULL)
      BY <1>2, <1>3, <2>2 DEF TakeOut, Stored
    <2>5. Holds(Empty, Cut(c, l.length, 0))
      BY <1>4, EmptyIs DEF Holds, At
    <2>6. Follows(l, Empty, 0)
      BY <1>4, EmptyIs DEF Follows
    <2>7. QED
      BY <1>2, <1>4, <2>1, <2>3, <2>4, <2>5, <2>6, EmptyIs DEF Takes, s
  <1>5. CASE l.length > 1
    <2> DEFINE a == WithFront(l, g)
               b == WithLength(a, l.length - 1)
               i == IF l.index >= 0 THEN l.index - 1 ELSE l.index
               d == WithIndex(b, i)
               u == IF l.index = 0 THEN NULL ELSE l.cursor
               r == WithCursor(d, u)
               e == WithPrev(h, g, NULL)
               k == freeNode(e, f)
    <2>1. s.l = r /\ s.h = k
      BY <1>5 DEF WithoutFront, Both, WithFront, WithLength, WithIndex, WithCursor, WithPrev
    <2>2. g = c[1] /\ g \in DOMAIN h /\ g # f /\ g \in Pointers
      BY <1>1, <1>2, <1>5 DEF At, Linked, Stored, Pointers
    <2>3. i \in Int /\ u \in Pointers /\ l.length - 1 \in Nat
      <3>1. l.cursor \in Pointers
        BY <1>1 DEF Structs
      <3>2. QED
        BY <1>1, <1>5, <3>1
    <2>4. /\ a \in Structs /\ a.front = g /\ a.index = l.index /\ a.cursor = l.cursor
          /\ a.back = l.back
      BY <1>1, <2>2, FrontSet
    <2>5. /\ b \in Structs /\ b.front = g /\ b.index = l.index /\ b.cursor = l.cursor
          /\ b.back = l.back /\ b.length = l.length - 1
      BY <2>3, <2>4, LengthSet
    <2>6. /\ d \in Structs /\ d.length = l.length - 1 /\ d.back = l.back /\ d.front = g
          /\ d.index = i
      BY <2>3, <2>5, IndexSet
    <2>7. /\ r \in Structs /\ r.length = l.length - 1 /\ r.back = l.back /\ r.front = g
          /\ r.index = i /\ r.cursor = u
      BY <2>3, <2>6, CursorSet
    <2>8. /\ Stored(e) /\ DOMAIN e = DOMAIN h
          /\ \A m \in DOMAIN h : /\ e[m].data = h[m].data /\ e[m].next = h[m].next
                                 /\ e[m].prev = IF m = g THEN NULL ELSE h[m].prev
      <3>1. e = WithPrev(h, g, NULL)
        OBVIOUS
      <3> HIDE DEF e, g
      <3>2. QED
        BY <1>1, <2>2, <3>1, PrevSet, SMTT(30)
    <2> HIDE DEF e
    <2>9. Stored(k) /\ DOMAIN k = DOMAIN h \ {f} /\ \A m \in DOMAIN h \ {f} : k[m] = e[m]
      <3>1. Stored(e) /\ DOMAIN e = DOMAIN h
        BY <2>8
      <3>2. Stored(k) /\ DOMAIN k = DOMAIN e \ {f} /\ \A m \in DOMAIN e \ {f} : k[m] = e[m]
        BY <3>1, FreedNode
      <3>3. QED
        BY <3>1, <3>2
    <2> HIDE DEF s, a, b, d, r, k, g, u, i
    <2>10. TakeOut(h, k, c[0], NULL, g)
      BY <1>2, <1>3, <2>8, <2>9 DEF TakeOut, Stored
    <2>11. r.index \in -1 .. (l.length - 2)
      BY <1>1, <1>5, <2>7 DEF i
    <2>12. r.cursor # NULL =>
             /\ r.cursor = l.cursor /\ l.index # 0
             /\ r.index = IF l.index > 0 THEN l.index - 1 ELSE l.index
      BY <1>1, <2>7 DEF i, u
    <2>13. 0 # l.length - 1 /\ g = At(c, l.length, 1)
      BY <1>2, <1>5
    <2>14. Holds(r, Cut(c, l.length, 0))
      BY <1>1, <1>2, <2>7, <2>11, <2>12, <2>13, HoldsCut
    <2>15. l.index = 0 => i = -1
      BY DEF i
    <2>16. l.index # 0 => i = IF l.index > 0 THEN l.index - 1 ELSE l.index
      BY <1>1 DEF i
    <2>17. Follows(l, r, 0)
      BY <1>5, <2>7, <2>15, <2>16 DEF Follows, u
    <2>18. QED
      BY <1>2, <2>1, <2>7, <2>10, <2>14, <2>17 DEF Takes, s
  <1>6. QED
    BY <1>1, <1>4, <1>5

LEMMA WithoutBackTakes ==
  ASSUME NEW l, NEW h, NEW c, Stored(h), Strung(l, h, c), l.length >= 1
  PROVE  LET s == WithoutBack(Both(l, h)) IN
         Takes(l, h, c, s, l.length - 1) /\ Follows(l, s.l, l.length - 1)
  <1> DEFINE s == WithoutBack(Both(l, h))
             f == l.back
             g == h[f].prev
             under == l.index = l.length - 1
  <1>1. /\ l \in Structs /\ l.length \in Nat /\ l.index \in -1 .. (l.length - 1)
        /\ Holds(l, c) /\ NULL \in Pointers /\ Linked(h, c, l.length)
    BY EndsAre DEF Strung, Pointers
  <1>2. /\ f = c[l.length - 1] /\ f \in DOMAIN h /\ l.length - 1 \in 0 .. (l.length - 1)
        /\ At(c, l.length, (l.length - 1) + 1) = NULL
        /\ g = At(c, l.length, (l.length - 1) - 1)
    BY <1>1, EndsAre, SMTT(30) DEF Linked, At
  <1>3. NULL \notin DOMAIN h
    BY ListAssumption DEF Stored
  <1>4. CASE l.length = 1
    <2> DEFINE k == freeNode(h, f)
    <2>1. s.l = Empty /\ s.h = k
      BY <1>4 DEF WithoutBack, Both
    <2>2. Stored(k) /\ DOMAIN k = DOMAIN h \ {f} /\ \A m \in DOMAIN h \ {f} : k[m] = h[m]
      BY FreedNode
    <2> HIDE DEF s, k
    <2>3. At(c, l.length, (l.length - 1) - 1) = NULL
      BY <1>4 DEF At
    <2>4. TakeOut(h, k, c[l.length - 1], NULL, NULL)
      BY <1>2, <1>3, <2>2 DEF TakeOut, Stored
    <2>5. Holds(Empty, Cut(c, l.length, l.length - 1))
      BY <1>4, EmptyIs DEF Holds, At
    <2>6. Follows(l, Empty, l.length - 1)
      BY <1>4, EmptyIs DEF Follows
    <2>7. QED
      BY <1>2, <1>4, <2>1, <2>3, <2>4, <2>5, <2>6, EmptyIs DEF Takes, s
  <1>5. CASE l.length > 1
    <2> DEFINE a == WithBack(l, g)
               b == WithLength(a, l.length - 1)
               i == IF under THEN -1 ELSE l.index
               d == WithIndex(b, i)
               u == IF under THEN NULL ELSE l.cursor
               r == WithCursor(d, u)
               e == WithNext(h, g, NULL)
               k == freeNode(e, f)
    <2>1. s.l = r /\ s.h = k
      BY <1>5 DEF WithoutBack, Both, WithBack, WithLength, WithIndex, WithCursor, WithNext
    <2>2. g = c[l.length - 2] /\ g \in DOMAIN h /\ g # f /\ g \in Pointers
      BY <1>1, <1>2, <1>5 DEF At, Linked, Stored, Pointers
    <2>3. i \in Int /\ u \in Pointers /\ l.length - 1 \in Nat
      <3>1. l.cursor \in Pointers
        BY <1>1 DEF Structs
      <3>2. QED
        BY <1>1, <1>5, <3>1
    <2>4. /\ a \in Structs /\ a.back = g /\ a.index = l.index /\ a.cursor = l.cursor
          /\ a.front = l.front
      BY <1>1, <2>2, BackSet
    <2>5. /\ b \in Structs /\ b.back = g /\ b.index = l.index /\ b.cursor = l.cursor
          /\ b.front = l.front /\ b.length = l.length - 1
      BY <2>3, <2>4, LengthSet
    <2>6. /\ d \in Structs /\ d.length = l.length - 1 /\ d.back = g /\ d.front = l.front
          /\ d.index = i
      BY <2>3, <2>5, IndexSet
    <2>7. /\ r \in Structs /\ r.length = l.length - 1 /\ r.back = g /\ r.front = l.front
          /\ r.index = i /\ r.cursor = u
      BY <2>3, <2>6, CursorSet
    <2>8. /\ Stored(e) /\ DOMAIN e = DOMAIN h
          /\ \A m \in DOMAIN h : /\ e[m].data = h[m].data /\ e[m].prev = h[m].prev
                                 /\ e[m].next = IF m = g THEN NULL ELSE h[m].next
      <3>1. e = WithNext(h, g, NULL)
        OBVIOUS
      <3> HIDE DEF e, g
      <3>2. QED
        BY <1>1, <2>2, <3>1, NextSet, SMTT(30)
    <2> HIDE DEF e
    <2>9. Stored(k) /\ DOMAIN k = DOMAIN h \ {f} /\ \A m \in DOMAIN h \ {f} : k[m] = e[m]
      <3>1. Stored(e) /\ DOMAIN e = DOMAIN h
        BY <2>8
      <3>2. Stored(k) /\ DOMAIN k = DOMAIN e \ {f} /\ \A m \in DOMAIN e \ {f} : k[m] = e[m]
        BY <3>1, FreedNode
      <3>3. QED
        BY <3>1, <3>2
    <2> HIDE DEF s, a, b, d, r, k, g, u, i
    <2>10. TakeOut(h, k, c[l.length - 1], g, NULL)
      BY <1>2, <1>3, <2>8, <2>9 DEF TakeOut, Stored
    <2>11. r.index \in -1 .. (l.length - 2)
      BY <1>1, <1>5, <2>7 DEF i
    <2>12. r.cursor # NULL =>
             /\ r.cursor = l.cursor /\ l.index # l.length - 1
             /\ r.index = IF l.index > l.length - 1 THEN l.index - 1 ELSE l.index
      BY <1>1, <2>7 DEF i, u
    <2>13. l.length - 1 # 0 /\ g = At(c, l.length, l.length - 2)
      <3>1. (l.length - 1) - 1 = l.length - 2
        BY <1>1
      <3>2. QED
        BY <1>1, <1>2, <1>5, <3>1 DEF g
    <2>14. Holds(r, Cut(c, l.length, l.length - 1))
      BY <1>1, <1>2, <2>7, <2>11, <2>12, <2>13, HoldsCut
    <2>15. l.index # l.length - 1 =>
             i = IF l.index > l.length - 1 THEN l.index - 1 ELSE l.index
      BY <1>1 DEF i
    <2>16. l.index = l.length - 1 => i = -1
      BY DEF i
    <2>17. Follows(l, r, l.length - 1)
      BY <1>5, <2>7, <2>15, <2>16 DEF Follows, u
    <2>18. QED
      BY <1>2, <2>1, <2>7, <2>10, <2>14, <2>17 DEF Takes, s
  <1>6. QED
    BY <1>1, <1>4, <1>5

-----------------------------------------------------------------------------
(* Insertion and deletion in the middle                                    *)
LEMMA BetweenPuts ==
  ASSUME NEW l, NEW h, NEW c, Stored(h), Strung(l, h, c),
         NEW k \in 1 .. (l.length - 1), NEW n \in Nodes \ DOMAIN h, NEW x \in Values,
         NEW i \in Int, i = IF l.index >= k THEN l.index + 1 ELSE l.index
  PROVE  Puts(l, h, c,
              Both([l EXCEPT !.length = @ + 1, !.index = i],
                   newNode([h EXCEPT ![c[k - 1]].next = n, ![c[k]].prev = n],
                           n, x, c[k], c[k - 1])),
              k, n, x)
  <1> DEFINE p == c[k - 1]
             q == c[k]
             a == WithLength(l, l.length + 1)
             r == WithIndex(a, i)
             g == WithNext(h, p, n)
             e == WithPrev(g, q, n)
             z == newNode(e, n, x, q, p)
  <1>1. /\ l \in Structs /\ l.length \in Nat /\ l.index \in -1 .. (l.length - 1)
        /\ Holds(l, c) /\ n \in Pointers /\ Linked(h, c, l.length)
    BY EndsAre DEF Strung, Pointers
  <1>2. k - 1 \in 0 .. (l.length - 1) /\ k \in 0 .. (l.length - 1) /\ k - 1 # k
    BY <1>1
  <1>3. /\ p \in DOMAIN h /\ q \in DOMAIN h /\ p # q /\ p \in Pointers /\ q \in Pointers
        /\ At(c, l.length, k - 1) = p /\ At(c, l.length, k) = q
    BY <1>1, <1>2 DEF Linked, At, Stored, Pointers
  <1>4. a \in Structs /\ a.length = l.length + 1 /\ a.index = l.index
        /\ a.front = l.front /\ a.back = l.back /\ a.cursor = l.cursor
    <2>1. l.length + 1 \in Nat
      BY <1>1
    <2>2. QED
      BY <1>1, <2>1, LengthSet
  <1>5. r \in Structs /\ r.length = l.length + 1 /\ r.index = i
        /\ r.front = l.front /\ r.back = l.back /\ r.cursor = l.cursor
    BY <1>4, IndexSet
  <1> HIDE DEF p, q, a, r
  <1>6. /\ Stored(g) /\ DOMAIN g = DOMAIN h
        /\ \A m \in DOMAIN h : /\ g[m].data = h[m].data /\ g[m].prev = h[m].prev
                               /\ g[m].next = IF m = p THEN n ELSE h[m].next
    BY <1>1, <1>3, NextSet
  <1>7. /\ Stored(e) /\ DOMAIN e = DOMAIN g
        /\ \A m \in DOMAIN g : /\ e[m].data = g[m].data /\ e[m].next = g[m].next
                               /\ e[m].prev = IF m = q THEN n ELSE g[m].prev
    <2>1. Stored(g) /\ q \in DOMAIN g
      BY <1>3, <1>6
    <2> HIDE DEF g
    <2>2. QED
      BY <1>1, <2>1, PrevSet
  <1>8. HasNew(z, e, n, x, q, p)
    <2>1. Stored(e) /\ n \in Nodes /\ n \notin DOMAIN e
      BY <1>6, <1>7
    <2> HIDE DEF e
    <2>2. QED
      BY <1>3, <2>1, NewNode
  <1>9. /\ [l EXCEPT !.length = @ + 1, !.index = i] = r
        /\ newNode([h EXCEPT ![c[k - 1]].next = n, ![c[k]].prev = n], n, x, c[k], c[k - 1]) = z
    <2>1. [l EXCEPT !.length = @ + 1, !.index = i] = r
      BY DEF r, a, WithLength, WithIndex
    <2>2. [h EXCEPT ![p].next = n, ![q].prev = n] = e
      BY <1>3 DEF WithNext, WithPrev
    <2> HIDE DEF e
    <2>3. QED
      BY <2>1, <2>2 DEF p, q
  <1> HIDE DEF g, e, z
  <1>10. PutIn(h, z, n, x, p, q)
    <2>1. /\ DOMAIN z = DOMAIN h \cup {n} /\ z[n] \in Cells
          /\ z[n].data = x /\ z[n].next = q /\ z[n].prev = p
      BY <1>6, <1>7, <1>8 DEF HasNew, Stored
    <2>2. ASSUME NEW m \in DOMAIN h
          PROVE  /\ z[m] \in Cells /\ z[m].data = h[m].data
                 /\ z[m].next = IF m = p THEN n ELSE h[m].next
                 /\ z[m].prev = IF m = q THEN n ELSE h[m].prev
      <3>1. m \in DOMAIN e /\ m \in DOMAIN g
        BY <1>6, <1>7
      <3>2. z[m] = e[m] /\ e[m] \in Cells
        BY <1>7, <1>8, <3>1 DEF HasNew, Stored
      <3>3. QED
        BY <1>6, <1>7, <3>1, <3>2
    <2>3. QED
      BY <2>1, <2>2 DEF PutIn
  <1>11. Holds(r, Put(c, l.length, k, n))
    <2>1. k \in 0 .. l.length /\ k # 0 /\ k # l.length
      BY <1>1, <1>2
    <2>2. QED
      BY <1>1, <1>5, <2>1, HoldsPut
  <1>12. Puts(l, h, c, Both(r, z), k, n, x)
    BY <1>3, <1>5, <1>10, <1>11, BothIs DEF Puts
  <1>13. QED
    BY <1>9, <1>12

\* What delete does in the middle, with the cursor on p.
MiddleOut(l, h, p) ==
  Both([l EXCEPT !.cursor = NULL, !.index = @ - 1, !.length = @ - 1],
       freeNode([h EXCEPT ![h[p].prev].next = h[p].next,
                          ![h[p].next].prev = h[p].prev], p))

LEMMA MiddleTakes ==
  ASSUME NEW l, NEW h, NEW c, Stored(h), Strung(l, h, c),
         NEW k \in 1 .. (l.length - 2), l.index = k
  PROVE  LET s == MiddleOut(l, h, c[k]) IN
         Takes(l, h, c, s, k) /\ s.l.cursor = NULL /\ s.l.index = k - 1
  <1> DEFINE p == h[c[k]].prev
             q == h[c[k]].next
             f == c[k]
             a == WithCursor(l, NULL)
             b == WithIndex(a, l.index - 1)
             r == WithLength(b, l.length - 1)
             g == WithNext(h, p, q)
             e == WithPrev(g, q, p)
             z == freeNode(e, f)
  <1>1. /\ l \in Structs /\ l.length \in Nat /\ l.index \in -1 .. (l.length - 1)
        /\ Holds(l, c) /\ NULL \in Pointers /\ Linked(h, c, l.length)
    BY EndsAre DEF Strung, Pointers
  <1>2. /\ k - 1 \in 0 .. (l.length - 1) /\ k \in 0 .. (l.length - 1)
        /\ k + 1 \in 0 .. (l.length - 1) /\ k - 1 # k /\ k + 1 # k
    BY <1>1
  <1>3. /\ p = c[k - 1] /\ q = c[k + 1] /\ f \in DOMAIN h
        /\ At(c, l.length, k - 1) = p /\ At(c, l.length, k + 1) = q
    BY <1>1, <1>2 DEF Linked, At
  <1>4. /\ p \in DOMAIN h /\ q \in DOMAIN h /\ p # f /\ q # f
        /\ p \in Pointers /\ q \in Pointers
    <2>1. /\ c[k - 1] \in DOMAIN h /\ c[k + 1] \in DOMAIN h /\ c[k - 1] # c[k] /\ c[k + 1] # c[k]
      BY <1>1, <1>2 DEF Linked
    <2>2. DOMAIN h \subseteq Pointers
      BY DEF Stored, Pointers
    <2>3. QED
      BY <1>3, <2>1, <2>2
  <1>5. /\ a \in Structs /\ a.cursor = NULL /\ a.index = l.index /\ a.length = l.length
        /\ a.front = l.front /\ a.back = l.back
    BY <1>1, CursorSet
  <1>6. /\ b \in Structs /\ b.cursor = NULL /\ b.index = l.index - 1 /\ b.length = l.length
        /\ b.front = l.front /\ b.back = l.back
    <2>1. l.index - 1 \in Int
      BY <1>1
    <2>2. QED
      BY <1>5, <2>1, IndexSet
  <1>7. /\ r \in Structs /\ r.cursor = NULL /\ r.index = l.index - 1
        /\ r.length = l.length - 1 /\ r.front = l.front /\ r.back = l.back
    <2>1. l.length - 1 \in Nat
      BY <1>1, <1>2
    <2>2. QED
      BY <1>6, <2>1, LengthSet
  <1>8. [l EXCEPT !.cursor = NULL, !.index = @ - 1, !.length = @ - 1] = r
    BY DEF r, b, a, WithLength, WithIndex, WithCursor
  <1> HIDE DEF a, b, r
  <1>9. [h EXCEPT ![h[c[k]].prev].next = h[c[k]].next,
                  ![h[c[k]].next].prev = h[c[k]].prev] = e
    BY DEF WithNext, WithPrev
  <1> HIDE DEF p, q, f
  <1>10. /\ Stored(g) /\ DOMAIN g = DOMAIN h
         /\ \A m \in DOMAIN h : /\ g[m].data = h[m].data /\ g[m].prev = h[m].prev
                                /\ g[m].next = IF m = p THEN q ELSE h[m].next
    BY <1>1, <1>4, NextSet
  <1>11. /\ Stored(e) /\ DOMAIN e = DOMAIN g
         /\ \A m \in DOMAIN g : /\ e[m].data = g[m].data /\ e[m].next = g[m].next
                                /\ e[m].prev = IF m = q THEN p ELSE g[m].prev
    <2>1. Stored(g) /\ q \in DOMAIN g
      BY <1>4, <1>10
    <2> HIDE DEF g
    <2>2. QED
      BY <1>4, <2>1, PrevSet
  <1>12. Stored(z) /\ DOMAIN z = DOMAIN e \ {f} /\ \A m \in DOMAIN e \ {f} : z[m] = e[m]
    <2> HIDE DEF e
    <2>1. QED
      BY <1>11, FreedNode
  <1>13. Both([l EXCEPT !.cursor = NULL, !.index = @ - 1, !.length = @ - 1],
              freeNode([h EXCEPT ![h[c[k]].prev].next = h[c[k]].next,
                                 ![h[c[k]].next].prev = h[c[k]].prev], c[k]))
         = Both(r, z)
    <2> HIDE DEF e
    <2>1. QED
      BY <1>8, <1>9 DEF f
  <1> HIDE DEF g, e, z
  <1>14. TakeOut(h, z, f, p, q)
    <2>1. DOMAIN z = DOMAIN h \ {f}
      BY <1>10, <1>11, <1>12
    <2>2. ASSUME NEW m \in DOMAIN z
          PROVE  /\ z[m] \in Cells /\ z[m].data = h[m].data
                 /\ z[m].next = IF m = p THEN q ELSE h[m].next
                 /\ z[m].prev = IF m = q THEN p ELSE h[m].prev
      <3>1. m \in DOMAIN e /\ m \in DOMAIN g /\ m \in DOMAIN h /\ z[m] = e[m] /\ z[m] \in Cells
        BY <1>10, <1>11, <1>12 DEF Stored
      <3>2. QED
        BY <1>10, <1>11, <3>1
    <2>3. QED
      BY <1>3, <2>1, <2>2 DEF TakeOut
  <1>15. Holds(r, Cut(c, l.length, k))
    <2>1. r.index \in -1 .. (l.length - 2) /\ k # 0 /\ k # l.length - 1
      BY <1>1, <1>2, <1>7
    <2>2. QED
      BY <1>1, <1>2, <1>7, <2>1, HoldsCut
  <1>16. Takes(l, h, c, Both(r, z), k)
    BY <1>3, <1>7, <1>14, <1>15, BothIs DEF Takes, f
  <1>17. Both(r, z).l.cursor = NULL /\ Both(r, z).l.index = k - 1
    BY <1>7, BothIs, SMTT(30)
  <1>18. MiddleOut(l, h, c[k]) = Both(r, z)
    BY <1>13 DEF MiddleOut
  <1>19. QED
    BY <1>16, <1>17, <1>18

-----------------------------------------------------------------------------
(* One list changes, the others stay as they are                           *)
NewRow(rows, L, c) == [K \in Lists |-> IF K = L THEN c ELSE rows[K]]

LEMMA OneListChanges ==
  ASSUME NEW ls, NEW h, NEW rows, Sound(ls, h, rows), NEW L \in Lists,
         NEW l2, NEW h2, NEW c2,
         l2 # NULL => Strung(l2, h2, c2), Stored(h2),
         DOMAIN h2 = (DOMAIN h \ Own(ls[L], rows[L])) \cup Own(l2, c2),
         Own(l2, c2) \cap (DOMAIN h \ Own(ls[L], rows[L])) = {},
         \A m \in DOMAIN h \ Own(ls[L], rows[L]) :
           h2[m].next = h[m].next /\ h2[m].prev = h[m].prev
  PROVE  Sound([ls EXCEPT ![L] = l2], h2, NewRow(rows, L, c2))
  <1> DEFINE ls2 == [ls EXCEPT ![L] = l2]
             rows2 == NewRow(rows, L, c2)
             O(K) == Own(ls[K], rows[K])
  <1>1. /\ DOMAIN ls = Lists /\ \A K \in Lists : ls[K] # NULL => Strung(ls[K], h, rows[K])
        /\ \A J, K \in Lists : J # K => O(J) \cap O(K) = {}
        /\ DOMAIN h = UNION {O(K) : K \in Lists}
    BY DEF Sound
  <1>2. /\ DOMAIN ls2 = Lists /\ ls2[L] = l2 /\ \A K \in Lists : K # L => ls2[K] = ls[K]
        /\ rows2[L] = c2 /\ \A K \in Lists : K # L => rows2[K] = rows[K]
        /\ ls2 = [K \in Lists |-> ls2[K]]
    BY <1>1 DEF NewRow
  <1> HIDE DEF ls2, rows2
  <1>3. \A K \in Lists : K # L => O(K) \subseteq DOMAIN h \ O(L)
    <2> HIDE DEF O
    <2>1. QED
      BY <1>1
  <1>4. ASSUME NEW K \in Lists, ls2[K] # NULL
        PROVE  Strung(ls2[K], h2, rows2[K])
    <2>1. CASE K = L
      BY <1>2, <1>4, <2>1
    <2>2. CASE K # L
      <3> DEFINE l == ls[K]
                 c == rows[K]
      <3>1. l # NULL /\ Strung(l, h, c)
        BY <1>1, <1>2, <1>4, <2>2
      <3>2. \A i \in 0 .. (l.length - 1) : c[i] \in O(K)
        BY <1>2, <2>2, <3>1 DEF Own, NodesOf
      <3>3. \A i \in 0 .. (l.length - 1) :
              c[i] \in DOMAIN h2 /\ h2[c[i]].next = h[c[i]].next /\ h2[c[i]].prev = h[c[i]].prev
        BY <1>3, <2>2, <3>2
      <3> HIDE DEF l, c
      <3>4. Linked(h2, c, l.length)
        BY <3>1, <3>3 DEF Strung, Linked
      <3>5. QED
        BY <1>2, <2>2, <3>1, <3>4 DEF Strung, l, c
    <2>3. QED
      BY <2>1, <2>2
  <1>5. Own(ls2[L], rows2[L]) = Own(l2, c2)
        /\ \A K \in Lists : K # L => Own(ls2[K], rows2[K]) = O(K)
    BY <1>2
  <1>6. ASSUME NEW J \in Lists, NEW K \in Lists, J # K
        PROVE  Own(ls2[J], rows2[J]) \cap Own(ls2[K], rows2[K]) = {}
    <2> HIDE DEF O
    <2>1. CASE J = L
      <3>1. O(K) \subseteq DOMAIN h \ O(L) /\ Own(ls2[K], rows2[K]) = O(K)
        BY <1>3, <1>5, <1>6, <2>1
      <3>2. QED
        BY <1>5, <2>1, <3>1 DEF O
    <2>2. CASE K = L
      <3>1. O(J) \subseteq DOMAIN h \ O(L) /\ Own(ls2[J], rows2[J]) = O(J)
        BY <1>3, <1>5, <1>6, <2>2
      <3>2. QED
        BY <1>5, <2>2, <3>1 DEF O
    <2>3. CASE J # L /\ K # L
      BY <1>1, <1>5, <1>6, <2>3
    <2>4. QED
      BY <2>1, <2>2, <2>3
  <1>7. DOMAIN h2 = UNION {Own(ls2[K], rows2[K]) : K \in Lists}
    <2>1. ASSUME NEW m \in DOMAIN h2
          PROVE  \E K \in Lists : m \in Own(ls2[K], rows2[K])
      <3>1. CASE m \in Own(l2, c2)
        BY <1>5, <3>1
      <3>2. CASE m \in DOMAIN h \ O(L)
        <4> HIDE DEF O
        <4>1. PICK K \in Lists : m \in O(K)
          BY <1>1, <3>2
        <4>2. QED
          BY <1>5, <3>2, <4>1
      <3>3. QED
        BY <3>1, <3>2
    <2>2. ASSUME NEW K \in Lists
          PROVE  Own(ls2[K], rows2[K]) \subseteq DOMAIN h2
      BY <1>3, <1>5
    <2>3. QED
      BY <2>1, <2>2
  <1>8. Sound(ls2, h2, rows2)
    BY <1>2, <1>4, <1>6, <1>7 DEF Sound
  <1>9. QED
    BY <1>8 DEF ls2, rows2

LEMMA NotNull == ASSUME NEW l \in Structs PROVE l # NULL
  BY ListAssumption DEF Structs, Pointers

LEMMA PutsIsSound ==
  ASSUME NEW ls, NEW h, NEW rows, Sound(ls, h, rows), NEW L \in Lists, ls[L] # NULL,
         NEW s, NEW k \in 0 .. ls[L].length, NEW x, NEW d,
         Puts(ls[L], h, rows[L], s, k, x, d)
  PROVE  Sound([ls EXCEPT ![L] = s.l], s.h, NewRow(rows, L, Put(rows[L], ls[L].length, k, x)))
  <1> DEFINE l == ls[L]
             c == rows[L]
             n == l.length
             e == Put(c, n, k, x)
             O == Own(l, c)
  <1>1. Stored(h) /\ Strung(l, h, c) /\ Linked(h, c, n) /\ n \in Nat
    BY DEF Sound, Strung, Holds, Structs
  <1>2. /\ PutIn(h, s.h, x, d, At(c, n, k - 1), At(c, n, k))
        /\ Holds(s.l, e) /\ s.l.length = n + 1
    BY DEF Puts
  <1>3. Linked(s.h, e, n + 1) /\ NodesOf(e, n + 1) = NodesOf(c, n) \cup {x}
    <2> HIDE DEF l, c, n
    <2>1. k \in 0 .. n
      BY DEF l, n
    <2>2. QED
      BY <1>1, <1>2, <2>1, PuttingIn
  <1>4. s.l # NULL /\ Strung(s.l, s.h, e)
    BY <1>2, <1>3, NotNull DEF Strung, Holds
  <1>5. O = NodesOf(c, n) /\ Own(s.l, e) = O \cup {x}
    <2>1. O = NodesOf(c, n)
      BY DEF Own
    <2>2. Own(s.l, e) = NodesOf(e, n + 1)
      BY <1>2, <1>4 DEF Own
    <2>3. QED
      BY <1>3, <2>1, <2>2
  <1>6. /\ Stored(s.h) /\ x \notin DOMAIN h /\ DOMAIN s.h = DOMAIN h \cup {x}
        /\ O \subseteq DOMAIN h
    <2>1. O \subseteq DOMAIN h
      <3>1. \A i \in 0 .. (n - 1) : c[i] \in DOMAIN h
        BY <1>1 DEF Linked
      <3> HIDE DEF n, c, O
      <3>2. QED
        BY <1>5, <3>1 DEF NodesOf
    <2>2. QED
      BY <1>1, <1>2, <2>1 DEF Stored, PutIn
  <1>7. ASSUME NEW m \in DOMAIN h \ O
        PROVE  s.h[m].next = h[m].next /\ s.h[m].prev = h[m].prev
    <2>1. m # At(c, n, k - 1) /\ m # At(c, n, k)
      <3>1. \A i \in 0 .. (n - 1) : c[i] \in O
        BY <1>5 DEF NodesOf
      <3>2. m # NULL
        BY <1>1, ListAssumption DEF Stored
      <3> HIDE DEF O, n, c
      <3>3. QED
        BY <1>7, <3>1, <3>2 DEF At
    <2>2. QED
      BY <1>2, <2>1 DEF PutIn
  <1> HIDE DEF e
  <1>8. QED
    BY <1>4, <1>5, <1>6, <1>7, OneListChanges DEF e

LEMMA TakesIsSound ==
  ASSUME NEW ls, NEW h, NEW rows, Sound(ls, h, rows), NEW L \in Lists, ls[L] # NULL,
         NEW s, NEW k \in 0 .. (ls[L].length - 1),
         Takes(ls[L], h, rows[L], s, k)
  PROVE  Sound([ls EXCEPT ![L] = s.l], s.h, NewRow(rows, L, Cut(rows[L], ls[L].length, k)))
  <1> DEFINE l == ls[L]
             c == rows[L]
             n == l.length
             e == Cut(c, n, k)
             O == Own(l, c)
  <1>1. Stored(h) /\ Strung(l, h, c) /\ Linked(h, c, n) /\ n \in Nat
    BY DEF Sound, Strung, Holds, Structs
  <1>2. /\ TakeOut(h, s.h, c[k], At(c, n, k - 1), At(c, n, k + 1))
        /\ Holds(s.l, e) /\ s.l.length = n - 1
    BY DEF Takes
  <1>3. /\ Linked(s.h, e, n - 1)
        /\ NodesOf(e, n - 1) = NodesOf(c, n) \ {c[k]}
    <2> HIDE DEF l, c, n
    <2>1. k \in 0 .. (n - 1)
      BY DEF l, n
    <2>2. QED
      BY <1>1, <1>2, <2>1, TakingOut
  <1>4. s.l # NULL /\ Strung(s.l, s.h, e)
    BY <1>2, <1>3, NotNull DEF Strung, Holds
  <1>5. O = NodesOf(c, n) /\ Own(s.l, e) = O \ {c[k]} /\ c[k] \in O
    <2>1. O = NodesOf(c, n)
      BY DEF Own
    <2>2. Own(s.l, e) = NodesOf(e, n - 1)
      BY <1>2, <1>4 DEF Own
    <2>3. c[k] \in NodesOf(c, n)
      BY DEF NodesOf
    <2>4. QED
      BY <1>3, <2>1, <2>2, <2>3
  <1>6. /\ Stored(s.h) /\ DOMAIN s.h = DOMAIN h \ {c[k]}
        /\ O \subseteq DOMAIN h
    <2>1. O \subseteq DOMAIN h
      <3>1. \A i \in 0 .. (n - 1) : c[i] \in DOMAIN h
        BY <1>1 DEF Linked
      <3> HIDE DEF n, c, O
      <3>2. QED
        BY <1>5, <3>1 DEF NodesOf
    <2>2. QED
      BY <1>1, <1>2, <2>1 DEF Stored, TakeOut
  <1>7. ASSUME NEW m \in DOMAIN h \ O
        PROVE  s.h[m].next = h[m].next /\ s.h[m].prev = h[m].prev
    <2>1. m # At(c, n, k - 1) /\ m # At(c, n, k + 1) /\ m \in DOMAIN s.h
      <3>1. \A i \in 0 .. (n - 1) : c[i] \in O
        BY <1>5 DEF NodesOf
      <3>2. m # NULL
        BY <1>1, ListAssumption DEF Stored
      <3>3. m \in DOMAIN s.h
        BY <1>5, <1>6
      <3> HIDE DEF O, n, c
      <3>4. QED
        BY <1>7, <3>1, <3>2, <3>3 DEF At
    <2>2. QED
      BY <1>2, <2>1 DEF TakeOut
  <1>8. /\ DOMAIN s.h = (DOMAIN h \ O) \cup Own(s.l, e)
        /\ Own(s.l, e) \cap (DOMAIN h \ O) = {}
    <2> HIDE DEF e, O
    <2>1. QED
      BY <1>5, <1>6
  <1> HIDE DEF e
  <1>9. QED
    BY <1>4, <1>6, <1>7, <1>8, OneListChanges DEF e

-----------------------------------------------------------------------------
(* The walk covers the row                                                 *)
ChainIn(l, h) == {WalkIn(l, h)[i] : i \in 0 .. Cardinality(Nodes)} \ {NULL}

LEMMA RowFits ==
  ASSUME NEW h, NEW c, NEW n \in Nat, Stored(h), Linked(h, c, n)
  PROVE  /\ IsFiniteSet(NodesOf(c, n)) /\ Cardinality(NodesOf(c, n)) = n
         /\ Cardinality(Nodes) \in Nat /\ n <= Cardinality(Nodes)
  <1> DEFINE D == 0 .. (n - 1)
             R == NodesOf(c, n)
  <1>1. IsFiniteSet(D) /\ Cardinality(D) = n
    <2>1. 0 \in Int /\ n - 1 \in Int
      OBVIOUS
    <2>2. IsFiniteSet(D) /\ Cardinality(D) = IF 0 > n - 1 THEN 0 ELSE (n - 1) - 0 + 1
      BY <2>1, FS_Interval
    <2> HIDE DEF D
    <2>3. QED
      BY <2>2
  <1>2. /\ DOMAIN c = D /\ \A i \in D : c[i] \in R /\ c[i] \in Nodes
        /\ \A i, j \in D : c[i] = c[j] => i = j
        /\ \A m \in R : \E i \in D : c[i] = m
        /\ R \subseteq Nodes /\ c = [i \in D |-> c[i]]
    BY DEF Linked, NodesOf, Stored
  <1> HIDE DEF D, R
  <1>3. c \in Bijection(D, R)
    <2>1. c \in [D -> R]
      BY <1>2
    <2>2. c \in Injection(D, R)
      BY <1>2, <2>1, Fun_IsInj
    <2>3. c \in Surjection(D, R)
      BY <1>2, <2>1, Fun_IsSurj
    <2>4. QED
      BY <2>2, <2>3 DEF Bijection
  <1>4. IsFiniteSet(R) /\ Cardinality(R) = n
    <2>1. ExistsBijection(D, R)
      BY <1>3 DEF ExistsBijection
    <2>2. QED
      BY <1>1, <2>1, FS_Bijection
  <1>5. Cardinality(Nodes) \in Nat /\ Cardinality(R) <= Cardinality(Nodes)
    BY <1>2, ListAssumption, FS_Subset, FS_CardinalityType
  <1>6. QED
    BY <1>4, <1>5 DEF R

LEMMA ChainIsRow ==
  ASSUME NEW l, NEW h, NEW c, Strung(l, h, c), Stored(h)
  PROVE  ChainIn(l, h) = NodesOf(c, l.length)
  <1> DEFINE n == l.length
             w == WalkIn(l, h)
  <1>1. n \in Nat /\ Linked(h, c, n)
    BY DEF Strung, Holds, Structs
  <1>2. Cardinality(Nodes) \in Nat /\ n <= Cardinality(Nodes)
    BY <1>1, RowFits
  <1>3. \A i \in Nat : w[i] = At(c, n, i)
    BY WalkIsRow
  <1>4. \A i \in 0 .. (n - 1) : c[i] # NULL
    BY <1>1, ListAssumption DEF Linked, Stored
  <1> HIDE DEF n, w
  <1>5. ASSUME NEW m \in ChainIn(l, h)
        PROVE  m \in NodesOf(c, n)
    BY <1>2, <1>3 DEF ChainIn, NodesOf, At, w
  <1>6. ASSUME NEW m \in NodesOf(c, n)
        PROVE  m \in ChainIn(l, h)
    <2>1. PICK i \in 0 .. (n - 1) : m = c[i]
      BY DEF NodesOf
    <2>2. i \in 0 .. Cardinality(Nodes) /\ i \in Nat
      BY <1>1, <1>2
    <2>3. w[i] = m /\ m # NULL
      BY <1>3, <1>4, <2>1, <2>2 DEF At
    <2>4. QED
      BY <2>2, <2>3 DEF ChainIn, w
  <1>7. QED
    BY <1>5, <1>6 DEF n

LEMMA WalkIs == ASSUME NEW l PROVE Walk(l) = WalkIn(l, heap) /\ Chain(l) = ChainIn(l, heap)
  BY DEF Walk, WalkIn, Chain, ChainIn

-----------------------------------------------------------------------------
(* The calls that leave the links of the other nodes alone                 *)
NoRow == [i \in 0 .. (0 - 1) |-> NULL]

LEMMA EmptyIsStrung ==
  ASSUME NEW h
  PROVE  /\ Strung(Empty, h, NoRow) /\ Empty # NULL
         /\ Own(Empty, NoRow) = {} /\ Own(NULL, NoRow) = {}
  <1>1. Linked(h, NoRow, 0)
    BY DEF Linked, NoRow
  <1>2. Holds(Empty, NoRow)
    <2>1. At(NoRow, 0, 0) = NULL /\ At(NoRow, 0, 0 - 1) = NULL
      BY DEF At
    <2>2. QED
      BY <2>1, EmptyIs DEF Holds
  <1>3. Empty # NULL
    BY EmptyIs, NotNull
  <1>4. NodesOf(NoRow, 0) = {}
    BY DEF NodesOf
  <1>5. QED
    BY <1>1, <1>2, <1>3, <1>4, EmptyIs DEF Strung, Own

LEMMA OwnIs ==
  ASSUME NEW ls, NEW h, NEW rows, Sound(ls, h, rows), NEW L \in Lists
  PROVE  /\ Stored(h) /\ Own(ls[L], rows[L]) \subseteq DOMAIN h
         /\ ls[L] # NULL => /\ Strung(ls[L], h, rows[L])
                            /\ Own(ls[L], rows[L]) = NodesOf(rows[L], ls[L].length)
  BY DEF Sound, Own

LEMMA NewIsSound ==
  ASSUME NEW ls, NEW h, NEW rows, Sound(ls, h, rows), NEW L \in Lists, ls[L] = NULL
  PROVE  Sound([ls EXCEPT ![L] = Empty], h, NewRow(rows, L, NoRow))
  <1>1. Own(ls[L], rows[L]) = {} /\ Stored(h)
    BY DEF Own, Sound
  <1>2. QED
    BY <1>1, EmptyIsStrung, OneListChanges

LEMMA FreedIsSound ==
  ASSUME NEW ls, NEW h, NEW rows, Sound(ls, h, rows), NEW L \in Lists, ls[L] # NULL,
         NEW l2 \in {NULL, Empty}
  PROVE  Sound([ls EXCEPT ![L] = l2], Restrict(h, DOMAIN h \ ChainIn(ls[L], h)),
               NewRow(rows, L, NoRow))
  <1> DEFINE O == Own(ls[L], rows[L])
             h2 == Restrict(h, DOMAIN h \ ChainIn(ls[L], h))
  <1>1. Stored(h) /\ O \subseteq DOMAIN h /\ O = ChainIn(ls[L], h)
    BY OwnIs, ChainIsRow
  <1>2. /\ DOMAIN h2 = DOMAIN h \ O
        /\ \A m \in DOMAIN h \ O : h2[m] = h[m]
    BY <1>1 DEF Restrict
  <1>3. Stored(h2)
    BY <1>1, <1>2 DEF Stored
  <1>4. Own(l2, NoRow) = {} /\ (l2 # NULL => Strung(l2, h2, NoRow))
    <2> HIDE DEF h2
    <2>1. QED
      BY EmptyIsStrung
  <1> HIDE DEF h2
  <1>5. Sound([ls EXCEPT ![L] = l2], h2, NewRow(rows, L, NoRow))
    BY <1>2, <1>3, <1>4, OneListChanges
  <1>6. QED
    BY <1>5 DEF h2

LEMMA SetIsSound ==
  ASSUME NEW ls, NEW h, NEW rows, Sound(ls, h, rows), NEW L \in Lists, ls[L] # NULL,
         NEW p \in DOMAIN h, NEW x \in Values
  PROVE  Sound([ls EXCEPT ![L] = ls[L]], WithData(h, p, x), NewRow(rows, L, rows[L]))
  <1> DEFINE O == Own(ls[L], rows[L])
             l == ls[L]
             c == rows[L]
             k == WithData(h, p, x)
  <1>1. Stored(h) /\ O \subseteq DOMAIN h /\ Strung(l, h, c)
    BY OwnIs
  <1>2. /\ Stored(k) /\ DOMAIN k = DOMAIN h
        /\ \A m \in DOMAIN h : k[m].next = h[m].next /\ k[m].prev = h[m].prev
    BY <1>1, DataSet
  <1> HIDE DEF k, O, l, c
  <1>3. Strung(l, k, c)
    BY <1>1, <1>2 DEF Strung, Linked
  <1>4. DOMAIN k = (DOMAIN h \ O) \cup O /\ O \cap (DOMAIN h \ O) = {}
    BY <1>1, <1>2
  <1>5. Sound([ls EXCEPT ![L] = l], k, NewRow(rows, L, c))
    BY <1>2, <1>3, <1>4, OneListChanges DEF O, l, c
  <1>6. QED
    BY <1>5 DEF k, l, c

LEMMA PointIsSound ==
  ASSUME NEW ls, NEW h, NEW rows, Sound(ls, h, rows), NEW L \in Lists, ls[L] # NULL,
         NEW n, NEW i,
         \/ n = NULL /\ i = -1
         \/ i \in 0 .. (ls[L].length - 1) /\ n = rows[L][i]
  PROVE  Sound([ls EXCEPT ![L] = [ls[L] EXCEPT !.cursor = n, !.index = i]], h,
               NewRow(rows, L, rows[L]))
  <1> DEFINE O == Own(ls[L], rows[L])
             l == ls[L]
             c == rows[L]
             l2 == WithIndex(WithCursor(l, n), i)
  <1>1. Stored(h) /\ O \subseteq DOMAIN h /\ Strung(l, h, c)
    BY OwnIs
  <1> HIDE DEF l, c
  <1>2. /\ l \in Structs /\ l.length \in Nat
        /\ \A j \in 0 .. (l.length - 1) : c[j] \in DOMAIN h /\ c[j] \in Nodes
    BY <1>1, EndsAre
  <1>3. n \in Pointers /\ i \in Int /\ i \in -1 .. (l.length - 1)
    BY <1>2 DEF Pointers, l, c
  <1>4. /\ l2 \in Structs /\ l2.length = l.length /\ l2.front = l.front
        /\ l2.back = l.back /\ l2.cursor = n /\ l2.index = i
    <2> DEFINE l1 == WithCursor(l, n)
    <2>1. /\ l1 \in Structs /\ l1.length = l.length /\ l1.front = l.front
          /\ l1.back = l.back /\ l1.cursor = n
      BY <1>2, <1>3, CursorSet
    <2> HIDE DEF l1
    <2>2. /\ WithIndex(l1, i) \in Structs /\ WithIndex(l1, i).length = l.length
          /\ WithIndex(l1, i).front = l.front /\ WithIndex(l1, i).back = l.back
          /\ WithIndex(l1, i).cursor = n /\ WithIndex(l1, i).index = i
      BY <1>3, <2>1, IndexSet
    <2>3. QED
      BY <2>2 DEF l1
  <1>5. l2 = [l EXCEPT !.cursor = n, !.index = i]
    BY <1>2 DEF WithCursor, WithIndex, Structs
  <1> HIDE DEF l2
  <1>6. l2.cursor # NULL => l2.index >= 0 /\ l2.cursor = c[l2.index]
    BY <1>2, <1>3, <1>4 DEF l, c
  <1>7. Strung(l2, h, c) /\ l2 # NULL
    BY <1>1, <1>3, <1>4, <1>6, NotNull DEF Strung, Holds
  <1>8. Own(l2, c) = O
    BY <1>4, <1>7 DEF Own, O, l, c
  <1> HIDE DEF O
  <1>9. DOMAIN h = (DOMAIN h \ O) \cup O /\ O \cap (DOMAIN h \ O) = {}
    BY <1>1
  <1>10. Sound([ls EXCEPT ![L] = l2], h, NewRow(rows, L, c))
    BY <1>1, <1>7, <1>8, <1>9, OneListChanges DEF O, l, c
  <1>11. QED
    BY <1>5, <1>10 DEF l, c

-----------------------------------------------------------------------------
(* The loop over append                                                    *)

\* f is the state after each of the calls.
Loop(f, h, fresh, seq) ==
  f = [i \in 0 .. Len(seq) |-> IF i = 0 THEN Both(Empty, h)
                               ELSE Appended(f[i - 1], fresh[i], seq[i])]

LEMMA LoopRuns ==
  ASSUME NEW h, NEW fresh, NEW seq, Len(seq) \in Nat
  PROVE  \E f : Loop(f, h, fresh, seq)
  <1> DEFINE N == Len(seq)
             First(f, n) ==
               /\ f[0] = Both(Empty, h)
               /\ \A i \in 1 .. n : f[i] = Appended(f[i - 1], fresh[i], seq[i])
             S == {n \in Nat : \E f : First(f, n)}
  <1>1. 0 \in S
    <2> DEFINE f == [i \in 0 .. 0 |-> Both(Empty, h)]
    <2>1. First(f, 0)
      OBVIOUS
    <2> HIDE DEF f, First
    <2>2. QED
      BY <2>1
  <1>2. ASSUME NEW n \in S PROVE n + 1 \in S
    <2>1. PICK f : First(f, n)
      OBVIOUS
    <2> DEFINE g == [i \in 0 .. (n + 1) |-> IF i = n + 1
                                            THEN Appended(f[n], fresh[n + 1], seq[n + 1])
                                            ELSE f[i]]
    <2>2. /\ n \in Nat /\ g[n + 1] = Appended(f[n], fresh[n + 1], seq[n + 1])
          /\ \A i \in 0 .. n : g[i] = f[i]
      OBVIOUS
    <2> HIDE DEF g
    <2>3. ASSUME NEW i \in 1 .. (n + 1)
          PROVE  g[i] = Appended(g[i - 1], fresh[i], seq[i])
      <3>1. CASE i = n + 1
        <4>1. i - 1 = n /\ g[n] = f[n]
          BY <2>2, <3>1
        <4>2. QED
          BY <2>2, <3>1, <4>1
      <3>2. CASE i \in 1 .. n
        <4>1. i - 1 \in 0 .. n /\ i \in 0 .. n
          BY <2>2, <3>2
        <4>2. QED
          BY <2>1, <2>2, <3>2, <4>1
      <3>3. QED
        BY <2>2, <3>1, <3>2
    <2>4. First(g, n + 1)
      <3>1. g[0] = Both(Empty, h)
        BY <2>1, <2>2
      <3>2. QED
        BY <2>3, <3>1
    <2> HIDE DEF First
    <2>5. QED
      BY <2>2, <2>4
  <1>3. S \in SUBSET Nat
    OBVIOUS
  <1> HIDE DEF S
  <1>4. S = Nat
    BY <1>1, <1>2, <1>3, EveryNat
  <1>5. PICK f : First(f, N)
    <2> HIDE DEF First
    <2>1. QED
      BY <1>4 DEF S
  <1> DEFINE g == [i \in 0 .. N |-> IF i = 0 THEN Both(Empty, h)
                                    ELSE Appended(f[i - 1], fresh[i], seq[i])]
  <1>6. \A i \in 0 .. N : g[i] = f[i]
    BY <1>5
  <1>7. Loop(g, h, fresh, seq)
    <2> HIDE DEF N, First
    <2>1. ASSUME NEW i \in 0 .. N, i # 0
          PROVE  g[i - 1] = f[i - 1]
      <3>1. i - 1 \in 0 .. N
        BY <2>1 DEF N
      <3> HIDE DEF g
      <3>2. QED
        BY <1>6, <3>1
    <2>2. QED
      BY <2>1 DEF Loop, N
  <1>8. QED
    BY <1>7

LEMMA BuiltIsLast ==
  ASSUME NEW h, NEW fresh, NEW seq, Len(seq) \in Nat
  PROVE  \E f : /\ Loop(f, h, fresh, seq) /\ Built(h, fresh, seq) = f[Len(seq)]
                /\ f[0] = Both(Empty, h)
                /\ \A i \in 1 .. Len(seq) : f[i] = Appended(f[i - 1], fresh[i], seq[i])
  <1> DEFINE N == Len(seq)
             f == CHOOSE f : Loop(f, h, fresh, seq)
  <1>1. Loop(f, h, fresh, seq)
    BY LoopRuns
  <1>2. Built(h, fresh, seq) = f[N]
    BY DEF Built, Loop
  <1> HIDE DEF f
  <1>3. f[0] = Both(Empty, h) /\ \A i \in 1 .. N : f[i] = Appended(f[i - 1], fresh[i], seq[i])
    BY <1>1 DEF Loop
  <1>4. QED
    BY <1>1, <1>2, <1>3

\* What holds after i appends to the new list K, whose row is c.
Upto(f, i, c, ls, h, rows, K, fresh, seq) ==
  /\ Sound([ls EXCEPT ![K] = f[i].l], f[i].h, NewRow(rows, K, c))
  /\ f[i] = Both(f[i].l, f[i].h) /\ f[i].l # NULL
  /\ f[i].l.length = i /\ f[i].l.index = -1 /\ f[i].l.cursor = NULL
  /\ \A j \in 0 .. (i - 1) : f[i].h[c[j]].data = seq[j + 1]
  /\ DOMAIN f[i].h = DOMAIN h \cup {fresh[j] : j \in 1 .. i}
  /\ \A m \in DOMAIN h : f[i].h[m].data = h[m].data

LEMMA AppendedIsBoth ==
  ASSUME NEW s, NEW n, NEW x
  PROVE  LET t == Appended(s, n, x) IN t = Both(t.l, t.h)
  <1>1. \A l, h : Both(l, h) = Both(Both(l, h).l, Both(l, h).h)
    BY DEF Both
  <1>2. \E l, h : Appended(s, n, x) = Both(l, h)
    BY SMTT(30) DEF Appended
  <1>3. QED
    BY <1>1, <1>2

LEMMA BuiltStep ==
  ASSUME NEW ls, NEW h, NEW rows, NEW K \in Lists, NEW seq \in Seq(Values),
         NEW fresh \in [DOMAIN seq -> Nodes \ DOMAIN h], Sound(ls, h, rows),
         \A i, j \in DOMAIN seq : fresh[i] = fresh[j] => i = j,
         NEW f, NEW i \in Nat, i + 1 \in 1 .. Len(seq),
         f[i + 1] = Appended(f[i], fresh[i + 1], seq[i + 1]),
         NEW c, Upto(f, i, c, ls, h, rows, K, fresh, seq)
  PROVE  Upto(f, i + 1, Put(c, i, i, fresh[i + 1]), ls, h, rows, K, fresh, seq)
  <1> DEFINE ls1 == [ls EXCEPT ![K] = f[i].l]
             rows1 == NewRow(rows, K, c)
             l1 == f[i].l
             h1 == f[i].h
             s == f[i + 1]
             n == fresh[i + 1]
             x == seq[i + 1]
             e == Put(c, i, i, n)
  <1>1. /\ Sound(ls1, h1, rows1) /\ f[i] = Both(l1, h1) /\ l1 # NULL
        /\ l1.length = i /\ l1.index = -1 /\ l1.cursor = NULL
        /\ \A j \in 0 .. (i - 1) : h1[c[j]].data = seq[j + 1]
        /\ DOMAIN h1 = DOMAIN h \cup {fresh[j] : j \in 1 .. i}
        /\ \A m \in DOMAIN h : h1[m].data = h[m].data
    BY DEF Upto
  <1>2. /\ DOMAIN ls = Lists /\ ls1[K] = l1 /\ rows1[K] = c
        /\ \A l2 : [ls1 EXCEPT ![K] = l2] = [ls EXCEPT ![K] = l2]
        /\ \A c2 : NewRow(rows1, K, c2) = NewRow(rows, K, c2)
    BY DEF Sound, NewRow
  <1>3. DOMAIN seq = 1 .. Len(seq) /\ x \in Values /\ n \in Nodes /\ n \notin DOMAIN h1
    <2>1. DOMAIN seq = 1 .. Len(seq) /\ Len(seq) \in Nat
      BY LenProperties
    <2>2. x \in Values
      BY <2>1, ElementOfSeq
    <2>3. n \in Nodes \ DOMAIN h
      BY <2>1
    <2>4. \A j \in 1 .. i : n # fresh[j]
      <3>1. \A j \in 1 .. i : j \in 1 .. Len(seq) /\ i + 1 # j
        BY <2>1
      <3>2. QED
        BY <2>1, <3>1
    <2> HIDE DEF n, x, h1
    <2>5. QED
      BY <1>1, <2>1, <2>2, <2>3, <2>4
  <1> HIDE DEF ls1, rows1, l1, h1, n, x
  <1>4. Stored(h1) /\ Strung(l1, h1, c)
    BY <1>1, <1>2, OwnIs
  <1>5. s = Appended(Both(l1, h1), n, x)
    BY <1>1 DEF n, x
  <1> HIDE DEF s
  <1>6. Puts(l1, h1, c, s, i, n, x)
    BY <1>1, <1>3, <1>4, <1>5, AppendedPuts
  <1>7. Sound([ls EXCEPT ![K] = s.l], s.h, NewRow(rows, K, e))
    <2>1. i \in 0 .. ls1[K].length
      BY <1>1, <1>2
    <2>2. Sound([ls1 EXCEPT ![K] = s.l], s.h, NewRow(rows1, K, Put(rows1[K], ls1[K].length, i, n)))
      <3>1. Puts(ls1[K], h1, rows1[K], s, i, n, x)
        BY <1>2, <1>6
      <3>2. ls1[K] # NULL
        BY <1>1, <1>2
      <3>3. QED
        BY <1>1, <2>1, <3>1, <3>2, PutsIsSound
    <2>3. QED
      BY <1>1, <1>2, <2>2
  <1>8. /\ s.l # NULL /\ s.l.length = i + 1 /\ s.l.index = -1 /\ s.l.cursor = NULL
        /\ n \notin DOMAIN h1 /\ DOMAIN s.h = DOMAIN h1 \cup {n} /\ s.h[n].data = x
        /\ \A m \in DOMAIN h1 : s.h[m].data = h1[m].data
    <2>1. s.l # NULL
      BY <1>6, NotNull DEF Puts, Holds
    <2>2. s.l.length = i + 1 /\ s.l.index = -1 /\ s.l.cursor = NULL
      BY <1>1, <1>6 DEF Puts
    <2>3. QED
      BY <1>6, <2>1, <2>2 DEF Puts, PutIn
  <1>9. s = Both(s.l, s.h)
    BY <1>5, AppendedIsBoth
  <1>10. ASSUME NEW j \in 0 .. ((i + 1) - 1)
         PROVE  s.h[e[j]].data = seq[j + 1]
    <2>1. CASE j = i
      <3>1. e[j] = n
        BY <2>1 DEF Put
      <3>2. QED
        BY <1>8, <2>1, <3>1 DEF x
    <2>2. CASE j # i
      <3>1. j \in 0 .. (i - 1)
        BY <2>2
      <3>2. e[j] = c[j]
        BY <3>1 DEF Put
      <3>3. c[j] \in DOMAIN h1
        BY <1>1, <1>4, <3>1, EndsAre
      <3>4. QED
        BY <1>1, <1>8, <3>1, <3>2, <3>3
    <2>3. QED
      BY <2>1, <2>2
  <1>11. DOMAIN s.h = DOMAIN h \cup {fresh[j] : j \in 1 .. (i + 1)}
    <2>1. {fresh[j] : j \in 1 .. (i + 1)} = {fresh[j] : j \in 1 .. i} \cup {n}
      <3>1. 1 .. (i + 1) = (1 .. i) \cup {i + 1}
        OBVIOUS
      <3>2. QED
        BY <3>1 DEF n
    <2>2. QED
      BY <1>1, <1>8, <2>1
  <1>12. \A m \in DOMAIN h : s.h[m].data = h[m].data
    BY <1>1, <1>8
  <1> HIDE DEF e
  <1>13. QED
    BY <1>7, <1>8, <1>9, <1>10, <1>11, <1>12 DEF Upto, s, e, n

\* b is the result of the loop: a list K with the row c and the elements seq.
HasBuilt(b, c, ls, h, rows, K, seq) ==
  /\ Sound([ls EXCEPT ![K] = b.l], b.h, NewRow(rows, K, c))
  /\ b.l # NULL /\ b.l.length = Len(seq) /\ b.l.index = -1 /\ b.l.cursor = NULL
  /\ \A j \in 0 .. (Len(seq) - 1) : b.h[c[j]].data = seq[j + 1]
  /\ \A m \in DOMAIN h : b.h[m].data = h[m].data

LEMMA BuiltIsSound ==
  ASSUME NEW ls, NEW h, NEW rows, NEW K \in Lists, NEW seq \in Seq(Values),
         NEW fresh \in [DOMAIN seq -> Nodes \ DOMAIN h], Sound(ls, h, rows),
         \A i, j \in DOMAIN seq : fresh[i] = fresh[j] => i = j, ls[K] = NULL
  PROVE  \E c : HasBuilt(Built(h, fresh, seq), c, ls, h, rows, K, seq)
  <1> DEFINE N == Len(seq)
  <1>1. N \in Nat
    BY LenProperties
  <1>2. PICK f : /\ Built(h, fresh, seq) = f[N] /\ f[0] = Both(Empty, h)
                 /\ \A i \in 1 .. N : f[i] = Appended(f[i - 1], fresh[i], seq[i])
    BY <1>1, BuiltIsLast
  <1> DEFINE Holding(i) == \E c : Upto(f, i, c, ls, h, rows, K, fresh, seq)
             S == {i \in Nat : i <= N => Holding(i)}
  <1>3. 0 \in S
    <2>1. f[0].l = Empty /\ f[0].h = h
      BY <1>2, BothIs
    <2>2. Sound([ls EXCEPT ![K] = Empty], h, NewRow(rows, K, NoRow))
      BY NewIsSound
    <2>3. {fresh[j] : j \in 1 .. 0} = {}
      OBVIOUS
    <2>4. Upto(f, 0, NoRow, ls, h, rows, K, fresh, seq)
      <3>1. /\ f[0].l.length = 0 /\ f[0].l.index = -1 /\ f[0].l.cursor = NULL
            /\ f[0] = Both(f[0].l, f[0].h) /\ f[0].l # NULL
        BY <1>2, <2>1, EmptyIsStrung, EmptyIs
      <3>2. \A j \in 0 .. (0 - 1) : f[0].h[NoRow[j]].data = seq[j + 1]
        OBVIOUS
      <3>3. DOMAIN f[0].h = DOMAIN h \cup {fresh[j] : j \in 1 .. 0}
        BY <2>1, <2>3
      <3>4. QED
        BY <2>1, <2>2, <3>1, <3>2, <3>3 DEF Upto
    <2>5. QED
      BY <2>4
  <1>4. ASSUME NEW i \in S PROVE i + 1 \in S
    <2>1. SUFFICES ASSUME i + 1 <= N PROVE Holding(i + 1)
      OBVIOUS
    <2>2. i \in Nat /\ i + 1 \in 1 .. N /\ (i + 1) - 1 = i
      BY <1>1, <2>1
    <2>3. PICK c : Upto(f, i, c, ls, h, rows, K, fresh, seq)
      BY <1>1, <2>1
    <2>4. f[i + 1] = Appended(f[i], fresh[i + 1], seq[i + 1])
      BY <1>2, <2>2
    <2>5. Upto(f, i + 1, Put(c, i, i, fresh[i + 1]), ls, h, rows, K, fresh, seq)
      BY <2>2, <2>3, <2>4, BuiltStep
    <2>6. QED
      BY <2>5
  <1>5. S \in SUBSET Nat
    OBVIOUS
  <1> HIDE DEF S, Holding
  <1>6. S = Nat
    BY <1>3, <1>4, <1>5, EveryNat
  <1>7. Holding(N)
    BY <1>1, <1>6 DEF S
  <1>8. QED
    BY <1>2, <1>7 DEF Holding, Upto, HasBuilt

-----------------------------------------------------------------------------
(* The elements                                                            *)
Elems(l, h, c) == [i \in 1 .. l.length |-> h[c[i - 1]].data]

LEMMA ElemsAre ==
  ASSUME NEW l, NEW h, NEW c, Stored(h), Strung(l, h, c)
  PROVE  /\ Elems(l, h, c) \in Seq(Values) /\ Len(Elems(l, h, c)) = l.length
         /\ \A i \in 0 .. (l.length - 1) : Elems(l, h, c)[i + 1] = h[c[i]].data
  <1> DEFINE n == l.length
  <1>1. n \in Nat /\ \A i \in 0 .. (n - 1) : c[i] \in DOMAIN h
    BY EndsAre
  <1>2. \A i \in 0 .. (n - 1) : h[c[i]].data \in Values
    BY <1>1 DEF Stored, Cells
  <1>3. Elems(l, h, c) = [i \in 1 .. n |-> h[c[i - 1]].data]
    BY DEF Elems
  <1> HIDE DEF n
  <1>4. \A i \in 1 .. n : i - 1 \in 0 .. (n - 1)
    BY <1>1
  <1>5. Elems(l, h, c) \in [1 .. n -> Values]
    BY <1>2, <1>3, <1>4
  <1>6. Elems(l, h, c) \in Seq(Values) /\ Len(Elems(l, h, c)) = n
    BY <1>1, <1>5, <1>3
  <1>7. ASSUME NEW i \in 0 .. (n - 1)
        PROVE  Elems(l, h, c)[i + 1] = h[c[i]].data
    <2>1. i + 1 \in 1 .. n /\ (i + 1) - 1 = i
      BY <1>1
    <2>2. QED
      BY <1>3, <2>1
  <1>8. QED
    BY <1>6, <1>7 DEF n

\* What DataOf reads, for a list that is not NULL.
DataIn(l, h) == [i \in 1 .. Cardinality(ChainIn(l, h)) |-> h[WalkIn(l, h)[i - 1]].data]

LEMMA DataIsElems ==
  ASSUME NEW l, NEW h, NEW c, Stored(h), Strung(l, h, c)
  PROVE  DataIn(l, h) = Elems(l, h, c)
  <1> DEFINE n == l.length
             w == WalkIn(l, h)
  <1>1. n \in Nat /\ Linked(h, c, n)
    BY DEF Strung, Holds, Structs
  <1>2. Cardinality(ChainIn(l, h)) = n
    BY <1>1, ChainIsRow, RowFits
  <1>3. \A i \in Nat : w[i] = At(c, n, i)
    BY WalkIsRow
  <1>4. ASSUME NEW i \in 1 .. n
        PROVE  w[i - 1] = c[i - 1]
    <2> HIDE DEF n, w
    <2>1. i - 1 \in Nat /\ i - 1 \in 0 .. (n - 1)
      BY <1>1
    <2>2. QED
      BY <1>3, <2>1 DEF At
  <1> HIDE DEF w
  <1>5. QED
    BY <1>2, <1>4 DEF DataIn, Elems, w

LEMMA DataOfIs ==
  ASSUME NEW L, NEW rows, Sound(list, heap, rows), L \in Lists
  PROVE  /\ list[L] = NULL => DataOf(L) = <<>>
         /\ list[L] # NULL => DataOf(L) = Elems(list[L], heap, rows[L])
         /\ DataOf(L) \in Seq(Values)
  <1>1. CASE list[L] = NULL
    <2>1. <<>> \in Seq(Values)
      OBVIOUS
    <2>2. QED
      BY <1>1, <2>1 DEF DataOf
  <1>2. CASE list[L] # NULL
    <2>1. Stored(heap) /\ Strung(list[L], heap, rows[L])
      BY <1>2, OwnIs
    <2>2. DataOf(L) = DataIn(list[L], heap)
      BY <1>2, WalkIs DEF DataOf, DataIn
    <2>3. QED
      BY <1>2, <2>1, <2>2, DataIsElems, ElemsAre
  <1>3. QED
    BY <1>1, <1>2

-----------------------------------------------------------------------------
(* What each call does to the row of its list                              *)

\* A call puts x in front of the k-th node of the row c of L.
PutsAt(L, c, k, x) ==
  /\ list[L] # NULL /\ k \in 0 .. length(L)
  /\ \E s, n : Becomes(L, s) /\ Puts(list[L], heap, c, s, k, n, x)

\* Where each insertion puts its element; those that need a cursor look at
\* its node unless it is at the end they work at.
LEMMA InsertionPuts ==
  ASSUME NEW rows, Sound(list, heap, rows), NEW L \in Lists, NEW x \in Values
  PROVE  /\ prepend(L, x) => PutsAt(L, rows[L], 0, x)
         /\ append(L, x) => PutsAt(L, rows[L], length(L), x)
         /\ insertBefore(L, x) =>
              /\ index(L) >= 0 /\ (index(L) = 0 \/ list[L].cursor # NULL)
              /\ PutsAt(L, rows[L], index(L), x)
         /\ insertAfter(L, x) =>
              /\ index(L) >= 0 /\ (index(L) = length(L) - 1 \/ list[L].cursor # NULL)
              /\ PutsAt(L, rows[L], index(L) + 1, x)
  <1>0. CASE list[L] = NULL
    BY <1>0 DEF prepend, append, insertBefore, insertAfter, Cursor
  <1> SUFFICES ASSUME list[L] # NULL
               PROVE  /\ prepend(L, x) => PutsAt(L, rows[L], 0, x)
                      /\ append(L, x) => PutsAt(L, rows[L], length(L), x)
                      /\ insertBefore(L, x) =>
                           /\ index(L) >= 0 /\ (index(L) = 0 \/ list[L].cursor # NULL)
                           /\ PutsAt(L, rows[L], index(L), x)
                      /\ insertAfter(L, x) =>
                           /\ index(L) >= 0
                           /\ index(L) = length(L) - 1 \/ list[L].cursor # NULL
                           /\ PutsAt(L, rows[L], index(L) + 1, x)
    BY <1>0
  <1> DEFINE l == list[L]
             c == rows[L]
  <1>1. l # NULL
    OBVIOUS
  <1>2. Stored(heap) /\ Strung(l, heap, c)
    BY <1>1, OwnIs
  <1> HIDE DEF l, c
  <1>3. /\ l \in Structs /\ l.length \in Nat /\ l.index \in -1 .. (l.length - 1)
        /\ length(L) = l.length /\ index(L) = l.index
    BY <1>2, EndsAre DEF length, index, l
  <1>4. ASSUME prepend(L, x) PROVE PutsAt(L, c, 0, x)
    <2>1. PICK n \in Nodes \ DOMAIN heap : Becomes(L, Prepended(Both(l, heap), n, x))
      BY <1>4 DEF prepend, Unused, Now, l
    <2>2. Puts(l, heap, c, Prepended(Both(l, heap), n, x), 0, n, x)
      BY <1>2, PrependedPuts
    <2>3. 0 \in 0 .. length(L)
      BY <1>3
    <2>4. QED
      BY <1>1, <2>1, <2>2, <2>3 DEF PutsAt, l
  <1>5. ASSUME append(L, x) PROVE PutsAt(L, c, length(L), x)
    <2>1. PICK n \in Nodes \ DOMAIN heap : Becomes(L, Appended(Both(l, heap), n, x))
      BY <1>5 DEF append, Unused, Now, l
    <2>2. Puts(l, heap, c, Appended(Both(l, heap), n, x), length(L), n, x)
      BY <1>2, <1>3, AppendedPuts
    <2>3. length(L) \in 0 .. length(L)
      BY <1>3
    <2>4. QED
      BY <1>1, <2>1, <2>2, <2>3 DEF PutsAt, l
  <1>6. ASSUME l.cursor # NULL, l.index >= 0
        PROVE  /\ l.cursor = c[l.index] /\ l.index \in 0 .. (l.length - 1)
               /\ heap[l.cursor].prev = At(c, l.length, l.index - 1)
               /\ heap[l.cursor].next = At(c, l.length, l.index + 1)
    <2>1. l.cursor = c[l.index] /\ l.index \in 0 .. (l.length - 1)
      BY <1>2, <1>3, <1>6 DEF Strung, Holds
    <2>2. QED
      BY <1>2, <2>1 DEF Strung, Linked
  <1>7. ASSUME NEW k \in 1 .. (l.length - 1), NEW i \in Int, NEW n \in Nodes \ DOMAIN heap,
               Between(L, n, x, c[k - 1], c[k], i),
               i = IF l.index >= k THEN l.index + 1 ELSE l.index
        PROVE  PutsAt(L, c, k, x)
    <2> DEFINE s == Both([l EXCEPT !.length = @ + 1, !.index = i],
                         newNode([heap EXCEPT ![c[k - 1]].next = n, ![c[k]].prev = n],
                                 n, x, c[k], c[k - 1]))
    <2>1. Becomes(L, s)
      BY <1>7, SMTT(30) DEF Between, l
    <2>2. Puts(l, heap, c, s, k, n, x)
      BY <1>2, <1>7, BetweenPuts
    <2>3. k \in 0 .. length(L)
      BY <1>3
    <2> HIDE DEF s
    <2>4. QED
      BY <1>1, <2>1, <2>2, <2>3 DEF PutsAt, l
  <1>8. ASSUME insertBefore(L, x)
        PROVE  /\ l.index >= 0 /\ (l.index = 0 \/ l.cursor # NULL)
               /\ PutsAt(L, c, l.index, x)
    <2>1. CASE l.index = 0
      <3>1. prepend(L, x)
        BY <1>3, <1>8, <2>1 DEF insertBefore
      <3>2. PutsAt(L, c, l.index, x)
        BY <1>4, <2>1, <3>1
      <3>3. QED
        BY <2>1, <3>2
    <2>2. CASE l.index # 0
      <3>1. /\ l.index >= 0 /\ l.index # 0 /\ l.cursor # NULL
            /\ \E n \in Nodes \ DOMAIN heap :
                 Between(L, n, x, heap[l.cursor].prev, l.cursor, l.index + 1)
        BY <1>8, <2>2 DEF insertBefore, Cursor, Unused, index, l
      <3>2. PICK n \in Nodes \ DOMAIN heap :
              Between(L, n, x, heap[l.cursor].prev, l.cursor, l.index + 1)
        BY <3>1
      <3>3. /\ l.index \in 1 .. (l.length - 1) /\ l.index + 1 \in Int
            /\ l.index - 1 \in 0 .. (l.length - 1)
        BY <1>3, <3>1
      <3>4. heap[l.cursor].prev = c[l.index - 1] /\ l.cursor = c[l.index]
        BY <1>6, <3>1, <3>3 DEF At
      <3>5. l.index + 1 = IF l.index >= l.index THEN l.index + 1 ELSE l.index
        BY <3>3
      <3>6. PutsAt(L, c, l.index, x)
        BY <1>7, <3>1, <3>2, <3>3, <3>4, <3>5
      <3>7. QED
        BY <3>1, <3>6
    <2>3. QED
      BY <2>1, <2>2
  <1>9. ASSUME insertAfter(L, x)
        PROVE  /\ l.index >= 0 /\ (l.index = l.length - 1 \/ l.cursor # NULL)
               /\ PutsAt(L, c, l.index + 1, x)
    <2>1. CASE l.index = l.length - 1
      <3>1. append(L, x) /\ l.index >= 0
        BY <1>3, <1>9, <2>1 DEF insertAfter, Cursor
      <3>2. l.index + 1 = length(L)
        BY <1>3, <2>1
      <3>3. PutsAt(L, c, l.index + 1, x)
        BY <1>5, <3>1, <3>2
      <3>4. QED
        BY <2>1, <3>1, <3>3
    <2>2. CASE l.index # l.length - 1
      <3>1. /\ l.index >= 0 /\ l.index # l.length - 1 /\ l.cursor # NULL
            /\ \E n \in Nodes \ DOMAIN heap :
                 Between(L, n, x, l.cursor, heap[l.cursor].next, l.index)
        BY <1>9, <2>2 DEF insertAfter, Cursor, Unused, index, length, l
      <3>2. PICK n \in Nodes \ DOMAIN heap :
              Between(L, n, x, l.cursor, heap[l.cursor].next, l.index)
        BY <3>1
      <3> DEFINE k == l.index + 1
      <3>3. /\ k \in 1 .. (l.length - 1) /\ l.index \in Int /\ k - 1 = l.index
            /\ k \in 0 .. (l.length - 1)
        BY <1>3, <3>1
      <3>4. heap[l.cursor].next = c[k] /\ l.cursor = c[k - 1]
        BY <1>6, <3>1, <3>3 DEF At
      <3>5. l.index = IF l.index >= k THEN l.index + 1 ELSE l.index
        BY <3>3
      <3>6. Between(L, n, x, c[k - 1], c[k], l.index)
        BY <3>2, <3>4
      <3> HIDE DEF k
      <3>7. PutsAt(L, c, k, x)
        BY <1>7, <3>3, <3>5, <3>6
      <3>8. QED
        BY <3>1, <3>7 DEF k
    <2>3. QED
      BY <2>1, <2>2
  <1>10. QED
    BY <1>3, <1>4, <1>5, <1>8, <1>9 DEF l, c

\* A call takes the k-th node out of the row c of L; the cursor stays with
\* its element, or is lost with an index one less.
FollowsAt(L, c, k) ==
  /\ list[L] # NULL /\ k \in 0 .. (length(L) - 1)
  /\ \E s : Becomes(L, s) /\ Takes(list[L], heap, c, s, k) /\ Follows(list[L], s.l, k)

LosesAt(L, c, k) ==
  /\ list[L] # NULL /\ k \in 1 .. (length(L) - 1)
  /\ \E s : /\ Becomes(L, s) /\ Takes(list[L], heap, c, s, k)
           /\ s.l.cursor = NULL /\ s.l.index = k - 1

\* Which node each deletion takes out, and what becomes of the cursor.
LEMMA DeletionTakes ==
  ASSUME NEW rows, Sound(list, heap, rows), NEW L \in Lists
  PROVE  /\ deleteFront(L) => FollowsAt(L, rows[L], 0)
         /\ deleteBack(L) => FollowsAt(L, rows[L], length(L) - 1)
         /\ delete(L) =>
              /\ index(L) >= 0
              /\ \/ index(L) \in {0, length(L) - 1} /\ FollowsAt(L, rows[L], index(L))
                 \/ /\ index(L) \notin {0, length(L) - 1} /\ list[L].cursor # NULL
                    /\ LosesAt(L, rows[L], index(L))
  <1>0. CASE list[L] = NULL
    BY <1>0, Zenon DEF deleteFront, deleteBack, delete, Cursor
  <1> SUFFICES ASSUME list[L] # NULL
               PROVE  /\ deleteFront(L) => FollowsAt(L, rows[L], 0)
                      /\ deleteBack(L) => FollowsAt(L, rows[L], length(L) - 1)
                      /\ delete(L) =>
                           /\ index(L) >= 0
                           /\ \/ index(L) \in {0, length(L) - 1} /\ FollowsAt(L, rows[L], index(L))
                              \/ /\ index(L) \notin {0, length(L) - 1} /\ list[L].cursor # NULL
                                 /\ LosesAt(L, rows[L], index(L))
    BY <1>0
  <1> DEFINE l == list[L]
             c == rows[L]
  <1>1. l # NULL
    OBVIOUS
  <1>2. Stored(heap) /\ Strung(l, heap, c)
    BY <1>1, OwnIs
  <1> HIDE DEF l, c
  <1>3. /\ l \in Structs /\ l.length \in Nat /\ l.index \in -1 .. (l.length - 1)
        /\ length(L) = l.length /\ index(L) = l.index
    BY <1>2, EndsAre DEF length, index, l
  <1>4. ASSUME deleteFront(L) PROVE FollowsAt(L, c, 0)
    <2> DEFINE s == WithoutFront(Both(l, heap))
    <2>1. Becomes(L, s) /\ l.length >= 1
      BY <1>4 DEF deleteFront, Now, length, l
    <2>2. Takes(l, heap, c, s, 0) /\ Follows(l, s.l, 0)
      BY <1>2, <2>1, WithoutFrontTakes
    <2>3. 0 \in 0 .. (length(L) - 1)
      BY <1>3, <2>1
    <2> HIDE DEF s
    <2>4. QED
      BY <1>1, <2>1, <2>2, <2>3 DEF FollowsAt, l
  <1>5. ASSUME deleteBack(L) PROVE FollowsAt(L, c, length(L) - 1)
    <2> DEFINE s == WithoutBack(Both(l, heap))
               k == l.length - 1
    <2>1. Becomes(L, s) /\ l.length >= 1
      BY <1>5 DEF deleteBack, Now, length, l
    <2>2. Takes(l, heap, c, s, k) /\ Follows(l, s.l, k)
      BY <1>2, <2>1, WithoutBackTakes
    <2>3. k \in 0 .. (length(L) - 1) /\ k = length(L) - 1
      BY <1>3, <2>1
    <2> HIDE DEF s, k
    <2>4. FollowsAt(L, c, k)
      BY <1>1, <2>1, <2>2, <2>3 DEF FollowsAt, l
    <2>5. QED
      BY <2>3, <2>4
  <1>6. ASSUME delete(L)
        PROVE  /\ l.index >= 0
               /\ \/ l.index \in {0, l.length - 1} /\ FollowsAt(L, c, l.index)
                  \/ /\ l.index \notin {0, l.length - 1} /\ l.cursor # NULL
                     /\ LosesAt(L, c, l.index)
    <2>0. l.index >= 0
      BY <1>3, <1>6 DEF delete, Cursor
    <2>1. CASE l.index = 0
      <3>1. deleteFront(L)
        BY <1>3, <1>6, <2>1 DEF delete
      <3>2. QED
        BY <1>4, <2>1, <3>1
    <2>2. CASE l.index # 0 /\ l.index = l.length - 1
      <3>1. deleteBack(L)
        BY <1>3, <1>6, <2>2 DEF delete
      <3>2. FollowsAt(L, c, l.index)
        BY <1>3, <1>5, <2>2, <3>1
      <3>3. QED
        BY <2>0, <2>2, <3>2
    <2>3. CASE l.index # 0 /\ l.index # l.length - 1
      <3> DEFINE s == Both([l EXCEPT !.cursor = NULL, !.index = @ - 1, !.length = @ - 1],
                           freeNode([heap EXCEPT ![heap[l.cursor].prev].next = heap[l.cursor].next,
                                                 ![heap[l.cursor].next].prev = heap[l.cursor].prev],
                                    l.cursor))
                 k == l.index
      <3>1. k >= 0 /\ k # 0 /\ k # l.length - 1 /\ l.cursor # NULL /\ Becomes(L, s)
        BY <1>6, <2>3, ZenonT(60) DEF delete, Cursor, index, length, l
      <3>2. k \in 1 .. (l.length - 2) /\ k \in 0 .. (length(L) - 1)
        BY <1>3, <3>1, SMTT(30)
      <3>3. l.cursor = c[k]
        BY <1>2, <3>1 DEF Strung, Holds
      <3>4. Takes(l, heap, c, s, k) /\ s.l.cursor = NULL /\ s.l.index = k - 1
        <4>1. k = l.index /\ s = MiddleOut(l, heap, l.cursor)
          BY DEF MiddleOut
        <4> HIDE DEF k, s
        <4>2. LET t == MiddleOut(l, heap, c[k]) IN
              Takes(l, heap, c, t, k) /\ t.l.cursor = NULL /\ t.l.index = k - 1
          BY <1>2, <3>2, <4>1, MiddleTakes
        <4>3. QED
          BY <3>3, <4>1, <4>2
      <3>5. k \in 1 .. (length(L) - 1)
        BY <1>3, <3>2
      <3> HIDE DEF s
      <3>6. LosesAt(L, c, k)
        BY <1>1, <3>1, <3>4, <3>5 DEF LosesAt, l
      <3>7. QED
        BY <3>1, <3>6
    <2>4. QED
      BY <2>1, <2>2, <2>3
  <1>7. QED
    BY <1>3, <1>4, <1>5, <1>6 DEF l, c

\* A call puts the cursor under the i-th node of the row c of L, or nowhere.
PointsAt(L, c, i) ==
  /\ list[L] # NULL
  /\ \E n : /\ Becomes(L, Both([list[L] EXCEPT !.cursor = n, !.index = i], heap))
           /\ \/ n = NULL /\ i = -1
              \/ i \in 0 .. (length(L) - 1) /\ n = c[i]

\* Where each motion puts the cursor.
LEMMA MotionPoints ==
  ASSUME NEW rows, Sound(list, heap, rows), NEW L \in Lists
  PROVE  /\ moveFront(L) => length(L) > 0 /\ PointsAt(L, rows[L], 0)
         /\ moveBack(L) => length(L) > 0 /\ PointsAt(L, rows[L], length(L) - 1)
         /\ movePrev(L) => /\ index(L) >= 0 /\ (index(L) = 0 \/ list[L].cursor # NULL)
                           /\ PointsAt(L, rows[L], index(L) - 1)
         /\ moveNext(L) =>
              /\ index(L) >= 0
              /\ \/ index(L) = length(L) - 1 /\ PointsAt(L, rows[L], -1)
                 \/ /\ index(L) # length(L) - 1 /\ list[L].cursor # NULL
                    /\ PointsAt(L, rows[L], index(L) + 1)
  <1>0. CASE list[L] = NULL
    BY <1>0 DEF moveFront, moveBack, movePrev, moveNext
  <1> SUFFICES ASSUME list[L] # NULL
               PROVE  /\ moveFront(L) => length(L) > 0 /\ PointsAt(L, rows[L], 0)
                      /\ moveBack(L) => length(L) > 0 /\ PointsAt(L, rows[L], length(L) - 1)
                      /\ movePrev(L) => /\ index(L) >= 0 /\ (index(L) = 0 \/ list[L].cursor # NULL)
                                        /\ PointsAt(L, rows[L], index(L) - 1)
                      /\ moveNext(L) =>
                           /\ index(L) >= 0
                           /\ \/ index(L) = length(L) - 1 /\ PointsAt(L, rows[L], -1)
                              \/ /\ index(L) # length(L) - 1 /\ list[L].cursor # NULL
                                 /\ PointsAt(L, rows[L], index(L) + 1)
    BY <1>0
  <1> DEFINE l == list[L]
             c == rows[L]
  <1>1. l # NULL
    OBVIOUS
  <1>2. Stored(heap) /\ Strung(l, heap, c)
    BY <1>1, OwnIs
  <1> HIDE DEF l, c
  <1>3. /\ l.length \in Nat /\ l.index \in -1 .. (l.length - 1)
        /\ length(L) = l.length /\ index(L) = l.index
        /\ l.length > 0 => l.front = c[0] /\ l.back = c[l.length - 1]
    BY <1>2, EndsAre DEF length, index, l
  <1>4. ASSUME l.cursor # NULL, l.index >= 0
        PROVE  /\ heap[l.cursor].prev = At(c, l.length, l.index - 1)
               /\ heap[l.cursor].next = At(c, l.length, l.index + 1)
    <2>1. l.cursor = c[l.index] /\ l.index \in 0 .. (l.length - 1)
      BY <1>2, <1>3, <1>4 DEF Strung, Holds
    <2>2. QED
      BY <1>2, <2>1 DEF Strung, Linked
  <1>5. ASSUME NEW n, NEW i, Point(L, n, i),
               (n = NULL /\ i = -1) \/ (i \in 0 .. (l.length - 1) /\ n = c[i])
        PROVE  PointsAt(L, c, i)
    BY <1>1, <1>3, <1>5 DEF PointsAt, Point, l
  <1>6. ASSUME moveFront(L) PROVE length(L) > 0 /\ PointsAt(L, c, 0)
    <2>1. l.length > 0 /\ Point(L, c[0], 0)
      BY <1>3, <1>6 DEF moveFront, l
    <2>2. 0 \in 0 .. (l.length - 1)
      BY <1>3, <2>1
    <2>3. QED
      BY <1>3, <1>5, <2>1, <2>2
  <1>7. ASSUME moveBack(L) PROVE length(L) > 0 /\ PointsAt(L, c, length(L) - 1)
    <2> DEFINE i == l.length - 1
    <2>1. l.length > 0 /\ Point(L, c[i], i)
      BY <1>3, <1>7 DEF moveBack, l
    <2>2. i \in 0 .. (l.length - 1) /\ i = length(L) - 1
      BY <1>3, <2>1
    <2> HIDE DEF i
    <2>3. PointsAt(L, c, i)
      BY <1>5, <2>1, <2>2
    <2>4. QED
      BY <1>3, <2>1, <2>2, <2>3
  <1>8. ASSUME movePrev(L)
        PROVE  /\ l.index >= 0 /\ (l.index = 0 \/ l.cursor # NULL)
               /\ PointsAt(L, c, l.index - 1)
    <2>1. CASE l.index = 0
      <3>1. Point(L, NULL, -1)
        BY <1>3, <1>8, <2>1 DEF movePrev
      <3>2. PointsAt(L, c, -1) /\ l.index - 1 = -1
        BY <1>5, <2>1, <3>1
      <3>3. QED
        BY <2>1, <3>2
    <2>2. CASE l.index # 0
      <3> DEFINE i == l.index - 1
      <3>1. l.index >= 0 /\ l.cursor # NULL /\ Point(L, heap[l.cursor].prev, i)
        BY <1>3, <1>8, <2>2 DEF movePrev, l
      <3>2. i \in 0 .. (l.length - 1)
        BY <1>3, <2>2, <3>1
      <3>3. heap[l.cursor].prev = c[i]
        BY <1>4, <3>1, <3>2 DEF At
      <3> HIDE DEF i
      <3>4. PointsAt(L, c, i)
        BY <1>5, <3>1, <3>2, <3>3
      <3>5. QED
        BY <3>1, <3>4 DEF i
    <2>3. QED
      BY <2>1, <2>2
  <1>9. ASSUME moveNext(L)
        PROVE  /\ l.index >= 0
               /\ \/ l.index = l.length - 1 /\ PointsAt(L, c, -1)
                  \/ /\ l.index # l.length - 1 /\ l.cursor # NULL
                     /\ PointsAt(L, c, l.index + 1)
    <2>1. CASE l.index = l.length - 1
      <3>1. Point(L, NULL, -1) /\ l.index >= 0
        BY <1>3, <1>9, <2>1 DEF moveNext
      <3>2. PointsAt(L, c, -1)
        BY <1>5, <3>1
      <3>3. QED
        BY <2>1, <3>1, <3>2
    <2>2. CASE l.index # l.length - 1
      <3> DEFINE i == l.index + 1
      <3>1. l.index >= 0 /\ l.cursor # NULL /\ Point(L, heap[l.cursor].next, i)
        BY <1>3, <1>9, <2>2 DEF moveNext, l
      <3>2. i \in 0 .. (l.length - 1)
        BY <1>3, <2>2, <3>1
      <3>3. heap[l.cursor].next = c[i]
        BY <1>4, <3>1, <3>2 DEF At
      <3> HIDE DEF i
      <3>4. PointsAt(L, c, i)
        BY <1>5, <3>1, <3>2, <3>3
      <3>5. QED
        BY <2>2, <3>1, <3>4 DEF i
    <2>3. QED
      BY <2>1, <2>2
  <1>10. QED
    BY <1>3, <1>6, <1>7, <1>8, <1>9 DEF l, c

-----------------------------------------------------------------------------
(* The invariant                                                           *)
LEMMA InitIsSound == Init => IInv
  <1>1. SUFFICES ASSUME Init PROVE IInv
    OBVIOUS
  <1> DEFINE rows == [L \in Lists |-> NoRow]
  <1>2. /\ DOMAIN list = Lists /\ \A L \in Lists : list[L] = NULL
        /\ list = [L \in Lists |-> list[L]] /\ DOMAIN heap = {}
        /\ process = "running"
    BY <1>1 DEF Init
  <1>3. Stored(heap)
    BY <1>2 DEF Stored
  <1>4. \A L \in Lists : Own(list[L], rows[L]) = {}
    BY <1>2 DEF Own
  <1>5. Sound(list, heap, rows)
    BY <1>2, <1>3, <1>4 DEF Sound
  <1>6. QED
    BY <1>2, <1>5 DEF IInv

LEMMA BecomingIsSound ==
  ASSUME NEW L \in Lists, NEW s, Becomes(L, s),
         \E rows : Sound([list EXCEPT ![L] = s.l], s.h, rows)
  PROVE  IInv'
  BY DEF Becomes, IInv

LEMMA CallIsSound ==
  ASSUME IInv, NEW L \in Lists, Operation(L)
  PROVE  IInv'
  <1>1. PICK rows : Sound(list, heap, rows)
    BY DEF IInv
  <1>2. list[L] = NULL \/ (Stored(heap) /\ Strung(list[L], heap, rows[L]))
    BY <1>1, OwnIs
  <1>3. ASSUME newList(L) PROVE IInv'
    <2>1. list[L] = NULL /\ Becomes(L, Both(Empty, heap))
      BY <1>3 DEF newList
    <2>2. Sound([list EXCEPT ![L] = Empty], heap, NewRow(rows, L, NoRow))
      BY <1>1, <2>1, NewIsSound
    <2>3. QED
      BY <2>1, <2>2, BothIs, BecomingIsSound
  <1>4. ASSUME freeList(L) \/ clear(L) PROVE IInv'
    <2>1. PICK l2 \in {NULL, Empty} :
            /\ list[L] # NULL
            /\ Becomes(L, Both(l2, Restrict(heap, DOMAIN heap \ ChainIn(list[L], heap))))
      BY <1>4, WalkIs DEF freeList, clear
    <2>2. Sound([list EXCEPT ![L] = l2],
                Restrict(heap, DOMAIN heap \ ChainIn(list[L], heap)), NewRow(rows, L, NoRow))
      BY <1>1, <2>1, FreedIsSound
    <2>3. QED
      BY <2>1, <2>2, BothIs, BecomingIsSound
  <1>5. ASSUME moveFront(L) \/ moveBack(L) \/ movePrev(L) \/ moveNext(L) PROVE IInv'
    <2>0. PICK i : PointsAt(L, rows[L], i)
      BY <1>1, <1>5, MotionPoints
    <2>1. PICK n :
            /\ list[L] # NULL
            /\ Becomes(L, Both([list[L] EXCEPT !.cursor = n, !.index = i], heap))
            /\ \/ n = NULL /\ i = -1
               \/ i \in 0 .. (length(L) - 1) /\ n = rows[L][i]
      BY <2>0 DEF PointsAt
    <2> DEFINE l2 == [list[L] EXCEPT !.cursor = n, !.index = i]
    <2>2. Sound([list EXCEPT ![L] = l2], heap, NewRow(rows, L, rows[L]))
      BY <1>1, <2>1, PointIsSound DEF length
    <2> HIDE DEF l2
    <2>3. Becomes(L, Both(l2, heap))
      BY <2>1 DEF l2
    <2>4. QED
      BY <2>2, <2>3, BothIs, BecomingIsSound
  <1>6. ASSUME deleteFront(L) \/ deleteBack(L) \/ delete(L) PROVE IInv'
    <2>1. PICK k : FollowsAt(L, rows[L], k) \/ LosesAt(L, rows[L], k)
      BY <1>1, <1>6, DeletionTakes
    <2>2. PICK s : /\ list[L] # NULL /\ k \in 0 .. (list[L].length - 1)
                   /\ Becomes(L, s) /\ Takes(list[L], heap, rows[L], s, k)
      BY <2>1 DEF FollowsAt, LosesAt, length
    <2>3. Sound([list EXCEPT ![L] = s.l], s.h, NewRow(rows, L, Cut(rows[L], list[L].length, k)))
      BY <1>1, <2>2, TakesIsSound
    <2>4. QED
      BY <2>2, <2>3, BecomingIsSound
  <1>7. ASSUME NEW x \in Values,
               prepend(L, x) \/ append(L, x) \/ insertBefore(L, x) \/ insertAfter(L, x)
        PROVE  IInv'
    <2>1. PICK k : PutsAt(L, rows[L], k, x)
      BY <1>1, <1>7, InsertionPuts
    <2>2. PICK s, n :
            /\ list[L] # NULL /\ k \in 0 .. list[L].length
            /\ Becomes(L, s) /\ Puts(list[L], heap, rows[L], s, k, n, x)
      BY <2>1 DEF PutsAt, length
    <2>3. Sound([list EXCEPT ![L] = s.l], s.h, NewRow(rows, L, Put(rows[L], list[L].length, k, n)))
      BY <1>1, <2>2, PutsIsSound
    <2>4. QED
      BY <2>2, <2>3, BecomingIsSound
  <1>8. ASSUME NEW x \in Values, set(L, x) PROVE IInv'
    <2> DEFINE p == list[L].cursor
               h2 == WithData(heap, p, x)
    <2>1. /\ list[L] # NULL /\ index(L) >= 0 /\ p # NULL
          /\ Becomes(L, Both(list[L], h2))
      BY <1>8 DEF set, Cursor, WithData
    <2>2. p \in DOMAIN heap
      <3>1. p = rows[L][index(L)] /\ index(L) \in 0 .. (list[L].length - 1)
        BY <1>2, <2>1 DEF Strung, Holds, index, Structs
      <3>2. QED
        BY <1>2, <2>1, <3>1, EndsAre
    <2>3. Sound([list EXCEPT ![L] = list[L]], h2, NewRow(rows, L, rows[L]))
      BY <1>1, <2>1, <2>2, SetIsSound
    <2> HIDE DEF h2, p
    <2>4. QED
      BY <2>1, <2>3, BothIs, BecomingIsSound
  <1>9. ASSUME list[L] = NULL, NEW seq \in Seq(Values), Build(L, seq) PROVE IInv'
    <2>1. PICK fresh \in [DOMAIN seq -> Nodes \ DOMAIN heap] :
            /\ \A i, j \in DOMAIN seq : fresh[i] = fresh[j] => i = j
            /\ Becomes(L, Built(heap, fresh, seq))
      BY <1>9 DEF Build, Unused
    <2> DEFINE b == Built(heap, fresh, seq)
    <2>2. \E c : Sound([list EXCEPT ![L] = b.l], b.h, NewRow(rows, L, c))
      BY <1>1, <1>9, <2>1, BuiltIsSound DEF HasBuilt
    <2> HIDE DEF b
    <2>3. Becomes(L, b)
      BY <2>1 DEF b
    <2>4. QED
      BY <2>2, <2>3, BecomingIsSound
  <1>10. ASSUME NEW A \in Lists, copyList(L, A) PROVE IInv'
    BY <1>1, <1>9, <1>10, DataOfIs DEF copyList
  <1>11. ASSUME NEW A \in Lists, NEW B \in Lists, concatList(L, A, B) PROVE IInv'
    <2>1. DataOf(A) \in Seq(Values) /\ DataOf(B) \in Seq(Values)
      BY <1>1, DataOfIs
    <2>2. DataOf(A) \o DataOf(B) \in Seq(Values)
      BY <2>1, ConcatProperties
    <2>3. QED
      BY <1>9, <1>11, <2>2 DEF concatList
  <1>12. ASSUME Exit(L) \/ Crash(L) PROVE IInv'
    BY <1>1, <1>12 DEF Exit, Crash, IInv
  <1>13. QED
    BY <1>3, <1>4, <1>5, <1>6, <1>7, <1>8, <1>10, <1>11, <1>12 DEF Operation

LEMMA Inductive == Spec => []IInv
  <1>1. IInv /\ [Next]_vars => IInv'
    <2>1. ASSUME IInv, UNCHANGED vars PROVE IInv'
      BY <2>1 DEF IInv, vars
    <2>2. QED
      BY <2>1, CallIsSound DEF Next
  <1>2. QED
    BY <1>1, InitIsSound, PTL DEF Spec

-----------------------------------------------------------------------------
(* What the invariant says of the links, the cursor and equals             *)
LEMMA InvTypes == IInv => TypeOK
  <1>1. SUFFICES ASSUME IInv PROVE TypeOK
    OBVIOUS
  <1>2. PICK rows : Sound(list, heap, rows)
    BY <1>1 DEF IInv
  <1>3. Stored(heap) /\ DOMAIN heap \subseteq Nodes
    BY <1>2 DEF Sound, Stored
  <1>4. ASSUME NEW m \in DOMAIN heap
        PROVE  heap[m] \in [data : Values, next : DOMAIN heap \cup {NULL},
                            prev : DOMAIN heap \cup {NULL}]
    <2>1. PICK L \in Lists : m \in Own(list[L], rows[L])
      BY <1>2 DEF Sound
    <2> DEFINE l == list[L]
               c == rows[L]
    <2>2. l # NULL /\ Strung(l, heap, c) /\ m \in NodesOf(c, l.length)
      BY <1>2, <2>1, OwnIs DEF Own
    <2> HIDE DEF l, c
    <2>3. PICK i \in 0 .. (l.length - 1) : m = c[i]
      BY <2>2 DEF NodesOf
    <2>4. /\ heap[m].next = At(c, l.length, i + 1) /\ heap[m].prev = At(c, l.length, i - 1)
          /\ \A j \in 0 .. (l.length - 1) : c[j] \in DOMAIN heap
      BY <2>2, <2>3 DEF Strung, Linked
    <2>5. heap[m].next \in DOMAIN heap \cup {NULL} /\ heap[m].prev \in DOMAIN heap \cup {NULL}
      BY <2>4 DEF At
    <2>6. heap[m] \in Cells
      BY <1>3 DEF Stored
    <2>7. QED
      BY <2>5, <2>6 DEF Cells
  <1>5. ASSUME NEW L \in Lists, list[L] # NULL
        PROVE  /\ list[L] \in [length : Nat, index : Int, front : DOMAIN heap \cup {NULL},
                               back : DOMAIN heap \cup {NULL}, cursor : DOMAIN heap \cup {NULL}]
               /\ index(L) \in -1 .. (length(L) - 1)
    <2> DEFINE l == list[L]
               c == rows[L]
    <2>1. Strung(l, heap, c)
      BY <1>2, <1>5, OwnIs
    <2>2. index(L) = l.index /\ length(L) = l.length
      BY DEF index, length
    <2> HIDE DEF l, c
    <2>3. /\ l \in Structs /\ l.index \in -1 .. (l.length - 1) /\ l.length \in Nat
          /\ \A j \in 0 .. (l.length - 1) : c[j] \in DOMAIN heap
      BY <1>3, <2>1, EndsAre
    <2>4. /\ l.front = At(c, l.length, 0) /\ l.back = At(c, l.length, l.length - 1)
          /\ l.cursor # NULL => l.index >= 0 /\ l.cursor = c[l.index]
      BY <2>1 DEF Strung, Holds
    <2>5. l.front \in DOMAIN heap \cup {NULL} /\ l.back \in DOMAIN heap \cup {NULL}
      BY <2>3, <2>4 DEF At
    <2>6. l.cursor \in DOMAIN heap \cup {NULL}
      BY <2>3, <2>4
    <2>7. l \in [length : Nat, index : Int, front : DOMAIN heap \cup {NULL},
                 back : DOMAIN heap \cup {NULL}, cursor : DOMAIN heap \cup {NULL}]
      BY <2>3, <2>5, <2>6 DEF Structs
    <2>8. QED
      BY <2>2, <2>3, <2>7 DEF l
  <1>6. QED
    BY <1>1, <1>3, <1>4, <1>5 DEF TypeOK, IInv

LEMMA MadeIs ==
  ASSUME NEW rows, Sound(list, heap, rows), NEW L \in Made
  PROVE  /\ Stored(heap) /\ Strung(list[L], heap, rows[L]) /\ L \in Lists
         /\ length(L) \in Nat /\ index(L) \in -1 .. (length(L) - 1)
         /\ length(L) = list[L].length /\ index(L) = list[L].index
         /\ \A i \in Nat : Walk(list[L])[i] = At(rows[L], length(L), i)
         /\ Chain(list[L]) = Own(list[L], rows[L])
         /\ Cardinality(Chain(list[L])) = length(L)
         /\ Cardinality(Nodes) \in Nat /\ length(L) <= Cardinality(Nodes)
  <1> DEFINE l == list[L]
             c == rows[L]
  <1>1. /\ L \in Lists /\ Stored(heap) /\ Strung(l, heap, c)
        /\ Own(l, c) = NodesOf(c, l.length)
    BY OwnIs DEF Made
  <1>2. length(L) = l.length /\ index(L) = l.index
    BY DEF length, index
  <1> HIDE DEF l, c
  <1>3. l.length \in Nat /\ l.index \in -1 .. (l.length - 1) /\ Linked(heap, c, l.length)
    BY <1>1, EndsAre DEF Strung
  <1>4. \A i \in Nat : Walk(l)[i] = At(c, l.length, i)
    BY <1>1, WalkIsRow, WalkIs
  <1>5. Chain(l) = NodesOf(c, l.length)
    BY <1>1, ChainIsRow, WalkIs
  <1>6. /\ Cardinality(NodesOf(c, l.length)) = l.length
        /\ Cardinality(Nodes) \in Nat /\ l.length <= Cardinality(Nodes)
    BY <1>1, <1>3, RowFits
  <1>7. QED
    BY <1>1, <1>2, <1>3, <1>4, <1>5, <1>6 DEF l, c

LEMMA InvLinks == IInv => WellLinked
  <1>1. SUFFICES ASSUME IInv PROVE WellLinked
    OBVIOUS
  <1>2. PICK rows : Sound(list, heap, rows)
    BY <1>1 DEF IInv
  <1>3. ASSUME NEW L \in Made
        PROVE  LET node == Walk(list[L]) IN
               /\ Cardinality(Chain(list[L])) = length(L)
               /\ node[length(L)] = NULL
               /\ list[L].back = IF length(L) = 0 THEN NULL ELSE node[length(L) - 1]
               /\ \A i \in 0 .. (length(L) - 1) :
                    heap[node[i]].prev = IF i = 0 THEN NULL ELSE node[i - 1]
    <2> DEFINE l == list[L]
               c == rows[L]
               n == length(L)
               w == Walk(list[L])
    <2>1. /\ Strung(l, heap, c) /\ n \in Nat /\ n = l.length
          /\ \A i \in Nat : w[i] = At(c, n, i) /\ Cardinality(Chain(l)) = n
      BY <1>2, MadeIs
    <2> HIDE DEF l, c, n, w
    <2>2. w[n] = NULL
      BY <2>1 DEF At
    <2>3. Cardinality(Chain(l)) = n
      BY <2>1
    <2>4. l.back = IF n = 0 THEN NULL ELSE w[n - 1]
      <3>1. l.back = At(c, n, n - 1)
        BY <2>1 DEF Strung, Holds
      <3>2. CASE n = 0
        BY <3>1, <3>2 DEF At
      <3>3. CASE n # 0
        <4>1. n - 1 \in Nat
          BY <2>1, <3>3
        <4>2. QED
          BY <2>1, <3>1, <3>3, <4>1
      <3>4. QED
        BY <3>2, <3>3
    <2>5. ASSUME NEW i \in 0 .. (n - 1)
          PROVE  heap[w[i]].prev = IF i = 0 THEN NULL ELSE w[i - 1]
      <3>1. w[i] = c[i] /\ heap[c[i]].prev = At(c, n, i - 1)
        BY <2>1 DEF Strung, Linked, At
      <3>2. CASE i = 0
        BY <3>1, <3>2 DEF At
      <3>3. CASE i # 0
        <4>1. i - 1 \in Nat
          BY <3>3
        <4>2. QED
          BY <2>1, <3>1, <3>3, <4>1
      <3>4. QED
        BY <3>2, <3>3
    <2>6. QED
      BY <2>2, <2>3, <2>4, <2>5 DEF l, n, w
  <1>4. \A L \in Made : L \in Lists /\ Chain(list[L]) = Own(list[L], rows[L])
    BY <1>2, MadeIs
  <1>5. \A K, L \in Made : K # L => Chain(list[K]) \cap Chain(list[L]) = {}
    BY <1>2, <1>4 DEF Sound
  <1>6. DOMAIN heap = UNION {Chain(list[L]) : L \in Made}
    <2>1. \A L \in Lists : L \notin Made => Own(list[L], rows[L]) = {}
      BY DEF Own, Made
    <2>2. DOMAIN heap = UNION {Own(list[L], rows[L]) : L \in Lists}
      BY <1>2 DEF Sound
    <2>3. UNION {Own(list[L], rows[L]) : L \in Lists} = UNION {Own(list[L], rows[L]) : L \in Made}
      BY <1>4, <2>1
    <2>4. QED
      BY <1>4, <2>2, <2>3
  <1>7. QED
    BY <1>3, <1>5, <1>6 DEF WellLinked

LEMMA InvCursor == IInv => CursorAtIndex
  <1>1. SUFFICES ASSUME IInv, NEW L \in Made, list[L].cursor # NULL
                 PROVE  index(L) >= 0 /\ Walk(list[L])[index(L)] = list[L].cursor
    BY DEF CursorAtIndex
  <1>2. PICK rows : Sound(list, heap, rows)
    BY <1>1 DEF IInv
  <1>3. /\ Strung(list[L], heap, rows[L]) /\ index(L) = list[L].index
        /\ index(L) \in -1 .. (length(L) - 1) /\ length(L) \in Nat
        /\ \A i \in Nat : Walk(list[L])[i] = At(rows[L], length(L), i)
    BY <1>2, MadeIs
  <1>4. index(L) >= 0 /\ list[L].cursor = rows[L][index(L)]
    BY <1>1, <1>3 DEF Strung, Holds
  <1>5. index(L) \in Nat /\ index(L) \in 0 .. (length(L) - 1)
    BY <1>3, <1>4
  <1>6. QED
    BY <1>3, <1>4, <1>5 DEF At

LEMMA InvEquals == IInv => EqualsComparesElements
  <1>1. SUFFICES ASSUME IInv, NEW A \in Made, NEW B \in Made
                 PROVE  equals(A, B) <=> DataOf(A) = DataOf(B)
    BY DEF EqualsComparesElements
  <1>2. PICK rows : Sound(list, heap, rows)
    BY <1>1 DEF IInv
  <1> DEFINE a == rows[A]
             b == rows[B]
             m == length(A)
             n == length(B)
             E == DataOf(A)
             F == DataOf(B)
             k == Cardinality(Nodes)
             v == Walk(list[A])
             w == Walk(list[B])
  <1>3. /\ list[A] # NULL /\ list[B] # NULL /\ k \in Nat
        /\ m \in Nat /\ m <= k /\ \A i \in Nat : v[i] = At(a, m, i)
        /\ n \in Nat /\ n <= k /\ \A i \in Nat : w[i] = At(b, n, i)
    BY <1>2, MadeIs DEF Made
  <1>4. /\ E = [i \in 1 .. m |-> heap[a[i - 1]].data]
        /\ F = [i \in 1 .. n |-> heap[b[i - 1]].data]
        /\ \A i \in 0 .. (m - 1) : a[i] # NULL
        /\ \A i \in 0 .. (n - 1) : b[i] # NULL
        /\ Len(E) = m /\ Len(F) = n
    <2>1. /\ Stored(heap) /\ Strung(list[A], heap, a) /\ Strung(list[B], heap, b)
          /\ A \in Lists /\ B \in Lists /\ m = list[A].length /\ n = list[B].length
      BY <1>2, MadeIs
    <2>2. E = Elems(list[A], heap, a) /\ F = Elems(list[B], heap, b)
      BY <1>2, <1>3, <2>1, DataOfIs
    <2>3. NULL \notin Nodes
      BY ListAssumption
    <2> HIDE DEF a, b, m, n, E, F, k, v, w
    <2>4. QED
      BY <2>1, <2>2, <2>3, EndsAre, ElemsAre DEF Elems
  <1>5. equals(A, B) <=> /\ m = n
                         /\ \A i \in 0 .. k : v[i] # NULL /\ w[i] # NULL =>
                                              heap[v[i]].data = heap[w[i]].data
    BY <1>3 DEF equals
  <1> HIDE DEF a, b, m, n, E, F, k, v, w
  <1>6. ASSUME m = n
        PROVE  /\ \A i \in 0 .. (m - 1) : v[i] = a[i] /\ w[i] = b[i] /\ a[i] # NULL /\ b[i] # NULL
               /\ \A i \in 0 .. k : i \notin 0 .. (m - 1) => v[i] = NULL
    BY <1>3, <1>4, <1>6 DEF At
  <1>7. ASSUME m = n, \A i \in 0 .. k : v[i] # NULL /\ w[i] # NULL =>
                                        heap[v[i]].data = heap[w[i]].data
        PROVE  E = F
    <2>1. ASSUME NEW i \in 1 .. m
          PROVE  heap[a[i - 1]].data = heap[b[i - 1]].data
      <3>1. i - 1 \in 0 .. (m - 1) /\ i - 1 \in 0 .. k
        BY <1>3
      <3>2. QED
        BY <1>6, <1>7, <3>1
    <2>2. QED
      BY <1>4, <1>7, <2>1
  <1>8. ASSUME E = F
        PROVE  m = n /\ \A i \in 0 .. k : v[i] # NULL /\ w[i] # NULL =>
                                         heap[v[i]].data = heap[w[i]].data
    <2>1. m = n
      BY <1>4, <1>8
    <2>2. ASSUME NEW i \in 0 .. (m - 1)
          PROVE  heap[a[i]].data = heap[b[i]].data
      <3>1. i + 1 \in 1 .. m /\ (i + 1) - 1 = i
        BY <1>3
      <3>2. E[i + 1] = heap[a[i]].data /\ F[i + 1] = heap[b[i]].data
        BY <1>4, <2>1, <3>1
      <3>3. QED
        BY <1>8, <3>2
    <2>3. QED
      BY <1>6, <2>1, <2>2
  <1>9. QED
    BY <1>5, <1>7, <1>8 DEF E, F

-----------------------------------------------------------------------------
(* The fields of the lists and the nodes hold values of their types, after *)
(* any sequence of calls of List.c: a pointer is NULL or points to a node  *)
(* that is allocated, and the index is -1 or inside the list.              *)
THEOREM TypeCorrect == Spec => []TypeOK
  BY Inductive, InvTypes, PTL

(* The links of List.c agree in both directions and end at the front and   *)
(* the back, and every allocated node is in exactly one list: none is      *)
(* shared and none is leaked by any operation.                             *)
THEOREM LinksAgree == Spec => []WellLinked
  BY Inductive, InvLinks, PTL

(* The index that List.c caches is the position of the cursor's node,      *)
(* whatever was inserted and deleted around it.                            *)
THEOREM CursorIsAtItsIndex == Spec => []CursorAtIndex
  BY Inductive, InvCursor, PTL

(* equals says of every two lists that can arise whether they hold the     *)
(* same sequence of elements.                                              *)
THEOREM EqualsIsRight == Spec => []EqualsComparesElements
  BY Inductive, InvEquals, PTL

-----------------------------------------------------------------------------
(* The nodes of a list implement the sequence of its elements              *)

LEMMA ElemsPut ==
  ASSUME NEW l, NEW h, NEW c, Stored(h), Strung(l, h, c), NEW k \in 0 .. l.length,
         NEW s, NEW x, NEW d, Puts(l, h, c, s, k, x, d),
         Stored(s.h), Strung(s.l, s.h, Put(c, l.length, k, x))
  PROVE  Elems(s.l, s.h, Put(c, l.length, k, x)) = Inserted(Elems(l, h, c), k, d)
  <1> DEFINE n == l.length
             e == Put(c, n, k, x)
             E == Elems(l, h, c)
             F == Elems(s.l, s.h, e)
  <1>1. /\ n \in Nat /\ k \in 0 .. n /\ s.l.length = n + 1 /\ d \in Values
        /\ \A i \in 0 .. (n - 1) : c[i] \in DOMAIN h
        /\ s.h[x].data = d /\ \A m \in DOMAIN h : s.h[m].data = h[m].data
    <2>1. n \in Nat /\ \A i \in 0 .. (n - 1) : c[i] \in DOMAIN h
      BY EndsAre
    <2>2. s.l.length = n + 1 /\ d \in Values
          /\ s.h[x].data = d /\ \A m \in DOMAIN h : s.h[m].data = h[m].data
      BY DEF Puts, PutIn
    <2>3. QED
      BY <2>1, <2>2
  <1>2. /\ E \in Seq(Values) /\ Len(E) = n
        /\ \A i \in 0 .. (n - 1) : E[i + 1] = h[c[i]].data
    BY ElemsAre
  <1>3. /\ F \in Seq(Values) /\ Len(F) = n + 1
        /\ \A i \in 0 .. ((n + 1) - 1) : F[i + 1] = s.h[e[i]].data
    <2>1. /\ F \in Seq(Values) /\ Len(F) = s.l.length
          /\ \A i \in 0 .. (s.l.length - 1) : F[i + 1] = s.h[e[i]].data
      <3>1. Stored(s.h) /\ Strung(s.l, s.h, e)
        OBVIOUS
      <3> HIDE DEF e
      <3>2. QED
        BY <3>1, ElemsAre
    <2> HIDE DEF F, e
    <2>2. QED
      BY <1>1, <2>1
  <1>4. \A i \in 0 .. n : e[i] = IF i < k THEN c[i] ELSE IF i = k THEN x ELSE c[i - 1]
    BY DEF Put
  <1>5. /\ Inserted(E, k, d) \in Seq(Values) /\ Len(Inserted(E, k, d)) = n + 1
        /\ \A i \in 1 .. (n + 1) :
             Inserted(E, k, d)[i] = IF i <= k THEN E[i] ELSE IF i = k + 1 THEN d ELSE E[i - 1]
    <2>1. k \in 0 .. Len(E)
      BY <1>1, <1>2
    <2>3. d \in Values /\ E \in Seq(Values)
      BY <1>1, <1>2
    <2> HIDE DEF E, F, e, n
    <2>2. /\ Inserted(E, k, d) \in Seq(Values) /\ Len(Inserted(E, k, d)) = Len(E) + 1
          /\ \A i \in 1 .. (Len(E) + 1) :
               Inserted(E, k, d)[i] = IF i <= k THEN E[i] ELSE IF i = k + 1 THEN d ELSE E[i - 1]
      BY <2>1, <2>3, InsertedIs
    <2>4. QED
      BY <1>2, <2>2
  <1> HIDE DEF e, E, F, n
  <1>6. ASSUME NEW j \in 1 .. (n + 1)
        PROVE  F[j] = Inserted(E, k, d)[j]
    <2> DEFINE i == j - 1
    <2>1. i \in 0 .. n /\ i \in 0 .. ((n + 1) - 1) /\ i + 1 = j
      BY <1>1
    <2>2. F[j] = s.h[e[i]].data
      BY <1>3, <2>1
    <2>3. CASE i < k
      <3>1. j <= k /\ i \in 0 .. (n - 1)
        BY <1>1, <2>1, <2>3
      <3>2. s.h[e[i]].data = h[c[i]].data
        BY <1>1, <1>4, <2>1, <2>3, <3>1
      <3>3. E[j] = h[c[i]].data
        BY <1>2, <2>1, <3>1
      <3>4. QED
        BY <1>5, <2>2, <3>1, <3>2, <3>3
    <2>4. CASE i = k
      <3>1. ~(j <= k) /\ j = k + 1 /\ ~(i < k)
        BY <1>1, <2>1, <2>4
      <3>2. s.h[e[i]].data = d
        BY <1>1, <1>4, <2>1, <2>4, <3>1
      <3>3. QED
        BY <1>5, <2>2, <3>1, <3>2
    <2>5. CASE i > k
      <3>1. /\ ~(j <= k) /\ j # k + 1 /\ ~(i < k) /\ i # k
            /\ i - 1 \in 0 .. (n - 1) /\ (i - 1) + 1 = j - 1
        BY <1>1, <2>1, <2>5
      <3>2. s.h[e[i]].data = h[c[i - 1]].data
        BY <1>1, <1>4, <2>1, <3>1
      <3>3. E[j - 1] = h[c[i - 1]].data
        BY <1>2, <3>1
      <3>4. QED
        BY <1>5, <2>2, <3>1, <3>2, <3>3
    <2>6. i < k \/ i = k \/ i > k
      BY <1>1, <2>1
    <2>7. QED
      BY <2>3, <2>4, <2>5, <2>6
  <1>7. F = Inserted(E, k, d)
    BY <1>3, <1>5, <1>6, SeqEqual
  <1>8. QED
    BY <1>7 DEF e, E, F, n

LEMMA ElemsCut ==
  ASSUME NEW l, NEW h, NEW c, Stored(h), Strung(l, h, c), NEW k \in 0 .. (l.length - 1),
         NEW s, Takes(l, h, c, s, k),
         Stored(s.h), Strung(s.l, s.h, Cut(c, l.length, k))
  PROVE  Elems(s.l, s.h, Cut(c, l.length, k)) = Removed(Elems(l, h, c), k)
  <1> DEFINE n == l.length
             e == Cut(c, n, k)
             E == Elems(l, h, c)
             F == Elems(s.l, s.h, e)
  <1>1. /\ n \in Nat /\ k \in 0 .. (n - 1) /\ s.l.length = n - 1
        /\ \A m \in DOMAIN s.h : s.h[m].data = h[m].data
    <2>1. n \in Nat
      BY EndsAre
    <2>2. s.l.length = n - 1 /\ \A m \in DOMAIN s.h : s.h[m].data = h[m].data
      BY DEF Takes, TakeOut
    <2>3. QED
      BY <2>1, <2>2
  <1>2. /\ E \in Seq(Values) /\ Len(E) = n
        /\ \A i \in 0 .. (n - 1) : E[i + 1] = h[c[i]].data
    BY ElemsAre
  <1>3. /\ F \in Seq(Values) /\ Len(F) = n - 1
        /\ \A i \in 0 .. (n - 2) : F[i + 1] = h[e[i]].data
    <2>1. /\ F \in Seq(Values) /\ Len(F) = s.l.length
          /\ \A i \in 0 .. (s.l.length - 1) : F[i + 1] = s.h[e[i]].data
      BY ElemsAre
    <2>2. \A i \in 0 .. (s.l.length - 1) : e[i] \in DOMAIN s.h
      BY EndsAre
    <2>3. s.l.length - 1 = n - 2
      BY <1>1
    <2> HIDE DEF F, e
    <2>4. QED
      BY <1>1, <2>1, <2>2, <2>3
  <1>4. \A i \in 0 .. (n - 2) : e[i] = IF i < k THEN c[i] ELSE c[i + 1]
    BY DEF Cut
  <1>5. /\ Removed(E, k) \in Seq(Values) /\ Len(Removed(E, k)) = n - 1
        /\ \A i \in 1 .. (n - 1) : Removed(E, k)[i] = IF i <= k THEN E[i] ELSE E[i + 1]
    <2>1. k \in 0 .. (Len(E) - 1)
      BY <1>1, <1>2
    <2> HIDE DEF E
    <2>2. /\ Removed(E, k) \in Seq(Values) /\ Len(Removed(E, k)) = Len(E) - 1
          /\ \A i \in 1 .. (Len(E) - 1) :
               Removed(E, k)[i] = IF i <= k THEN E[i] ELSE E[i + 1]
      BY <1>2, <2>1, RemovedIs
    <2>3. QED
      BY <1>2, <2>2
  <1> HIDE DEF e, E, F, n
  <1>6. ASSUME NEW j \in 1 .. (n - 1)
        PROVE  F[j] = Removed(E, k)[j]
    <2> DEFINE i == j - 1
    <2>1. i \in 0 .. (n - 2) /\ i + 1 = j
      BY <1>1
    <2>2. F[j] = h[e[i]].data
      BY <1>3, <2>1
    <2>3. CASE i < k
      <3>1. j <= k /\ i \in 0 .. (n - 1)
        BY <1>1, <2>1, <2>3
      <3>2. e[i] = c[i] /\ E[j] = h[c[i]].data
        BY <1>2, <1>4, <2>1, <2>3, <3>1
      <3>3. QED
        BY <1>5, <2>2, <3>1, <3>2
    <2>4. CASE ~(i < k)
      <3>1. ~(j <= k) /\ i + 1 \in 0 .. (n - 1) /\ (i + 1) + 1 = j + 1
        BY <1>1, <2>1, <2>4
      <3>2. e[i] = c[i + 1] /\ E[j + 1] = h[c[i + 1]].data
        BY <1>2, <1>4, <2>1, <2>4, <3>1
      <3>3. QED
        BY <1>5, <2>2, <3>1, <3>2
    <2>5. QED
      BY <2>3, <2>4
  <1>7. F = Removed(E, k)
    BY <1>3, <1>5, <1>6, SeqEqual
  <1>8. QED
    BY <1>7 DEF e, E, F, n

LEMMA ElemsSet ==
  ASSUME NEW l, NEW h, NEW c, Stored(h), Strung(l, h, c), NEW k \in 0 .. (l.length - 1),
         NEW x \in Values
  PROVE  Elems(l, WithData(h, c[k], x), c) = [Elems(l, h, c) EXCEPT ![k + 1] = x]
  <1> DEFINE n == l.length
             g == WithData(h, c[k], x)
             E == Elems(l, h, c)
  <1>1. /\ n \in Nat /\ k \in 0 .. (n - 1)
        /\ \A i \in 0 .. (n - 1) : c[i] \in DOMAIN h
        /\ \A i, j \in 0 .. (n - 1) : c[i] = c[j] => i = j
    BY EndsAre DEF Strung, Linked
  <1>2. \A m \in DOMAIN h : g[m].data = IF m = c[k] THEN x ELSE h[m].data
    BY <1>1, DataSet
  <1>3. /\ E = [i \in 1 .. n |-> h[c[i - 1]].data]
        /\ Elems(l, g, c) = [i \in 1 .. n |-> g[c[i - 1]].data]
    BY DEF Elems
  <1> HIDE DEF n, g
  <1>4. ASSUME NEW i \in 1 .. n
        PROVE  g[c[i - 1]].data = IF i = k + 1 THEN x ELSE h[c[i - 1]].data
    <2>1. i - 1 \in 0 .. (n - 1) /\ (i = k + 1 <=> i - 1 = k)
      BY <1>1
    <2>2. c[i - 1] = c[k] <=> i = k + 1
      BY <1>1, <2>1
    <2>3. QED
      BY <1>1, <1>2, <2>1, <2>2
  <1>5. [E EXCEPT ![k + 1] = x] = [i \in 1 .. n |-> IF i = k + 1 THEN x ELSE h[c[i - 1]].data]
    BY <1>3
  <1> HIDE DEF E
  <1>6. QED
    BY <1>3, <1>4, <1>5, ZenonT(60) DEF E, g

\* The refinement mapping, of the lists ls and the heap h.
ItemIn(l, h)    == IF l = NULL THEN NULL ELSE DataIn(l, h)
ItemsIn(ls, h)  == [L \in Lists |-> ItemIn(ls[L], h)]
PositionIn(l)   == IF l = NULL THEN -1 ELSE l.index
PositionsIn(ls) == [L \in Lists |-> PositionIn(ls[L])]
IsLost(l)       == l # NULL /\ l.index >= 0 /\ l.cursor = NULL
LostIn(ls)      == [L \in Lists |-> IsLost(ls[L])]

LEMMA MappingIs ==
  Items = ItemsIn(list, heap) /\ Index = PositionsIn(list) /\ Lost = LostIn(list)
  <1>1. \A L \in Lists : (IF list[L] = NULL THEN NULL ELSE DataOf(L)) = ItemIn(list[L], heap)
    <2>1. ASSUME NEW L \in Lists, list[L] # NULL
          PROVE  DataOf(L) = DataIn(list[L], heap)
      BY <2>1, WalkIs DEF DataOf, DataIn
    <2>2. QED
      BY <2>1 DEF ItemIn
  <1>2. QED
    BY <1>1 DEF Items, ItemsIn, Index, PositionsIn, PositionIn, Lost, LostIn, IsLost, index

LEMMA MappingIsNext ==
  /\ Items' = ItemsIn(list', heap') /\ Index' = PositionsIn(list') /\ Lost' = LostIn(list')
  <1>1. (/\ Items = ItemsIn(list, heap) /\ Index = PositionsIn(list)
         /\ Lost = LostIn(list))'
    BY MappingIs, PTL
  <1>2. QED
    BY <1>1 DEF ItemsIn, ItemIn, DataIn, ChainIn, WalkIn, PositionsIn, LostIn,
                PositionIn, IsLost

LEMMA ItemIs ==
  ASSUME NEW ls, NEW h, NEW rows, Sound(ls, h, rows), NEW L \in Lists
  PROVE  ItemIn(ls[L], h) = IF ls[L] = NULL THEN NULL ELSE Elems(ls[L], h, rows[L])
  BY OwnIs, DataIsElems DEF ItemIn

Updated(f, x, v) == [f EXCEPT ![x] = v]

\* The elements of the other lists are left alone.
LEMMA ItemsChange ==
  ASSUME NEW ls, NEW h, NEW rows, Sound(ls, h, rows), NEW L \in Lists,
         NEW l2, NEW h2, NEW c2, NEW ls2, ls2 = Updated(ls, L, l2),
         Sound(ls2, h2, NewRow(rows, L, c2)),
         \A m \in DOMAIN h \ Own(ls[L], rows[L]) : h2[m].data = h[m].data,
         NEW v, v = IF l2 = NULL THEN NULL ELSE Elems(l2, h2, c2)
  PROVE  ItemsIn(ls2, h2) = Updated(ItemsIn(ls, h), L, v)
  <1> DEFINE rows2 == NewRow(rows, L, c2)
  <1>1. /\ ls2[L] = l2 /\ \A K \in Lists : K # L => ls2[K] = ls[K]
        /\ rows2[L] = c2 /\ \A K \in Lists : K # L => rows2[K] = rows[K]
    BY DEF Sound, NewRow, Updated
  <1> HIDE DEF rows2
  <1>2. Sound(ls2, h2, rows2)
    BY DEF rows2
  <1>3. ItemIn(ls2[L], h2) = v
    BY <1>1, <1>2, ItemIs
  <1>4. ASSUME NEW K \in Lists, K # L
        PROVE  ItemIn(ls2[K], h2) = ItemIn(ls[K], h)
    <2>1. CASE ls[K] = NULL
      BY <1>1, <1>4, <2>1 DEF ItemIn
    <2>2. CASE ls[K] # NULL
      <3> DEFINE l == ls[K]
                 c == rows[K]
      <3>1. /\ l # NULL /\ Strung(l, h, c) /\ Stored(h)
            /\ Own(l, c) = NodesOf(c, l.length) /\ Own(l, c) \subseteq DOMAIN h
            /\ Own(l, c) \cap Own(ls[L], rows[L]) = {}
        <4>1. Own(ls[K], rows[K]) \cap Own(ls[L], rows[L]) = {}
          BY <1>4 DEF Sound
        <4>2. QED
          BY <2>2, <4>1, OwnIs
      <3>2. ItemIn(ls2[K], h2) = Elems(l, h2, c) /\ ItemIn(ls[K], h) = Elems(l, h, c)
        BY <1>1, <1>2, <1>4, <2>2, ItemIs
      <3> HIDE DEF l, c
      <3>3. l.length \in Nat
        BY <3>1, EndsAre
      <3>4. ASSUME NEW i \in 1 .. l.length
            PROVE  h2[c[i - 1]].data = h[c[i - 1]].data
        <4>1. i - 1 \in 0 .. (l.length - 1)
          BY <3>3
        <4>2. c[i - 1] \in DOMAIN h \ Own(ls[L], rows[L])
          BY <3>1, <4>1 DEF NodesOf
        <4>3. QED
          BY <4>2
      <3>5. Elems(l, h2, c) = Elems(l, h, c)
        BY <3>4 DEF Elems
      <3>6. QED
        BY <3>2, <3>5
    <2>3. QED
      BY <2>1, <2>2
  <1>5. QED
    BY <1>1, <1>3, <1>4 DEF ItemsIn, Updated

LEMMA PositionsChange ==
  ASSUME NEW ls, DOMAIN ls = Lists, NEW L \in Lists, NEW l2, NEW ls2, ls2 = Updated(ls, L, l2)
  PROVE  /\ PositionsIn(ls2) = Updated(PositionsIn(ls), L, PositionIn(l2))
         /\ LostIn(ls2) = Updated(LostIn(ls), L, IsLost(l2))
  <1>1. PositionsIn(ls2) = Updated(PositionsIn(ls), L, PositionIn(l2))
    BY DEF PositionsIn, Updated
  <1>2. LostIn(ls2) = Updated(LostIn(ls), L, IsLost(l2))
    BY DEF LostIn, Updated
  <1>3. QED
    BY <1>1, <1>2

\* A call that makes s of the list L is a step of the sequence of L.
LEMMA BecomingRefines ==
  ASSUME NEW rows, Sound(list, heap, rows), NEW L \in Lists, NEW s, Becomes(L, s), NEW c2,
         Sound([list EXCEPT ![L] = s.l], s.h, NewRow(rows, L, c2)),
         \A m \in DOMAIN heap \ Own(list[L], rows[L]) : s.h[m].data = heap[m].data
  PROVE  Abstract!Become(L, IF s.l = NULL THEN NULL ELSE Elems(s.l, s.h, c2),
                         PositionIn(s.l), IsLost(s.l))
  <1> DEFINE l2 == s.l
             h2 == s.h
             v == IF l2 = NULL THEN NULL ELSE Elems(l2, h2, c2)
  <1>1. /\ process = "running" /\ process' = process
        /\ list' = Updated(list, L, l2) /\ heap' = h2
        /\ \A m \in DOMAIN heap \ Own(list[L], rows[L]) : h2[m].data = heap[m].data
    BY DEF Becomes, Updated
  <1>2. /\ Items' = ItemsIn(list', heap') /\ Index' = PositionsIn(list')
        /\ Lost' = LostIn(list')
        /\ Items = ItemsIn(list, heap) /\ Index = PositionsIn(list) /\ Lost = LostIn(list)
    BY MappingIs, MappingIsNext
  <1>3. DOMAIN list = Lists
    BY DEF Sound
  <1>4. Sound(list', h2, NewRow(rows, L, c2))
    BY <1>1 DEF Updated
  <1>5. v = IF l2 = NULL THEN NULL ELSE Elems(l2, h2, c2)
    OBVIOUS
  <1> HIDE DEF l2, h2, v
  <1>6. ItemsIn(list', h2) = Updated(ItemsIn(list, heap), L, v)
    BY <1>1, <1>4, <1>5, ItemsChange
  <1>7. /\ PositionsIn(list') = Updated(PositionsIn(list), L, PositionIn(l2))
        /\ LostIn(list') = Updated(LostIn(list), L, IsLost(l2))
    BY <1>1, <1>3, PositionsChange
  <1>8. Abstract!Become(L, v, PositionIn(l2), IsLost(l2))
    BY <1>1, <1>2, <1>6, <1>7 DEF Abstract!Become, Updated
  <1>9. QED
    BY <1>8 DEF v, l2, h2

LEMMA MappedIs ==
  ASSUME NEW rows, Sound(list, heap, rows), NEW L \in Lists
  PROVE  /\ Items[L] = IF list[L] = NULL THEN NULL ELSE Elems(list[L], heap, rows[L])
         /\ Index[L] = PositionIn(list[L]) /\ Lost[L] = IsLost(list[L])
         /\ (Items[L] = NULL) <=> (list[L] = NULL)
         /\ list[L] # NULL => /\ Items[L] = Elems(list[L], heap, rows[L])
                              /\ Items[L] \in Seq(Values) /\ Len(Items[L]) = length(L)
                              /\ Index[L] = index(L) /\ length(L) \in Nat
                              /\ index(L) \in -1 .. (length(L) - 1)
                              /\ length(L) = list[L].length /\ index(L) = list[L].index
  <1>1. Items[L] = IF list[L] = NULL THEN NULL ELSE Elems(list[L], heap, rows[L])
    <2>1. Items[L] = ItemIn(list[L], heap)
      BY MappingIs DEF ItemsIn
    <2>2. QED
      BY <2>1, ItemIs
  <1>2. Index[L] = PositionIn(list[L]) /\ Lost[L] = IsLost(list[L])
    BY MappingIs DEF PositionsIn, LostIn
  <1>3. list[L] # NULL => /\ Elems(list[L], heap, rows[L]) \in Seq(Values)
                          /\ Len(Elems(list[L], heap, rows[L])) = list[L].length
                          /\ list[L].length \in Nat
                          /\ list[L].index \in -1 .. (list[L].length - 1)
    BY OwnIs, ElemsAre, EndsAre
  <1>4. QED
    BY <1>1, <1>2, <1>3, NullAssumption DEF PositionIn, length, index

\* The abstract operations in terms of Inserted and Removed.
LEMMA SequencesAre ==
  /\ \A s, k, d : Abstract!InsertAt(s, k + 1, d) = Inserted(s, k, d)
  /\ \A s, k : Abstract!RemoveAt(s, k + 1) = Removed(s, k)
  /\ \A s, k, d : Abstract!ReplaceAt(s, k, d) = [s EXCEPT ![k] = d]
  BY DEF Abstract!InsertAt, Abstract!RemoveAt, Abstract!ReplaceAt, Inserted, Removed

LEMMA NewIsStrung ==
  ASSUME NEW ls, DOMAIN ls = Lists, NEW L \in Lists, NEW l2, l2 # NULL, NEW h2,
         NEW rows, NEW c2, Sound([ls EXCEPT ![L] = l2], h2, NewRow(rows, L, c2))
  PROVE  Stored(h2) /\ Strung(l2, h2, c2)
  <1> DEFINE ls2 == [ls EXCEPT ![L] = l2]
             rows2 == NewRow(rows, L, c2)
  <1>1. ls2[L] = l2 /\ rows2[L] = c2
    BY DEF NewRow
  <1> HIDE DEF ls2, rows2
  <1>2. Sound(ls2, h2, rows2)
    BY DEF ls2, rows2
  <1>3. QED
    BY <1>1, <1>2, OwnIs

\* A call that puts x in front of the k-th node puts it there in the sequence.
LEMMA PuttingRefines ==
  ASSUME NEW rows, Sound(list, heap, rows), NEW L \in Lists, NEW x \in Values,
         NEW k, PutsAt(L, rows[L], k, x)
  PROVE  Abstract!PutAt(L, k, x)
  <1>2. PICK s, n : /\ list[L] # NULL /\ Becomes(L, s) /\ k \in 0 .. length(L)
                    /\ Puts(list[L], heap, rows[L], s, k, n, x)
    BY DEF PutsAt
  <1> DEFINE l == list[L]
             c == rows[L]
             e == Put(c, l.length, k, n)
  <1>3. /\ Stored(heap) /\ Strung(l, heap, c) /\ Items[L] = Elems(l, heap, c)
        /\ Items[L] # NULL /\ Len(Items[L]) = l.length /\ l.length = length(L)
        /\ Index[L] = l.index /\ l.index = index(L) /\ Lost[L] = IsLost(l)
        /\ l.index \in -1 .. (l.length - 1) /\ l.length \in Nat
    BY <1>2, OwnIs, MappedIs
  <1>4. Sound([list EXCEPT ![L] = s.l], s.h, NewRow(rows, L, e))
    BY <1>2, <1>3, PutsIsSound
  <1>5. s.l # NULL /\ Stored(s.h) /\ Strung(s.l, s.h, e)
    <2>1. s.l # NULL
      BY <1>2, NotNull DEF Puts, Holds
    <2>2. DOMAIN list = Lists
      BY DEF Sound
    <2> DEFINE l2 == s.l
               h2 == s.h
    <2>3. Sound([list EXCEPT ![L] = l2], h2, NewRow(rows, L, e)) /\ l2 # NULL
      BY <1>4, <2>1
    <2> HIDE DEF e, l2, h2
    <2>4. Stored(h2) /\ Strung(l2, h2, e)
      BY <2>2, <2>3, NewIsStrung
    <2>5. QED
      BY <2>3, <2>4 DEF l2, h2
  <1>6. Elems(s.l, s.h, e) = Inserted(Items[L], k, x)
    <2>1. k \in 0 .. l.length /\ Puts(l, heap, c, s, k, n, x)
      BY <1>2, <1>3
    <2> HIDE DEF l, c
    <2>2. Elems(s.l, s.h, e) = Inserted(Elems(l, heap, c), k, x)
      BY <1>3, <1>5, <2>1, ElemsPut
    <2>3. QED
      BY <1>3, <2>2
  <1>7. \A m \in DOMAIN heap : s.h[m].data = heap[m].data
    BY <1>2 DEF Puts, PutIn
  <1>8. Abstract!Become(L, IF s.l = NULL THEN NULL ELSE Elems(s.l, s.h, e),
                        PositionIn(s.l), IsLost(s.l))
    <2> HIDE DEF e
    <2>1. QED
      BY <1>2, <1>4, <1>7, BecomingRefines
  <1>9. /\ PositionIn(s.l) = IF Index[L] >= k THEN Index[L] + 1 ELSE Index[L]
        /\ IsLost(s.l) = Lost[L]
    <2>1. s.l.cursor = l.cursor /\ s.l.index = IF l.index >= k THEN l.index + 1 ELSE l.index
      BY <1>2 DEF Puts
    <2>2. PositionIn(s.l) = s.l.index
      BY <1>5 DEF PositionIn
    <2>3. s.l.index >= 0 <=> l.index >= 0
      BY <1>2, <1>3, <2>1
    <2>4. IsLost(s.l) = IsLost(l)
      BY <1>2, <1>5, <2>1, <2>3 DEF IsLost
    <2> HIDE DEF l
    <2>5. QED
      BY <1>3, <2>1, <2>2, <2>4
  <1>10. Abstract!Become(L, Abstract!InsertAt(Items[L], k + 1, x),
                         IF Index[L] >= k THEN Index[L] + 1 ELSE Index[L], Lost[L])
    BY <1>5, <1>6, <1>8, <1>9, SequencesAre
  <1>11. QED
    BY <1>10 DEF Abstract!PutAt

LEMMA InsertionRefines ==
  ASSUME NEW rows, Sound(list, heap, rows), NEW L \in Lists, NEW x \in Values
  PROVE  /\ prepend(L, x) => Items[L] # NULL /\ Abstract!prepend(L, x)
         /\ append(L, x) => Items[L] # NULL /\ Abstract!append(L, x)
         /\ insertBefore(L, x) => Items[L] # NULL /\ Abstract!insertBefore(L, x)
         /\ insertAfter(L, x) => Items[L] # NULL /\ Abstract!insertAfter(L, x)
  <1>1. ASSUME NEW k, PutsAt(L, rows[L], k, x)
        PROVE  /\ Items[L] # NULL /\ Abstract!PutAt(L, k, x)
               /\ Len(Items[L]) = length(L) /\ Index[L] = index(L)
               /\ index(L) >= 0 /\ list[L].cursor # NULL => ~Lost[L]
    <2>1. list[L] # NULL /\ Abstract!PutAt(L, k, x)
      BY <1>1, PuttingRefines DEF PutsAt
    <2>2. QED
      BY <2>1, MappedIs DEF IsLost
  <1>2. ASSUME prepend(L, x) PROVE Items[L] # NULL /\ Abstract!prepend(L, x)
    BY <1>1, <1>2, InsertionPuts DEF Abstract!prepend
  <1>3. ASSUME append(L, x) PROVE Items[L] # NULL /\ Abstract!append(L, x)
    <2>1. PutsAt(L, rows[L], length(L), x)
      BY <1>3, InsertionPuts
    <2>2. QED
      BY <1>1, <2>1 DEF Abstract!append
  <1>4. ASSUME insertBefore(L, x) PROVE Items[L] # NULL /\ Abstract!insertBefore(L, x)
    <2>1. /\ index(L) >= 0 /\ (index(L) = 0 \/ list[L].cursor # NULL)
          /\ PutsAt(L, rows[L], index(L), x)
      BY <1>4, InsertionPuts
    <2>2. QED
      BY <1>1, <2>1 DEF Abstract!insertBefore, Abstract!IsOn
  <1>5. ASSUME insertAfter(L, x) PROVE Items[L] # NULL /\ Abstract!insertAfter(L, x)
    <2>1. /\ index(L) >= 0 /\ (index(L) = length(L) - 1 \/ list[L].cursor # NULL)
          /\ PutsAt(L, rows[L], index(L) + 1, x)
      BY <1>5, InsertionPuts
    <2>2. QED
      BY <1>1, <2>1 DEF Abstract!insertAfter, Abstract!IsOn, Abstract!BackOf
  <1>6. QED
    BY <1>2, <1>3, <1>4, <1>5

\* Without the k-th node the sequence is one without its k-th element.
LEMMA TakingRefines ==
  ASSUME NEW rows, Sound(list, heap, rows), NEW L \in Lists, list[L] # NULL,
         NEW k \in 0 .. (length(L) - 1), NEW s, Becomes(L, s),
         Takes(list[L], heap, rows[L], s, k)
  PROVE  Abstract!Become(L, Abstract!RemoveAt(Items[L], k + 1), s.l.index,
                         s.l.index >= 0 /\ s.l.cursor = NULL)
  <1> DEFINE l == list[L]
             c == rows[L]
             e == Cut(c, l.length, k)
  <1>3. /\ Stored(heap) /\ Strung(l, heap, c) /\ Items[L] = Elems(l, heap, c)
        /\ Items[L] # NULL /\ Len(Items[L]) = l.length /\ l.length = length(L)
        /\ Index[L] = l.index /\ l.index = index(L) /\ Lost[L] = IsLost(l)
        /\ l.index \in -1 .. (l.length - 1) /\ l.length \in Nat
    BY OwnIs, MappedIs
  <1>4. Sound([list EXCEPT ![L] = s.l], s.h, NewRow(rows, L, e))
    BY <1>3, TakesIsSound
  <1>5. s.l # NULL /\ Stored(s.h) /\ Strung(s.l, s.h, e)
    <2>1. s.l # NULL
      BY NotNull DEF Takes, Holds
    <2>2. DOMAIN list = Lists
      BY DEF Sound
    <2> DEFINE l2 == s.l
               h2 == s.h
    <2>3. Sound([list EXCEPT ![L] = l2], h2, NewRow(rows, L, e)) /\ l2 # NULL
      BY <1>4, <2>1
    <2> HIDE DEF e, l2, h2
    <2>4. Stored(h2) /\ Strung(l2, h2, e)
      BY <2>2, <2>3, NewIsStrung
    <2>5. QED
      BY <2>3, <2>4 DEF l2, h2
  <1>6. Elems(s.l, s.h, e) = Removed(Items[L], k)
    <2>1. k \in 0 .. (l.length - 1) /\ Takes(l, heap, c, s, k)
      BY <1>3
    <2> HIDE DEF l, c
    <2>2. Elems(s.l, s.h, e) = Removed(Elems(l, heap, c), k)
      BY <1>3, <1>5, <2>1, ElemsCut
    <2>3. QED
      BY <1>3, <2>2
  <1>7. ASSUME NEW m \in DOMAIN heap \ Own(l, c)
        PROVE  s.h[m].data = heap[m].data
    <2>1. c[k] \in Own(l, c)
      <3>1. Own(l, c) = NodesOf(c, l.length)
        BY OwnIs
      <3>2. QED
        BY <1>3, <3>1 DEF NodesOf
    <2>2. m \in DOMAIN s.h
      BY <2>1 DEF Takes, TakeOut
    <2>3. QED
      BY <2>2 DEF Takes, TakeOut
  <1>8. Abstract!Become(L, IF s.l = NULL THEN NULL ELSE Elems(s.l, s.h, e),
                        PositionIn(s.l), IsLost(s.l))
    <2> HIDE DEF e
    <2>1. QED
      BY <1>4, <1>7, BecomingRefines
  <1> DEFINE rest == Abstract!RemoveAt(Items[L], k + 1)
  <1>9. Abstract!Become(L, rest, s.l.index, s.l.index >= 0 /\ s.l.cursor = NULL)
    <2>1. PositionIn(s.l) = s.l.index /\ IsLost(s.l) = (s.l.index >= 0 /\ s.l.cursor = NULL)
      BY <1>5 DEF PositionIn, IsLost
    <2>2. rest = IF s.l = NULL THEN NULL ELSE Elems(s.l, s.h, e)
      BY <1>5, <1>6, SequencesAre
    <2> HIDE DEF rest, e
    <2>3. QED
      BY <1>8, <2>1, <2>2
  <1>10. QED
    BY <1>9

\* Taking out the k-th node with a cursor that follows is the abstract deletion.
LEMMA FollowingRefines ==
  ASSUME NEW rows, Sound(list, heap, rows), NEW L \in Lists,
         NEW k, FollowsAt(L, rows[L], k)
  PROVE  Abstract!DeleteAt(L, k)
  <1> DEFINE l == list[L]
             rest == Abstract!RemoveAt(Items[L], k + 1)
  <1>1. PICK s : /\ l # NULL /\ k \in 0 .. (length(L) - 1) /\ Becomes(L, s)
                 /\ Takes(l, heap, rows[L], s, k) /\ Follows(l, s.l, k)
    BY DEF FollowsAt
  <1>2. Abstract!Become(L, rest, s.l.index, s.l.index >= 0 /\ s.l.cursor = NULL)
    BY <1>1, TakingRefines
  <1>3. /\ Len(Items[L]) = l.length /\ l.length = length(L)
        /\ Index[L] = l.index /\ Lost[L] = (l.index >= 0 /\ l.cursor = NULL)
        /\ l.index \in -1 .. (l.length - 1) /\ l.length \in Nat
    BY <1>1, MappedIs DEF IsLost
  <1> HIDE DEF l, rest
  <1>4. CASE l.length > 1 /\ l.index > k
    <2>1. s.l.cursor = l.cursor /\ s.l.index = l.index - 1 /\ s.l.index >= 0 /\ l.index >= 0
      BY <1>1, <1>3, <1>4 DEF Follows
    <2>2. Abstract!Become(L, rest, Index[L] - 1, Lost[L])
      BY <1>2, <1>3, <2>1
    <2>3. Index[L] > k /\ Len(Items[L]) > 1 /\ ~(Index[L] < k)
      BY <1>1, <1>3, <1>4
    <2>4. QED
      BY <2>2, <2>3 DEF Abstract!DeleteAt, rest
  <1>5. CASE l.length > 1 /\ l.index < k
    <2>1. s.l.cursor = l.cursor /\ s.l.index = l.index
      BY <1>1, <1>3, <1>5 DEF Follows
    <2>2. Abstract!Become(L, rest, Index[L], Lost[L])
      BY <1>2, <1>3, <2>1
    <2>3. Index[L] < k /\ Len(Items[L]) > 1 /\ ~(Index[L] > k)
      BY <1>1, <1>3, <1>5
    <2>4. QED
      BY <2>2, <2>3 DEF Abstract!DeleteAt, rest
  <1>6. CASE ~(l.length > 1) \/ l.index = k
    <2>1. s.l.cursor = NULL /\ s.l.index = -1 /\ ~(s.l.index >= 0)
      BY <1>1, <1>3, <1>6 DEF Follows
    <2>2. Abstract!Become(L, rest, -1, FALSE)
      BY <1>2, <2>1
    <2>3. ~(Index[L] > k /\ Len(Items[L]) > 1) /\ ~(Index[L] < k /\ Len(Items[L]) > 1)
      BY <1>1, <1>3, <1>6
    <2>4. QED
      BY <2>2, <2>3 DEF Abstract!DeleteAt, rest
  <1>7. QED
    BY <1>1, <1>3, <1>4, <1>5, <1>6

LEMMA DeletionRefines ==
  ASSUME NEW rows, Sound(list, heap, rows), NEW L \in Lists
  PROVE  /\ deleteFront(L) => Items[L] # NULL /\ Abstract!deleteFront(L)
         /\ deleteBack(L) => Items[L] # NULL /\ Abstract!deleteBack(L)
         /\ delete(L) => Items[L] # NULL /\ Abstract!delete(L)
  <1>1. list[L] # NULL =>
          /\ Items[L] # NULL /\ Abstract!BackOf(L) = length(L) - 1
          /\ Index[L] = index(L) /\ index(L) \in -1 .. (length(L) - 1) /\ length(L) \in Nat
          /\ Lost[L] = (index(L) >= 0 /\ list[L].cursor = NULL)
    BY MappedIs DEF Abstract!BackOf, IsLost, index
  <1>2. ASSUME NEW k, FollowsAt(L, rows[L], k)
        PROVE  /\ Items[L] # NULL /\ Abstract!BackOf(L) >= 0 /\ Abstract!DeleteAt(L, k)
    <2>1. list[L] # NULL /\ k \in 0 .. (length(L) - 1)
      BY <1>2 DEF FollowsAt
    <2>2. QED
      BY <1>1, <1>2, <2>1, FollowingRefines
  <1>3. ASSUME deleteFront(L) PROVE Items[L] # NULL /\ Abstract!deleteFront(L)
    BY <1>2, <1>3, DeletionTakes DEF Abstract!deleteFront
  <1>4. ASSUME deleteBack(L) PROVE Items[L] # NULL /\ Abstract!deleteBack(L)
    <2>1. FollowsAt(L, rows[L], length(L) - 1) /\ list[L] # NULL
      BY <1>4, DeletionTakes DEF FollowsAt
    <2>2. QED
      BY <1>1, <1>2, <2>1 DEF Abstract!deleteBack
  <1>5. ASSUME delete(L) PROVE Items[L] # NULL /\ Abstract!delete(L)
    <2>1. CASE index(L) \in {0, length(L) - 1} /\ FollowsAt(L, rows[L], index(L))
      <3>1. list[L] # NULL /\ index(L) >= 0
        BY <2>1 DEF FollowsAt
      <3>2. Items[L] # NULL /\ Abstract!DeleteAt(L, Index[L])
        BY <1>1, <1>2, <2>1, <3>1
      <3>3. Index[L] >= 0 /\ Index[L] \in {0, Abstract!BackOf(L)}
        BY <1>1, <2>1, <3>1
      <3>4. QED
        BY <3>2, <3>3 DEF Abstract!delete
    <2>2. CASE /\ index(L) \notin {0, length(L) - 1} /\ list[L].cursor # NULL
               /\ LosesAt(L, rows[L], index(L)) /\ index(L) >= 0
      <3>1. PICK s : /\ list[L] # NULL /\ index(L) \in 0 .. (length(L) - 1)
                     /\ Becomes(L, s) /\ Takes(list[L], heap, rows[L], s, index(L))
                     /\ s.l.cursor = NULL /\ s.l.index = index(L) - 1 /\ index(L) >= 1
        BY <2>2 DEF LosesAt
      <3>2. PICK k \in 0 .. (length(L) - 1) :
              k = index(L) /\ Takes(list[L], heap, rows[L], s, k)
        BY <3>1
      <3>3. Abstract!Become(L, Abstract!RemoveAt(Items[L], k + 1), s.l.index,
                            s.l.index >= 0 /\ s.l.cursor = NULL)
        BY <3>1, <3>2, TakingRefines
      <3>4. (s.l.index >= 0 /\ s.l.cursor = NULL) = TRUE
        BY <3>1
      <3>5. Items[L] # NULL /\ Index[L] = index(L) /\ ~Lost[L]
        BY <1>1, <2>2, <3>1
      <3>6. Abstract!Become(L, Abstract!RemoveAt(Items[L], Index[L] + 1), Index[L] - 1, TRUE)
        BY <3>1, <3>2, <3>3, <3>4, <3>5
      <3>7. Abstract!IsOn(L) /\ Index[L] \notin {0, Abstract!BackOf(L)}
        BY <1>1, <2>2, <3>1, <3>5 DEF Abstract!IsOn
      <3>8. QED
        BY <3>5, <3>6, <3>7 DEF Abstract!delete
    <2>3. QED
      BY <1>5, <2>1, <2>2, DeletionTakes
  <1>6. QED
    BY <1>3, <1>4, <1>5

\* A call that points the cursor at the i-th node moves it there, and finds it.
LEMMA PointingRefines ==
  ASSUME NEW rows, Sound(list, heap, rows), NEW L \in Lists,
         NEW i, PointsAt(L, rows[L], i)
  PROVE  Abstract!MoveTo(L, i)
  <1>1. PICK n :
           /\ list[L] # NULL
           /\ Becomes(L, Both([list[L] EXCEPT !.cursor = n, !.index = i], heap))
           /\ \/ n = NULL /\ i = -1
              \/ i \in 0 .. (length(L) - 1) /\ n = rows[L][i]
    BY DEF PointsAt
  <1> DEFINE l == list[L]
             c == rows[L]
             l2 == [l EXCEPT !.cursor = n, !.index = i]
  <1>2. /\ Stored(heap) /\ Strung(l, heap, c) /\ Items[L] = Elems(l, heap, c)
        /\ Items[L] # NULL /\ Len(Items[L]) = l.length /\ l.length = length(L)
        /\ Index[L] = l.index /\ l.index = index(L) /\ Lost[L] = IsLost(l)
        /\ l.index \in -1 .. (l.length - 1) /\ l.length \in Nat
    BY <1>1, OwnIs, MappedIs
  <1>3. Sound([list EXCEPT ![L] = l2], heap, NewRow(rows, L, c))
    BY <1>1, <1>2, PointIsSound
  <1>4. Becomes(L, Both(l2, heap))
    BY <1>1
  <1>5. /\ l2.length = l.length /\ l2.cursor = n /\ l2.index = i
    <2>1. l \in Structs
      BY <1>2 DEF Strung, Holds
    <2>2. QED
      BY <2>1 DEF Structs
  <1>6. /\ i \in -1 .. (l.length - 1)
        /\ \A j \in 0 .. (l.length - 1) : c[j] # NULL
        /\ (i = -1 /\ n = NULL) \/ (i \in 0 .. (l.length - 1) /\ n # NULL)
    <2>1. \A j \in 0 .. (l.length - 1) : c[j] # NULL
      BY <1>2, EndsAre, ListAssumption
    <2> HIDE DEF l2
    <2>2. QED
      BY <1>1, <1>2, <2>1
  <1> HIDE DEF l2
  <1>7. l2 # NULL
    <2>1. DOMAIN list = Lists
      BY DEF Sound
    <2>2. l2 \in Structs
      <3>1. l \in Structs /\ n \in Pointers /\ i \in Int
        <4>1. \A j \in 0 .. (l.length - 1) : c[j] \in Nodes
          BY <1>2, EndsAre
        <4>2. n \in Pointers
          BY <1>1, <1>2, <4>1 DEF Pointers
        <4>3. QED
          BY <1>2, <1>6, <4>2 DEF Strung, Holds
      <3>2. QED
        BY <3>1 DEF l2, Structs
    <2>3. QED
      BY <2>2, NotNull
  <1>8. Elems(l2, heap, c) = Items[L] /\ PositionIn(l2) = i /\ IsLost(l2) = FALSE
    <2>1. Elems(l2, heap, c) = Elems(l, heap, c)
      BY <1>5 DEF Elems
    <2>2. ~(i >= 0 /\ n = NULL)
      BY <1>6
    <2>3. QED
      BY <1>2, <1>5, <1>7, <2>1, <2>2 DEF PositionIn, IsLost
  <1>9. Abstract!Become(L, IF l2 = NULL THEN NULL ELSE Elems(l2, heap, c),
                        PositionIn(l2), IsLost(l2))
    <2> DEFINE s == Both(l2, heap)
    <2>1. s.l = l2 /\ s.h = heap /\ Becomes(L, s)
      BY <1>4, BothIs
    <2> HIDE DEF s
    <2>2. /\ Sound([list EXCEPT ![L] = s.l], s.h, NewRow(rows, L, c))
          /\ \A m \in DOMAIN heap \ Own(list[L], rows[L]) : s.h[m].data = heap[m].data
      BY <1>3, <2>1
    <2>3. Abstract!Become(L, IF s.l = NULL THEN NULL ELSE Elems(s.l, s.h, c),
                          PositionIn(s.l), IsLost(s.l))
      BY <2>1, <2>2, BecomingRefines
    <2>4. QED
      BY <2>1, <2>3
  <1>10. Abstract!Become(L, Items[L], i, FALSE)
    BY <1>7, <1>8, <1>9
  <1>11. QED
    BY <1>10 DEF Abstract!MoveTo

LEMMA MotionRefines ==
  ASSUME NEW rows, Sound(list, heap, rows), NEW L \in Lists
  PROVE  /\ moveFront(L) => Items[L] # NULL /\ Abstract!moveFront(L)
         /\ moveBack(L) => Items[L] # NULL /\ Abstract!moveBack(L)
         /\ movePrev(L) => Items[L] # NULL /\ Abstract!movePrev(L)
         /\ moveNext(L) => Items[L] # NULL /\ Abstract!moveNext(L)
  <1>1. ASSUME NEW i, PointsAt(L, rows[L], i)
        PROVE  /\ Items[L] # NULL /\ Abstract!MoveTo(L, i)
               /\ Abstract!BackOf(L) = length(L) - 1 /\ length(L) \in Nat
               /\ Index[L] = index(L)
               /\ index(L) >= 0 /\ list[L].cursor # NULL => Abstract!IsOn(L)
    <2>1. list[L] # NULL /\ Abstract!MoveTo(L, i)
      BY <1>1, PointingRefines DEF PointsAt
    <2>2. QED
      BY <2>1, MappedIs DEF Abstract!BackOf, Abstract!IsOn, IsLost
  <1>2. ASSUME moveFront(L) PROVE Items[L] # NULL /\ Abstract!moveFront(L)
    <2>1. length(L) > 0 /\ PointsAt(L, rows[L], 0)
      BY <1>2, MotionPoints
    <2>2. QED
      BY <1>1, <2>1 DEF Abstract!moveFront
  <1>3. ASSUME moveBack(L) PROVE Items[L] # NULL /\ Abstract!moveBack(L)
    <2>1. length(L) > 0 /\ PointsAt(L, rows[L], length(L) - 1)
      BY <1>3, MotionPoints
    <2>2. QED
      BY <1>1, <2>1 DEF Abstract!moveBack
  <1>4. ASSUME movePrev(L) PROVE Items[L] # NULL /\ Abstract!movePrev(L)
    <2>1. /\ index(L) >= 0 /\ (index(L) = 0 \/ list[L].cursor # NULL)
          /\ PointsAt(L, rows[L], index(L) - 1)
      BY <1>4, MotionPoints
    <2>2. QED
      BY <1>1, <2>1 DEF Abstract!movePrev
  <1>5. ASSUME moveNext(L) PROVE Items[L] # NULL /\ Abstract!moveNext(L)
    <2>1. CASE index(L) = length(L) - 1 /\ index(L) >= 0 /\ PointsAt(L, rows[L], -1)
      BY <1>1, <2>1 DEF Abstract!moveNext
    <2>2. CASE /\ index(L) # length(L) - 1 /\ index(L) >= 0 /\ list[L].cursor # NULL
               /\ PointsAt(L, rows[L], index(L) + 1)
      BY <1>1, <2>2 DEF Abstract!moveNext
    <2>3. QED
      BY <1>5, <2>1, <2>2, MotionPoints
  <1>6. QED
    BY <1>2, <1>3, <1>4, <1>5

LEMMA OverwritingRefines ==
  ASSUME NEW rows, Sound(list, heap, rows), NEW L \in Lists, NEW x \in Values, set(L, x)
  PROVE  Items[L] # NULL /\ Abstract!set(L, x)
  <1> DEFINE l == list[L]
             c == rows[L]
             k == l.index
             p == l.cursor
             h2 == WithData(heap, p, x)
  <1>1. /\ l # NULL /\ index(L) >= 0 /\ p # NULL
        /\ Becomes(L, Both(l, h2))
    BY DEF set, Cursor, WithData
  <1>2. /\ Stored(heap) /\ Strung(l, heap, c) /\ Items[L] = Elems(l, heap, c)
        /\ Items[L] # NULL /\ Index[L] = k /\ k = index(L) /\ Lost[L] = IsLost(l)
        /\ k \in -1 .. (l.length - 1) /\ l.length \in Nat
    BY <1>1, OwnIs, MappedIs
  <1>3. k \in 0 .. (l.length - 1) /\ p = c[k]
    BY <1>1, <1>2 DEF Strung, Holds
  <1>4. c[k] \in DOMAIN heap
    BY <1>2, <1>3, EndsAre
  <1>5. Sound([list EXCEPT ![L] = l], h2, NewRow(rows, L, c))
    BY <1>1, <1>3, <1>4, SetIsSound
  <1>6. Elems(l, h2, c) = [Items[L] EXCEPT ![k + 1] = x]
    <2>1. k \in 0 .. (l.length - 1) /\ h2 = WithData(heap, c[k], x)
      BY <1>3
    <2> HIDE DEF l, c, k, h2
    <2>2. Elems(l, WithData(heap, c[k], x), c) = [Elems(l, heap, c) EXCEPT ![k + 1] = x]
      BY <1>2, <2>1, ElemsSet
    <2>3. QED
      BY <1>2, <2>1, <2>2
  <1>7. \A m \in DOMAIN heap \ Own(l, c) : h2[m].data = heap[m].data
    <2>1. c[k] \in Own(l, c)
      <3>1. Own(l, c) = NodesOf(c, l.length)
        BY <1>1, OwnIs
      <3>2. QED
        BY <1>3, <3>1 DEF NodesOf
    <2>2. p \in DOMAIN heap
      BY <1>3, <1>4
    <2>3. \A m \in DOMAIN heap : h2[m].data = IF m = p THEN x ELSE heap[m].data
      <3> HIDE DEF p, l
      <3>1. QED
        BY <1>2, <2>2, DataSet
    <2>4. QED
      BY <1>3, <2>1, <2>3
  <1>8. PositionIn(l) = k /\ IsLost(l) = FALSE /\ Lost[L] = FALSE
    BY <1>1, <1>2 DEF PositionIn, IsLost
  <1> HIDE DEF l, h2, k
  <1>9. Abstract!Become(L, IF l = NULL THEN NULL ELSE Elems(l, h2, c), PositionIn(l), IsLost(l))
    <2> DEFINE s == Both(l, h2)
    <2>1. s.l = l /\ s.h = h2 /\ Becomes(L, s)
      BY <1>1, BothIs
    <2> HIDE DEF s
    <2>2. /\ Sound([list EXCEPT ![L] = s.l], s.h, NewRow(rows, L, c))
          /\ \A m \in DOMAIN heap \ Own(list[L], rows[L]) : s.h[m].data = heap[m].data
      BY <1>5, <1>7, <2>1 DEF l
    <2>3. Abstract!Become(L, IF s.l = NULL THEN NULL ELSE Elems(s.l, s.h, c),
                          PositionIn(s.l), IsLost(s.l))
      BY <2>1, <2>2, BecomingRefines
    <2>4. QED
      BY <2>1, <2>3
  <1>10. Abstract!Become(L, Abstract!ReplaceAt(Items[L], Index[L] + 1, x), Index[L], FALSE)
    BY <1>1, <1>2, <1>6, <1>8, <1>9, SequencesAre
  <1>11. QED
    BY <1>1, <1>2, <1>8, <1>10 DEF Abstract!set, Abstract!IsOn

\* l2 is NULL after freeList, and Empty after newList and clear.
LEMMA EmptyingRefines ==
  ASSUME NEW rows, Sound(list, heap, rows), NEW L \in Lists,
         NEW l2 \in {NULL, Empty}, NEW h2, Becomes(L, Both(l2, h2)),
         Sound([list EXCEPT ![L] = l2], h2, NewRow(rows, L, NoRow)),
         \A m \in DOMAIN heap \ Own(list[L], rows[L]) : h2[m].data = heap[m].data
  PROVE  Abstract!Become(L, IF l2 = NULL THEN NULL ELSE <<>>, -1, FALSE)
  <1> DEFINE s == Both(l2, h2)
  <1>1. s.l = l2 /\ s.h = h2 /\ Becomes(L, s)
    BY BothIs
  <1> HIDE DEF s
  <1>2. /\ Sound([list EXCEPT ![L] = s.l], s.h, NewRow(rows, L, NoRow))
        /\ \A m \in DOMAIN heap \ Own(list[L], rows[L]) : s.h[m].data = heap[m].data
    BY <1>1
  <1>3. Abstract!Become(L, IF s.l = NULL THEN NULL ELSE Elems(s.l, s.h, NoRow),
                        PositionIn(s.l), IsLost(s.l))
    BY <1>1, <1>2, BecomingRefines
  <1>4. PositionIn(l2) = -1 /\ IsLost(l2) = FALSE
    BY EmptyIs, EmptyIsStrung DEF PositionIn, IsLost
  <1>5. l2 # NULL => Elems(l2, h2, NoRow) = <<>>
    <2>1. Elems(Empty, h2, NoRow) = [i \in 1 .. 0 |-> h2[NoRow[i - 1]].data]
      BY EmptyIs DEF Elems
    <2>2. [i \in 1 .. 0 |-> h2[NoRow[i - 1]].data] = <<>>
      OBVIOUS
    <2>3. QED
      BY <2>1, <2>2
  <1>6. QED
    BY <1>1, <1>3, <1>4, <1>5

LEMMA BuildingRefines ==
  ASSUME NEW rows, Sound(list, heap, rows), NEW K \in Lists, list[K] = NULL,
         NEW seq \in Seq(Values), Build(K, seq)
  PROVE  Abstract!Become(K, seq, -1, FALSE)
  <1>1. PICK fresh \in [DOMAIN seq -> Nodes \ DOMAIN heap] :
          /\ \A i, j \in DOMAIN seq : fresh[i] = fresh[j] => i = j
          /\ Becomes(K, Built(heap, fresh, seq))
    BY DEF Build, Unused
  <1> DEFINE b == Built(heap, fresh, seq)
  <1>2. PICK c : HasBuilt(b, c, list, heap, rows, K, seq)
    BY <1>1, BuiltIsSound
  <1> HIDE DEF b
  <1>3. Becomes(K, b)
    BY <1>1 DEF b
  <1>4. Abstract!Become(K, IF b.l = NULL THEN NULL ELSE Elems(b.l, b.h, c),
                        PositionIn(b.l), IsLost(b.l))
    BY <1>2, <1>3, BecomingRefines DEF HasBuilt
  <1>5. PositionIn(b.l) = -1 /\ IsLost(b.l) = FALSE
    BY <1>2 DEF PositionIn, IsLost, HasBuilt
  <1>6. Elems(b.l, b.h, c) = seq
    <2> DEFINE N == Len(seq)
    <2>1. N \in Nat /\ seq = [i \in 1 .. N |-> seq[i]]
      BY LenProperties
    <2> HIDE DEF N
    <2>2. Elems(b.l, b.h, c) = [i \in 1 .. N |-> b.h[c[i - 1]].data]
      BY <1>2 DEF Elems, N, HasBuilt
    <2>3. ASSUME NEW i \in 1 .. N
          PROVE  b.h[c[i - 1]].data = seq[i]
      <3>1. i - 1 \in 0 .. (N - 1) /\ (i - 1) + 1 = i
        BY <2>1
      <3>2. b.h[c[i - 1]].data = seq[(i - 1) + 1]
        BY <1>2, <3>1 DEF N, HasBuilt
      <3>3. QED
        BY <3>1, <3>2
    <2>4. QED
      BY <2>1, <2>2, <2>3
  <1>7. QED
    BY <1>2, <1>4, <1>5, <1>6 DEF HasBuilt

LEMMA EndingRefines ==
  ASSUME NEW rows, Sound(list, heap, rows), NEW L \in Lists, Exit(L) \/ Crash(L)
  PROVE  Abstract!End(L)
  <1>1. /\ process = "running" /\ process' \in {"exited", "crashed"}
        /\ list' = list /\ heap' = heap
    BY DEF Exit, Crash
  <1>2. UNCHANGED <<Items, Index, Lost>>
    BY <1>1, MappingIs, MappingIsNext
  <1>3. ASSUME Exit(L)
        PROVE  Items[L] \in {NULL, <<>>} \/ Index[L] = -1
    <2>1. CASE list[L] = NULL
      BY <2>1, MappedIs
    <2>2. CASE list[L] # NULL /\ length(L) < 1
      <3>1. Items[L] \in Seq(Values) /\ Len(Items[L]) = 0
        BY <2>2, MappedIs
      <3>2. QED
        BY <3>1, EmptySeq
    <2>3. CASE list[L] # NULL /\ index(L) < 0
      BY <2>3, MappedIs
    <2>4. QED
      BY <1>3, <2>1, <2>2, <2>3 DEF Exit
  <1>4. ASSUME Crash(L)
        PROVE  Items[L] = NULL \/ Lost[L]
    <2>1. CASE list[L] = NULL
      BY <2>1, MappedIs
    <2>2. CASE list[L] # NULL
      <3>1. Lost[L] = IsLost(list[L]) /\ index(L) = list[L].index
        BY MappedIs DEF index
      <3>2. QED
        BY <1>4, <2>2, <3>1 DEF Crash, Cursor, IsLost
    <2>3. QED
      BY <2>1, <2>2
  <1>5. process' = "crashed" => Crash(L)
    BY DEF Exit
  <1>6. QED
    BY <1>1, <1>2, <1>3, <1>4, <1>5 DEF Abstract!End

LEMMA CallRefines ==
  ASSUME IInv, NEW L \in Lists
  PROVE  DoesWhatItSays(L) /\ (Operation(L) => Abstract!Next)
  <1>1. PICK rows : Sound(list, heap, rows)
    BY DEF IInv
  <1>2. ASSUME newList(L) PROVE Abstract!newList(L)
    <2>1. list[L] = NULL /\ Becomes(L, Both(Empty, heap))
      BY <1>2 DEF newList
    <2>2. Sound([list EXCEPT ![L] = Empty], heap, NewRow(rows, L, NoRow))
      BY <1>1, <2>1, NewIsSound
    <2>3. Abstract!Become(L, IF Empty = NULL THEN NULL ELSE <<>>, -1, FALSE)
      BY <1>1, <2>1, <2>2, EmptyingRefines
    <2>4. Empty # NULL /\ Items[L] = NULL
      BY <1>1, <2>1, EmptyIsStrung, MappedIs
    <2>5. QED
      BY <2>3, <2>4 DEF Abstract!newList, Abstract!IsMade
  <1>3. ASSUME NEW l2 \in {NULL, Empty}, list[L] # NULL,
               Becomes(L, Both(l2, Restrict(heap, DOMAIN heap \ Chain(list[L]))))
        PROVE  /\ Items[L] # NULL
               /\ Abstract!Become(L, IF l2 = NULL THEN NULL ELSE <<>>, -1, FALSE)
    <2> DEFINE h2 == Restrict(heap, DOMAIN heap \ ChainIn(list[L], heap))
    <2>1. Becomes(L, Both(l2, h2))
      BY <1>3, WalkIs
    <2>2. Sound([list EXCEPT ![L] = l2], h2, NewRow(rows, L, NoRow))
      BY <1>1, <1>3, FreedIsSound
    <2>3. \A m \in DOMAIN heap \ Own(list[L], rows[L]) : h2[m].data = heap[m].data
      <3>1. ChainIn(list[L], heap) = Own(list[L], rows[L])
        BY <1>1, <1>3, OwnIs, ChainIsRow
      <3>2. QED
        BY <3>1 DEF Restrict
    <2> HIDE DEF h2
    <2>4. Abstract!Become(L, IF l2 = NULL THEN NULL ELSE <<>>, -1, FALSE)
      BY <1>1, <2>1, <2>2, <2>3, EmptyingRefines
    <2>5. QED
      BY <1>1, <1>3, <2>4, MappedIs
  <1>4. /\ freeList(L) => Items[L] # NULL /\ Abstract!freeList(L)
        /\ clear(L) => Items[L] # NULL /\ Abstract!clear(L)
    <2>1. Empty # NULL
      BY EmptyIsStrung
    <2>2. freeList(L) => Items[L] # NULL /\ Abstract!freeList(L)
      BY <1>3 DEF freeList, Abstract!freeList
    <2>3. clear(L) => Items[L] # NULL /\ Abstract!clear(L)
      BY <1>3, <2>1 DEF clear, Abstract!clear
    <2>4. QED
      BY <2>2, <2>3
  <1>5. /\ moveFront(L) => Items[L] # NULL /\ Abstract!moveFront(L)
        /\ moveBack(L) => Items[L] # NULL /\ Abstract!moveBack(L)
        /\ movePrev(L) => Items[L] # NULL /\ Abstract!movePrev(L)
        /\ moveNext(L) => Items[L] # NULL /\ Abstract!moveNext(L)
    BY <1>1, MotionRefines
  <1>6. /\ deleteFront(L) => Items[L] # NULL /\ Abstract!deleteFront(L)
        /\ deleteBack(L) => Items[L] # NULL /\ Abstract!deleteBack(L)
        /\ delete(L) => Items[L] # NULL /\ Abstract!delete(L)
    BY <1>1, DeletionRefines
  <1>7. ASSUME NEW x \in Values
        PROVE  /\ set(L, x) => Items[L] # NULL /\ Abstract!set(L, x)
               /\ prepend(L, x) => Items[L] # NULL /\ Abstract!prepend(L, x)
               /\ append(L, x) => Items[L] # NULL /\ Abstract!append(L, x)
               /\ insertBefore(L, x) => Items[L] # NULL /\ Abstract!insertBefore(L, x)
               /\ insertAfter(L, x) => Items[L] # NULL /\ Abstract!insertAfter(L, x)
    BY <1>1, InsertionRefines, OverwritingRefines
  <1>8. ASSUME NEW A \in Lists
        PROVE  /\ (Items[A] = NULL) <=> (list[A] = NULL)
               /\ DataOf(A) = Abstract!Or(A) /\ DataOf(A) \in Seq(Values)
               /\ list[A] # NULL => DataOf(A) = Items[A]
    <2>1. /\ (Items[A] = NULL) <=> (list[A] = NULL)
          /\ list[A] # NULL => Items[A] = Elems(list[A], heap, rows[A])
      BY <1>1, MappedIs
    <2>2. /\ list[A] = NULL => DataOf(A) = <<>>
          /\ list[A] # NULL => DataOf(A) = Elems(list[A], heap, rows[A])
          /\ DataOf(A) \in Seq(Values)
      BY <1>1, DataOfIs
    <2>3. DataOf(A) = Abstract!Or(A)
      <3>1. Abstract!Or(A) = IF Items[A] = NULL THEN <<>> ELSE Items[A]
        BY DEF Abstract!Or
      <3>2. QED
        BY <2>1, <2>2, <3>1
    <2>4. QED
      BY <2>1, <2>2, <2>3
  <1>9. ASSUME NEW A \in Lists, copyList(L, A) PROVE Abstract!copyList(L, A)
    <2>1. list[L] = NULL /\ list[A] # NULL /\ Build(L, DataOf(A))
      BY <1>9 DEF copyList
    <2>2. Abstract!Become(L, DataOf(A), -1, FALSE)
      BY <1>1, <1>8, <2>1, BuildingRefines
    <2>3. QED
      BY <1>8, <2>1, <2>2 DEF Abstract!copyList, Abstract!IsMade
  <1>10. ASSUME NEW A \in Lists, NEW B \in Lists, concatList(L, A, B)
         PROVE  Abstract!concatList(L, A, B)
    <2>1. /\ list[A] # NULL \/ list[B] # NULL
          /\ Build(L, DataOf(A) \o DataOf(B))
      BY <1>10 DEF concatList
    <2>2. DataOf(A) \o DataOf(B) \in Seq(Values)
      BY <1>8, ConcatProperties
    <2>3. list[L] = NULL
      BY <1>10 DEF concatList
    <2>4. Abstract!Become(L, DataOf(A) \o DataOf(B), -1, FALSE)
      BY <1>1, <2>1, <2>2, <2>3, BuildingRefines
    <2>5. QED
      BY <1>8, <2>1, <2>3, <2>4 DEF Abstract!concatList, Abstract!IsMade
  <1>11. ASSUME Exit(L) \/ Crash(L) PROVE Abstract!End(L)
    BY <1>1, <1>11, EndingRefines
  <1>12. DoesWhatItSays(L)
    BY <1>2, <1>4, <1>5, <1>6, <1>7, <1>9, <1>10 DEF DoesWhatItSays
  <1>13. ASSUME Operation(L) PROVE Abstract!Next
    <2>1. CASE newList(L) \/ Exit(L) \/ Crash(L)
      BY <1>2, <1>11, <2>1 DEF Abstract!Next
    <2>2. CASE \E A \in Lists : copyList(L, A) \/ \E B \in Lists : concatList(L, A, B)
      BY <1>9, <1>10, <2>2 DEF Abstract!Next
    <2>3. CASE \/ freeList(L) \/ clear(L)
               \/ moveFront(L) \/ moveBack(L) \/ movePrev(L) \/ moveNext(L)
               \/ deleteFront(L) \/ deleteBack(L) \/ delete(L)
      BY <1>4, <1>5, <1>6, <2>3 DEF Abstract!Next, Abstract!IsMade
    <2>4. CASE \E x \in Values : set(L, x) \/ prepend(L, x) \/ append(L, x)
                                \/ insertBefore(L, x) \/ insertAfter(L, x)
      BY <1>7, <2>4 DEF Abstract!Next, Abstract!IsMade
    <2>5. QED
      BY <1>13, <2>1, <2>2, <2>3, <2>4 DEF Operation
  <1>14. QED
    BY <1>12, <1>13

(* Any number of lists, linked from any number of nodes, implement the     *)
(* sequences with a cursor of CursorList: every call of List.c that changes *)
(* a list does to its elements and to its position what List.h says of that *)
(* call, but for the lost cursor, and nothing to any other list.           *)
THEOREM ListsAreSequences == Spec => ImplementsCursorList
  <1>1. Init => Abstract!Init
    <2>1. SUFFICES ASSUME Init PROVE Abstract!Init
      OBVIOUS
    <2>2. /\ process = "running" /\ DOMAIN list = Lists
          /\ \A L \in Lists : list[L] = NULL
      BY <2>1 DEF Init
    <2>3. Items = [L \in Lists |-> NULL]
      BY <2>2 DEF Items
    <2>4. Index = [L \in Lists |-> -1]
      BY <2>2 DEF Index
    <2>5. Lost = [L \in Lists |-> FALSE]
      BY <2>2 DEF Lost
    <2>6. QED
      BY <2>2, <2>3, <2>4, <2>5 DEF Abstract!Init
  <1>2. IInv /\ [Next]_vars => [Abstract!Next]_(Abstract!vars)
    <2>1. ASSUME UNCHANGED vars PROVE UNCHANGED Abstract!vars
      BY <2>1, MappingIs, MappingIsNext DEF vars, Abstract!vars
    <2>2. QED
      BY <2>1, CallRefines DEF Next
  <1>3. IInv /\ [Next]_vars => [\A L \in Lists : DoesWhatItSays(L)]_vars
    BY CallRefines
  <1>4. QED
    BY <1>1, <1>2, <1>3, Inductive, PTL DEF Spec, ImplementsCursorList, Abstract!Spec
=============================================================================

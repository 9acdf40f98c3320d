---------------------------- MODULE SparseMatrix ----------------------------
(***************************************************************************)
(* The square matrices of "Matrix ADT with Sparse Matrix Operations/       *)
(* Matrix.c" and the program Sparse.c that reads two of them and prints    *)
(* what the operations give.  A row is the sequence of its entries; every  *)
(* function moves a row's cursor to the front before it uses it.  Doubles  *)
(* are integers: the arithmetic is exact, and data are even to be halved. *)
(***************************************************************************)
EXTENDS Integers, Sequences, SequencesExt

CONSTANTS N,            \* the dimension of the matrices read
          Magnitudes    \* the data read, but for signs and zeros

Values == {0} \cup Magnitudes \cup {-v : v \in Magnitudes}

VARIABLES A, B,         \* the matrices main reads
          C,            \* the result of the last operation
          main          \* where main is: "A", "B", or the operation that gave C

vars == <<A, B, C, main>>

Entry(col, data) == [col |-> col, data |-> data]
Indices(M) == DOMAIN M.rows

newMatrix(n) == [rows |-> [k \in 1 .. n |-> <<>>], nnz |-> 0]

makeZero(M) == newMatrix(Len(M.rows))

\* Slip: a zero written to a position that holds no entry is counted.
changeEntry_StoresZero(M, i, j, x) ==
  LET row  == M.rows[i]
      here == {k \in DOMAIN row : row[k].col = j}
      at   == Min({Len(row) + 1} \cup {k \in DOMAIN row : row[k].col > j})
  IN  IF here # {} THEN [M EXCEPT !.rows[i][Min(here)].data = x]
      ELSE [M EXCEPT !.rows[i] = InsertAt(row, at, Entry(j, x)), !.nnz = @ + 1]

changeEntry(M, i, j, x) ==
  LET row  == M.rows[i]
      here == {k \in DOMAIN row : row[k].col = j}
      at   == Min({Len(row) + 1} \cup {k \in DOMAIN row : row[k].col > j})
  IN  IF here # {} /\ x = 0
      THEN [M EXCEPT !.rows[i] = RemoveAt(row, Min(here)), !.nnz = @ - 1]
      ELSE IF here # {} THEN [M EXCEPT !.rows[i][Min(here)].data = x]
      ELSE IF x = 0 THEN M
      ELSE [M EXCEPT !.rows[i] = InsertAt(row, at, Entry(j, x)), !.nnz = @ + 1]

equals(M, P) ==
  /\ Len(M.rows) = Len(P.rows) /\ M.nnz = P.nnz
  /\ \A i \in Indices(M) : M.rows[i] = P.rows[i]

\* The pairs <<row, entry>> of M in the order of two nested loops.
Entries(M) ==
  FoldLeft(LAMBDA s, i : s \o [k \in DOMAIN M.rows[i] |-> <<i, M.rows[i][k]>>],
           <<>>, [i \in Indices(M) |-> i])

transpose(M) ==
  FoldLeft(LAMBDA T, e : [T EXCEPT !.rows[e[2].col] = Append(@, Entry(e[1], e[2].data))],
           [newMatrix(Len(M.rows)) EXCEPT !.nnz = M.nnz], Entries(M))

\* The scalar is num / den.
scalarMult(num, den, M) ==
  IF num = 0 THEN newMatrix(Len(M.rows))
  ELSE [M EXCEPT !.rows = [i \in Indices(M) |->
          [k \in DOMAIN M.rows[i] |->
             Entry(M.rows[i][k].col, (M.rows[i][k].data * num) \div den)]]]

copy(M) == scalarMult(1, 1, M)

\* The entries that sum hands to changeEntry for a row, by the two cursors.
Merged(P, Q) ==
  LET m[p \in 1 .. (Len(P) + 1), q \in 1 .. (Len(Q) + 1)] ==
        CASE p > Len(P) -> SubSeq(Q, q, Len(Q))
          [] q > Len(Q) -> SubSeq(P, p, Len(P))
          [] OTHER ->
               CASE P[p].col = Q[q].col ->
                      <<Entry(P[p].col, P[p].data + Q[q].data)>> \o m[p + 1, q + 1]
                 [] P[p].col < Q[q].col -> <<P[p]>> \o m[p + 1, q]
                 [] P[p].col > Q[q].col -> <<Q[q]>> \o m[p, q + 1]
  IN  m[1, 1]

\* `same' is the test A == B of the two pointers.
sum(M, P, same) ==
  IF same THEN scalarMult(2, 1, M)
  ELSE FoldLeft(LAMBDA R, i : FoldLeft(LAMBDA S, e : changeEntry(S, i, e.col, e.data),
                                       R, Merged(M.rows[i], P.rows[i])),
                newMatrix(Len(M.rows)), [i \in Indices(M) |-> i])

diff(M, P, same) ==
  IF same THEN newMatrix(Len(M.rows)) ELSE sum(M, scalarMult(-1, 1, P), FALSE)

\* Slip: both cursors move when the columns differ.
vectorDot_SkipsBoth(P, Q) ==
  LET d[p \in 1 .. (Len(P) + 1), q \in 1 .. (Len(Q) + 1)] ==
        CASE p > Len(P) \/ q > Len(Q) -> 0
          [] OTHER -> (IF P[p].col = Q[q].col THEN P[p].data * Q[q].data ELSE 0)
                        + d[p + 1, q + 1]
  IN  d[1, 1]

vectorDot(P, Q) ==
  LET d[p \in 1 .. (Len(P) + 1), q \in 1 .. (Len(Q) + 1)] ==
        CASE p > Len(P) \/ q > Len(Q) -> 0
          [] OTHER ->
               CASE P[p].col = Q[q].col -> P[p].data * Q[q].data + d[p + 1, q + 1]
                 [] P[p].col < Q[q].col -> d[p + 1, q]
                 [] P[p].col > Q[q].col -> d[p, q + 1]
  IN  d[1, 1]

product(M, P) ==
  LET T == transpose(P)
  IN  FoldLeft(LAMBDA R, ij :
                 LET data == vectorDot(M.rows[ij[1]], T.rows[ij[2]])
                 IN  IF data # 0 THEN changeEntry(R, ij[1], ij[2], data) ELSE R,
               newMatrix(Len(M.rows)),
               [k \in 1 .. (Len(M.rows) * Len(M.rows)) |->
                  <<((k - 1) \div Len(M.rows)) + 1, ((k - 1) % Len(M.rows)) + 1>>])

-----------------------------------------------------------------------------
Init == A = newMatrix(0) /\ B = newMatrix(0) /\ C = newMatrix(0) /\ main = "start"

Start ==
  /\ main = "start" /\ main' = "A"
  /\ A' = newMatrix(N)
  /\ UNCHANGED <<B, C>>

\* No file, or a position that changeEntry refuses: the program exits.
Fails ==
  /\ main \in {"start", "A", "B"} /\ main' = "failed"
  /\ UNCHANGED <<A, B, C>>

\* One line of the file; positions may come twice, and with a zero.
ReadEntry ==
  \E i, j \in 1 .. N, x \in Values :
    /\ \/ main = "A" /\ A' = changeEntry(A, i, j, x) /\ UNCHANGED B
       \/ main = "B" /\ B' = changeEntry(B, i, j, x) /\ UNCHANGED A
    /\ UNCHANGED <<C, main>>

EndOfA ==
  /\ main = "A" /\ main' = "B"
  /\ B' = newMatrix(N)
  /\ UNCHANGED <<A, C>>

\* What main prints, in its order; each result is freed before the next.
Computed(op) ==
  CASE op = "(1.5)*A" -> scalarMult(3, 2, A)
    [] op = "A+B"     -> sum(A, B, FALSE)
    [] op = "A+A"     -> sum(A, A, TRUE)
    [] op = "B-A"     -> diff(B, A, FALSE)
    [] op = "A-A"     -> diff(A, A, TRUE)
    [] op = "T(A)"    -> transpose(A)
    [] op = "A*B"     -> product(A, B)
    [] op = "B*B"     -> product(B, B)

Operations == <<"(1.5)*A", "A+B", "A+A", "B-A", "A-A", "T(A)", "A*B", "B*B">>

Operate ==
  \E k \in DOMAIN Operations :
    /\ main = IF k = 1 THEN "B" ELSE Operations[k - 1]
    /\ main' = Operations[k] /\ C' = Computed(Operations[k])
    /\ UNCHANGED <<A, B>>

\* Another program, which goes on to empty a matrix it was given.
CallMakeZero ==
  /\ main = "B*B" /\ main' = "zero" /\ C' = makeZero(C)
  /\ UNCHANGED <<A, B>>

Next == Start \/ Fails \/ ReadEntry \/ EndOfA \/ Operate \/ CallMakeZero

-----------------------------------------------------------------------------
\* The reference: a matrix as a function of positions.
Dense(M) ==
  [i, j \in Indices(M) |->
     LET here == {k \in DOMAIN M.rows[i] : M.rows[i][k].col = j}
     IN  IF here = {} THEN 0 ELSE M.rows[i][CHOOSE k \in here : TRUE].data]

Sound(M) ==
  /\ M.nnz = FoldLeft(LAMBDA n, row : n + Len(row), 0, M.rows)
  /\ \A i \in Indices(M) : \A k \in DOMAIN M.rows[i] :
       /\ M.rows[i][k].data # 0
       /\ k > 1 => M.rows[i][k - 1].col < M.rows[i][k].col

Expected(op, i, j) ==
  LET a == Dense(A)
      b == Dense(B)
      Dot(f, g) == FoldLeft(LAMBDA s, k : s + f[i, k] * g[k, j], 0, [k \in Indices(A) |-> k])
  IN  CASE op = "(1.5)*A" -> (3 * a[i, j]) \div 2
        [] op = "A+B"     -> a[i, j] + b[i, j]
        [] op = "A+A"     -> 2 * a[i, j]
        [] op = "B-A"     -> b[i, j] - a[i, j]
        [] op \in {"A-A", "zero"} -> 0
        [] op = "T(A)"    -> a[j, i]
        [] op = "A*B"     -> Dot(a, b)
        [] op = "B*B"     -> Dot(b, b)

(* Whatever was read, in whatever order, with positions written again and  *)
(* zeroed, each operation gives the matrix of the textbook; no list holds  *)
(* a zero or is out of order, NNZ counts the entries, and so equals tells  *)
(* the matrices apart, and a copy or a double transpose equals its origin. *)
SparseMatchesDense ==
  /\ Sound(A) /\ Sound(B) /\ Sound(C)
  /\ main \in ToSet(Operations) \cup {"zero"} =>
       /\ \A i, j \in Indices(A) : Dense(C)[i, j] = Expected(main, i, j)
       /\ equals(A, B) <=> Dense(A) = Dense(B)
       /\ equals(copy(C), C) /\ equals(transpose(transpose(C)), C)
=============================================================================

------------------------------ MODULE GraphDFS ------------------------------
(***************************************************************************)
(* The graph of "Graph ADT with DFS and Strongly Connected Components/     *)
(* Graph.c".  DFS runs step by step with the calls of DFS_Visit on an      *)
(* explicit stack; the cursor with which a call walks neighbors[u] is that *)
(* list's own, so it is kept per vertex and not per call.                  *)
(***************************************************************************)
EXTENDS Integers, Sequences, SequencesExt

CONSTANTS Orders,       \* the numbers of vertices of the graphs explored
          MaxArcs       \* the most arcs a graph is given

NIL == 0
UNDEF == -1

VARIABLES G, S,         \* the arguments of DFS: a graph and a list of vertices
          pc,           \* "idle", or where DFS is
          next,         \* the cursor of S
          stack,        \* the vertices of the active calls of DFS_Visit
          at,           \* the cursors of the adjacency lists
          time

dfs == <<pc, next, stack, at, time>>

Vertices(g) == DOMAIN g.neighbors
Arcs(g) == FoldLeft(LAMBDA s, x : s \o [k \in DOMAIN g.neighbors[x] |-> <<x, g.neighbors[x][k]>>],
                    <<>>, [x \in Vertices(g) |-> x])

NumArcs(g) == Cardinality(UNION {{x} \X DOMAIN g.neighbors[x] : x \in Vertices(g)})

All(n, x) == [v \in 1 .. n |-> x]

newGraph(n) ==
  [neighbors |-> All(n, <<>>), color |-> All(n, "WHITE"), parent |-> All(n, NIL),
   discover |-> All(n, UNDEF), finish |-> All(n, UNDEF), size |-> 0]

\* A freed graph is as good as none: the empty graph stands for it.
freeGraph == G' = newGraph(0)

\* Slip: an arc that is there already is counted again.
addArc_CountsAgain(g, x, y) ==
  LET L == g.neighbors[x]
      k == Max({0} \cup {j \in DOMAIN L : L[j] <= y})
  IN  IF y \in ToSet(L) THEN [g EXCEPT !.size = @ + 1]
      ELSE [g EXCEPT !.neighbors[x] = InsertAt(L, k + 1, y), !.size = @ + 1]

\* An arc that is there already changes nothing, size included.
addArc(g, x, y) ==
  LET L == g.neighbors[x]
      k == Max({0} \cup {j \in DOMAIN L : L[j] <= y})
  IN  IF y \in ToSet(L) THEN g
      ELSE [g EXCEPT !.neighbors[x] = InsertAt(L, k + 1, y), !.size = @ + 1]

addEdge(g, x, y) ==
  LET h == IF x = y THEN addArc(g, x, y) ELSE addArc(addArc(g, x, y), y, x)
  IN  [h EXCEPT !.size = @ - 1]

\* Slip: the arcs are copied as they are.
transpose_Forgets(g) ==
  LET h == FoldLeft(LAMBDA t, a : addArc(t, a[1], a[2]), newGraph(Len(g.neighbors)), Arcs(g))
  IN  [g EXCEPT !.neighbors = h.neighbors]

transpose(g) ==
  LET h == FoldLeft(LAMBDA t, a : addArc(t, a[2], a[1]), newGraph(Len(g.neighbors)), Arcs(g))
  IN  [g EXCEPT !.neighbors = h.neighbors]

copyGraph(g) ==
  [newGraph(Len(g.neighbors)) EXCEPT
     !.neighbors = g.neighbors, !.color = g.color, !.parent = g.parent,
     !.discover = g.discover, !.finish = g.finish, !.size = g.size]

-----------------------------------------------------------------------------
(* DFS *)
StartDFS(g, list) ==
  /\ pc = "idle"
  /\ Len(list) = Len(g.neighbors)
  /\ pc' = "roots" /\ S' = list /\ next' = 1 /\ time' = 0 /\ stack' = <<>>
  /\ LET n == Len(g.neighbors) IN
       /\ G' = [g EXCEPT !.color = All(n, "WHITE"), !.parent = All(n, NIL),
                         !.discover = All(n, UNDEF), !.finish = All(n, UNDEF)]
       /\ at' = All(n, 0)

\* The beginning of DFS_Visit, for a vertex whose parent is p.
Enter(v, p) ==
  /\ time' = time + 1
  /\ G' = [G EXCEPT !.discover[v] = time', !.color[v] = "GRAY", !.parent[v] = p]
  /\ stack' = Append(stack, v)

Top == Last(stack)
Neighbor == G.neighbors[Top][at[Top]]

NextRoot ==
  /\ pc = "roots" /\ stack = <<>> /\ next <= Len(S)
  /\ next' = next + 1
  /\ IF G.color[S[next]] = "WHITE"
     THEN /\ Enter(S[next], NIL)
          /\ at' = [at EXCEPT ![S[next]] = 1]
     ELSE UNCHANGED <<G, stack, at, time>>
  /\ UNCHANGED <<S, pc>>

\* Slip: a neighbour that has been found before gets another parent.
Visit_Reparents ==
  /\ pc = "roots" /\ stack # <<>> /\ at[Top] <= Len(G.neighbors[Top])
  /\ IF G.color[Neighbor] = "WHITE"
     THEN /\ Enter(Neighbor, Top)
          /\ at' = [at EXCEPT ![Top] = @ + 1, ![Neighbor] = 1]
     ELSE /\ G' = [G EXCEPT !.parent[Neighbor] = Top]
          /\ at' = [at EXCEPT ![Top] = @ + 1]
          /\ UNCHANGED <<stack, time>>
  /\ UNCHANGED <<S, pc, next>>

\* moveNext comes after the call: it is folded into it, as no other call
\* moves the cursor of Top's list.
Visit ==
  /\ pc = "roots" /\ stack # <<>> /\ at[Top] <= Len(G.neighbors[Top])
  /\ IF G.color[Neighbor] = "WHITE"
     THEN /\ Enter(Neighbor, Top)
          /\ at' = [at EXCEPT ![Top] = @ + 1, ![Neighbor] = 1]
     ELSE /\ at' = [at EXCEPT ![Top] = @ + 1]
          /\ UNCHANGED <<G, stack, time>>
  /\ UNCHANGED <<S, pc, next>>

Leave ==
  /\ pc = "roots" /\ stack # <<>> /\ at[Top] > Len(G.neighbors[Top])
  /\ time' = time + 1
  /\ G' = [G EXCEPT !.finish[Top] = time', !.color[Top] = "BLACK"]
  /\ stack' = Front(stack)
  /\ UNCHANGED <<S, pc, next, at>>

\* Slip: vertices are inserted in increasing finish time.
Inserted_Increasing(L, v) ==
  InsertAt(L, 1 + Max({0} \cup {k \in DOMAIN L : G.finish[L[k]] <= G.finish[v]}), v)

\* One vertex inserted into L, scanning back over smaller finish times.
Inserted(L, v) ==
  InsertAt(L, 1 + Max({0} \cup {k \in DOMAIN L : G.finish[L[k]] >= G.finish[v]}), v)

EndDFS ==
  /\ pc = "roots" /\ stack = <<>> /\ next > Len(S)
  /\ S' = FoldLeft(Inserted, <<>>, S)
  /\ pc' = "idle" /\ next' = 0 /\ at' = <<>>
  /\ UNCHANGED <<G, stack, time>>

DFSStep == NextRoot \/ Visit \/ Leave \/ EndDFS

Init ==
  /\ G = newGraph(0) /\ S = <<>>
  /\ pc = "idle" /\ next = 0 /\ stack = <<>> /\ at = <<>> /\ time = 0
=============================================================================

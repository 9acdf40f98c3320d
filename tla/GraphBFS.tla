------------------------------ MODULE GraphBFS ------------------------------
(***************************************************************************)
(* The graph of "Graph ADT with BFS & Shortest Paths/Graph.c".  The        *)
(* functions that only compute are operators on a graph; BFS, which walks  *)
(* the adjacency lists with a queue, runs one loop iteration at a time.    *)
(* A list is a sequence: its cursor is always moved to an end before use.  *)
(***************************************************************************)
EXTENDS Integers, Sequences, SequencesExt

CONSTANTS Orders,       \* the numbers of vertices of the graphs explored
          MaxArcs,      \* the most list entries FindPath gives a graph
          ClientArcs    \* the same of the general client

NIL == 0
INF == -1

VARIABLES G,            \* the graph
          pc,           \* "idle", or where BFS is
          l, u, i       \* BFS's queue, the vertex taken from it, and the cursor
                        \* of neighbors[u]

bfs == <<pc, l, u, i>>

Vertices(g) == DOMAIN g.neighbors
NumArcs(g)  == Cardinality(UNION {{x} \X DOMAIN g.neighbors[x] : x \in Vertices(g)})

All(n, x) == [v \in 1 .. n |-> x]

newGraph(n) ==
  [neighbors |-> All(n, <<>>), color |-> All(n, "WHITE"), parent |-> All(n, NIL),
   distance |-> All(n, INF), size |-> 0, source |-> NIL]

\* A freed graph is as good as none: the empty graph stands for it.
freeGraph == G' = newGraph(0)

makeNull(g) == newGraph(Len(g.neighbors))

\* Slip: the scan from the back stops one element too early.
addArc_OffByOne(g, x, y) ==
  LET L  == g.neighbors[x]
      at == Max({0} \cup {k \in DOMAIN L : L[k] <= y \/ k = 1})
  IN  [g EXCEPT !.neighbors[x] = InsertAt(L, at + 1, y), !.size = @ + 1]

addArc(g, x, y) ==
  LET L  == g.neighbors[x]
      at == Max({0} \cup {k \in DOMAIN L : L[k] <= y})
  IN  [g EXCEPT !.neighbors[x] = InsertAt(L, at + 1, y), !.size = @ + 1]

addEdge(g, x, y) ==
  LET h == IF x = y THEN addArc(g, x, y) ELSE addArc(addArc(g, x, y), y, x)
  IN  [h EXCEPT !.size = @ - 1]

getDist(g, v)   == IF g.source = NIL THEN INF ELSE g.distance[v]
getParent(g, v) == IF g.source = NIL THEN NIL ELSE g.parent[v]

\* What the two loops over parents see: v, its parent, the parent's parent...
Ancestors(g, v) ==
  LET up[k \in 0 .. Len(g.parent)] ==
        IF k = 0 THEN v ELSE IF up[k - 1] = NIL THEN NIL ELSE g.parent[up[k - 1]]
  IN  up

\* The list that getPath leaves in an empty list.
getPath(g, v) ==
  LET up    == Ancestors(g, v)
      steps == {k \in DOMAIN up : up[k] = g.source}
  IN  IF steps = {} THEN <<NIL>>
      ELSE Reverse([k \in 1 .. (Min(steps) + 1) |-> up[k - 1]])

-----------------------------------------------------------------------------
(* BFS *)
StartBFS(s) ==
  /\ pc = "idle" /\ pc' = "dequeue"
  /\ LET n == Len(G.neighbors) IN
       G' = [G EXCEPT !.color = [All(n, "WHITE") EXCEPT ![s] = "GRAY"],
                      !.distance = [All(n, INF) EXCEPT ![s] = 0],
                      !.parent = All(n, NIL), !.source = s]
  /\ l' = <<s>>
  /\ UNCHANGED <<u, i>>

Dequeue ==
  /\ pc = "dequeue" /\ l # <<>>
  /\ u' = Head(l) /\ l' = Tail(l)
  /\ i' = 1 /\ pc' = "scan"
  /\ UNCHANGED G

\* Slips: a neighbour is coloured only when it is taken from the queue; a
\* vertex that has been found is found again.
Discover_LateGray(v) ==
  IF G.color[v] = "WHITE"
  THEN /\ G' = [G EXCEPT !.distance[v] = G.distance[u] + 1, !.parent[v] = u]
       /\ l' = Append(l, v)
  ELSE UNCHANGED <<G, l>>
Discover_NotBlack(v) ==
  IF G.color[v] # "BLACK"
  THEN /\ G' = [G EXCEPT !.color[v] = "GRAY", !.distance[v] = G.distance[u] + 1,
                         !.parent[v] = u]
       /\ l' = IF G.color[v] = "WHITE" THEN Append(l, v) ELSE l
  ELSE UNCHANGED <<G, l>>

Discover(v) ==
  IF G.color[v] = "WHITE"
  THEN /\ G' = [G EXCEPT !.color[v] = "GRAY", !.distance[v] = G.distance[u] + 1,
                         !.parent[v] = u]
       /\ l' = Append(l, v)
  ELSE UNCHANGED <<G, l>>

Scan ==
  /\ pc = "scan" /\ i <= Len(G.neighbors[u])
  /\ Discover(G.neighbors[u][i])
  /\ i' = i + 1
  /\ UNCHANGED <<pc, u>>

Explored ==
  /\ pc = "scan" /\ i > Len(G.neighbors[u])
  /\ G' = [G EXCEPT !.color[u] = "BLACK"]
  /\ pc' = "dequeue"
  /\ UNCHANGED <<l, u, i>>

EndBFS ==
  /\ pc = "dequeue" /\ l = <<>>
  /\ pc' = "idle" /\ u' = NIL /\ i' = 0
  /\ UNCHANGED <<G, l>>

BFSStep == Dequeue \/ Scan \/ Explored \/ EndBFS

Init ==
  /\ G = newGraph(0)
  /\ pc = "idle" /\ l = <<>> /\ u = NIL /\ i = 0

-----------------------------------------------------------------------------
(***************************************************************************)
(* Any program that keeps to the preconditions of Graph.h: it builds,      *)
(* empties and searches its graph in any order.                            *)
(***************************************************************************)
Call(g) == pc = "idle" /\ G' = g /\ UNCHANGED bfs

CallNew      == G.neighbors = <<>> /\ \E n \in Orders \ {0} : Call(newGraph(n))
CallFree     == pc = "idle" /\ G.neighbors # <<>> /\ freeGraph /\ UNCHANGED bfs
CallMakeNull == Call(makeNull(G))
CallAddArc   == \E x, y \in Vertices(G) :
                  NumArcs(G) < ClientArcs /\ Call(addArc(G, x, y))
CallAddEdge  == \E x, y \in Vertices(G) :
                  NumArcs(G) + 1 < ClientArcs /\ Call(addEdge(G, x, y))
CallBFS      == \E s \in Vertices(G) : StartBFS(s)

ClientStep ==
  \/ CallNew \/ CallFree \/ CallMakeNull
  \/ CallAddArc \/ CallAddEdge \/ CallBFS \/ BFSStep
=============================================================================

------------------------------ MODULE FindPath ------------------------------
(***************************************************************************)
(* The program FindPath.c: it reads a number of vertices, edges up to the  *)
(* line "0 0", and queries up to another "0 0", and answers each query     *)
(* with a distance and a path.  A read that fails, or an edge out of       *)
(* range, ends the program.  Input that breaks a precondition of Graph.h   *)
(* which the program does not test (a source that is no vertex, a negative *)
(* order) is left out.                                                     *)
(***************************************************************************)
EXTENDS GraphBFS

VARIABLES main,         \* where main is
          query,        \* the source and destination being answered
          answer        \* what is printed for it, or NoAnswer

NoAnswer == [distance |-> INF, path |-> <<>>]
\* Where GraphBFS's general client runs in place of main.
Client == "client"

MainInit ==
  /\ main \in {"order", Client}
  /\ query = <<NIL, NIL>> /\ answer = NoAnswer

ReadOrder ==
  /\ main = "order" /\ main' = "edges"
  /\ \E n \in Orders : G' = newGraph(n)
  /\ UNCHANGED <<bfs, query, answer>>

\* Slip: the edge is entered at one end only.
ReadEdge_OneWay ==
  /\ main = "edges"
  /\ \E x, y \in Vertices(G) : NumArcs(G) + 1 < MaxArcs /\ G' = addArc(G, x, y)
  /\ UNCHANGED <<bfs, main, query, answer>>

ReadEdge ==
  /\ main = "edges"
  /\ \E x, y \in Vertices(G) : NumArcs(G) + 1 < MaxArcs /\ G' = addEdge(G, x, y)
  /\ UNCHANGED <<bfs, main, query, answer>>

ReadZeros ==
  /\ main = "edges" /\ main' = "queries"
  /\ UNCHANGED <<G, bfs, query, answer>>

\* The last line: main frees what it has and returns.
Finish ==
  /\ main = "queries" /\ main' = "done"
  /\ freeGraph /\ answer' = NoAnswer
  /\ UNCHANGED <<bfs, query>>

\* No file, no number, or an edge out of range: main frees what it has and exits.
ReadFails ==
  /\ main \in {"order", "edges", "queries"}
  /\ main' = "failed"
  /\ freeGraph /\ answer' = NoAnswer
  /\ UNCHANGED <<bfs, query>>

ReadQuery ==
  /\ main = "queries" /\ main' = "answering"
  /\ \E s \in Vertices(G), d \in 0 .. (Len(G.neighbors) + 1) :
       StartBFS(s) /\ query' = <<s, d>>
  /\ answer' = NoAnswer

\* getPath exits when the destination is no vertex.
Answer ==
  /\ main = "answering" /\ pc = "idle"
  /\ IF query[2] \in Vertices(G)
     THEN /\ answer' = [distance |-> getDist(G, query[2]), path |-> getPath(G, query[2])]
          /\ main' = "queries"
     ELSE /\ main' = "failed"
          /\ UNCHANGED answer
  /\ UNCHANGED <<G, bfs, query>>

MainStep ==
  \/ ReadOrder \/ ReadEdge \/ ReadZeros \/ ReadFails
  \/ ReadQuery \/ Answer \/ Finish
  \/ main = "answering" /\ BFSStep /\ UNCHANGED <<main, query, answer>>

vars == <<G, bfs, main, query, answer>>

FindPathInit == Init /\ MainInit
FindPathNext ==
  \/ MainStep
  \/ main = Client /\ ClientStep /\ UNCHANGED <<main, query, answer>>

-----------------------------------------------------------------------------
\* The vertices within k arcs of s, and the length of a shortest path.
Within(g, s) ==
  LET ball[k \in 0 .. Len(g.neighbors)] ==
        IF k = 0 THEN {s}
        ELSE ball[k - 1] \cup UNION {ToSet(g.neighbors[x]) : x \in ball[k - 1]}
  IN  ball

Dist(g, s, v) ==
  LET ball == Within(g, s)
      hops == {k \in DOMAIN ball : v \in ball[k]}
  IN  IF hops = {} THEN INF ELSE Min(hops)

IsPath(g, p) == \A k \in 1 .. (Len(p) - 1) : p[k + 1] \in ToSet(g.neighbors[p[k]])

(* README.md: "compute shortest paths between vertices".  What FindPath    *)
(* answers is the length of a shortest path and such a path, and "No path  *)
(* exists" only when none does.                                            *)
ShortestPaths ==
  answer # NoAnswer =>
    LET s == query[1]
        d == query[2]
    IN  /\ answer.distance = Dist(G, s, d)
        /\ IF answer.distance = INF THEN answer.path = <<NIL>>
           ELSE /\ Len(answer.path) = answer.distance + 1
                /\ answer.path[1] = s /\ Last(answer.path) = d
                /\ IsPath(G, answer.path)

(* What BFS keeps true of its queue, whatever graph it is started on: the  *)
(* gray vertices are those in the queue and the one being explored, each   *)
(* once; the queue is in order of distance and spans at most two of them;  *)
(* and every distance set so far is final.                                 *)
QueueIsOrdered ==
  pc \in {"dequeue", "scan"} =>
    LET line == IF pc = "scan" THEN <<u>> \o l ELSE l
    IN  /\ IsInjective(line)
        /\ ToSet(line) = {v \in Vertices(G) : G.color[v] = "GRAY"}
        /\ \A j, k \in DOMAIN line : j < k =>
             G.distance[line[k]] - G.distance[line[j]] \in {0, 1}
        /\ \A v \in Vertices(G) : G.color[v] # "WHITE" =>
             G.distance[v] = Dist(G, G.source, v)

(* Graph.h: the lists are kept "in sorted order by increasing labels", and *)
(* addEdge enters an edge at both its ends as often.                       *)
Occurs(g, x, y) == Cardinality({k \in DOMAIN g.neighbors[x] : g.neighbors[x][k] = y})

AdjacencyIsSound ==
  /\ \A x \in Vertices(G) : \A k \in 2 .. Len(G.neighbors[x]) :
       G.neighbors[x][k - 1] <= G.neighbors[x][k]
  /\ main # Client =>
       \A x, y \in Vertices(G) : Occurs(G, x, y) = Occurs(G, y, x)
=============================================================================

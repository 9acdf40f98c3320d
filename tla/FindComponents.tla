--------------------------- MODULE FindComponents ---------------------------
(***************************************************************************)
(* The program FindComponents.c: it reads the arcs of a graph up to the    *)
(* line "0 0", runs DFS on the graph and then on its transpose in the      *)
(* order of decreasing finish times, and prints the trees of the second    *)
(* forest as the strongly connected components.  A second program enters   *)
(* edges as well as arcs and may call DFS with a list of a wrong length.   *)
(***************************************************************************)
EXTENDS GraphDFS

VARIABLES main,         \* where main is
          first,        \* the graph that was read, once DFS has run on it
          edges,        \* history: the calls of addEdge
          entered,      \* history: the edges between two vertices they entered
          printed       \* the components in the order they are printed

vars == <<G, S, dfs, main, first, edges, entered, printed>>

Client == "client"

MainInit ==
  /\ main \in {"order", Client}
  /\ first = newGraph(0) /\ edges = 0 /\ entered = {} /\ printed = <<>>

ReadOrder ==
  /\ main = "order" /\ main' = "arcs"
  /\ \E n \in Orders : G' = newGraph(n)
  /\ UNCHANGED <<S, dfs, first, edges, entered, printed>>

ReadArc ==
  /\ main = "arcs"
  /\ \E x, y \in Vertices(G) :
       /\ NumArcs(G) < MaxArcs
       /\ G' = addArc(G, x, y)
  /\ UNCHANGED <<S, dfs, main, first, edges, entered, printed>>

\* No file, no number, or an arc out of range.
ReadFails ==
  /\ main \in {"order", "arcs"} /\ main' = "failed"
  /\ freeGraph
  /\ UNCHANGED <<S, dfs, first, edges, entered, printed>>

Identity(g) == [v \in Vertices(g) |-> v]

ReadZeros ==
  /\ main = "arcs" /\ main' = "first DFS"
  /\ StartDFS(G, Identity(G))
  /\ UNCHANGED <<first, edges, entered, printed>>

Transpose ==
  /\ main = "first DFS" /\ pc = "idle" /\ main' = "second DFS"
  /\ first' = G
  /\ StartDFS(transpose(G), S)
  /\ UNCHANGED <<edges, entered, printed>>

\* Slip: the list is walked from the front.
PrintComponents_FromFront ==
  /\ main = "second DFS" /\ pc = "idle" /\ main' = "done"
  /\ printed' =
       FoldLeft(LAMBDA out, v :
                  IF G.parent[v] = NIL
                  THEN [out EXCEPT !.done = Append(@, <<v>> \o out.L), !.L = <<>>]
                  ELSE [out EXCEPT !.L = <<v>> \o @],
                [done |-> <<>>, L |-> <<>>], S).done
  /\ UNCHANGED <<G, S, dfs, first, edges, entered>>

\* From the back of S, vertices are put at the front of a list, which is
\* printed and cleared at the root of each tree.
PrintComponents ==
  /\ main = "second DFS" /\ pc = "idle" /\ main' = "done"
  /\ printed' =
       FoldLeft(LAMBDA out, v :
                  IF G.parent[v] = NIL
                  THEN [out EXCEPT !.done = Append(@, <<v>> \o out.L), !.L = <<>>]
                  ELSE [out EXCEPT !.L = <<v>> \o @],
                [done |-> <<>>, L |-> <<>>], Reverse(S)).done
  /\ UNCHANGED <<G, S, dfs, first, edges, entered>>

\* What main counts before it prints.
counter == Cardinality({v \in Vertices(G) : G.parent[v] = NIL})

Finish ==
  /\ main = "done" /\ main' = "returned"
  /\ freeGraph /\ S' = <<>>
  /\ UNCHANGED <<dfs, first, edges, entered, printed>>

MainStep ==
  \/ ReadOrder \/ ReadArc \/ ReadFails \/ ReadZeros
  \/ Transpose \/ PrintComponents \/ Finish
  \/ main \in {"first DFS", "second DFS"} /\ DFSStep
       /\ UNCHANGED <<main, first, edges, entered, printed>>

-----------------------------------------------------------------------------
(* Another program, which keeps to the preconditions of Graph.h. *)
Call(g) ==
  /\ main = Client /\ pc = "idle"
  /\ G' = g
  /\ UNCHANGED <<S, dfs, main, first, printed>>

CallNew     == G.neighbors = <<>> /\ \E n \in Orders : Call(newGraph(n)) /\ UNCHANGED <<edges, entered>>
CallFree    == /\ main = Client /\ G.neighbors # <<>>
               /\ freeGraph /\ edges' = 0 /\ entered' = {}
               /\ UNCHANGED <<S, dfs, main, first, printed>>
CallCopy    == Call(copyGraph(G)) /\ UNCHANGED <<edges, entered>>
CallAddArc  == \E x, y \in Vertices(G) :
                 NumArcs(G) < MaxArcs /\ Call(addArc(G, x, y)) /\ UNCHANGED <<edges, entered>>
CallAddEdge == \E x, y \in Vertices(G) :
                 /\ NumArcs(G) < MaxArcs /\ edges < MaxArcs
                 /\ Call(addEdge(G, x, y)) /\ edges' = edges + 1
                 /\ entered' = entered \cup (IF x = y THEN {} ELSE {{x, y}})

\* A list of another length than the graph's order makes DFS exit.
CallDFSExits ==
  /\ main = Client /\ pc = "idle"
  /\ \E n \in Orders : n # Len(G.neighbors)
  /\ main' = "failed"
  /\ UNCHANGED <<G, S, dfs, first, edges, entered, printed>>

FindComponentsInit == Init /\ MainInit
FindComponentsNext ==
  \/ MainStep
  \/ CallNew \/ CallFree \/ CallCopy \/ CallAddArc \/ CallAddEdge \/ CallDFSExits

-----------------------------------------------------------------------------
(* The calls of DFS_Visit nest: the gray vertices are those of the active  *)
(* calls, each the parent of the next; the intervals from discover to      *)
(* finish of two vertices are one inside the other or apart, and inside    *)
(* just when one descends from the other; and no vertex is left black      *)
(* before everything it points to has been found.                          *)
Until(v) == IF G.finish[v] = UNDEF THEN 2 * Len(S) + 1 ELSE G.finish[v]

Above(v) ==     \* the ancestors of v
  LET up[k \in 0 .. Len(S)] ==
        IF k = 0 THEN {v} ELSE up[k - 1] \cup ({G.parent[x] : x \in up[k - 1]} \ {NIL})
  IN  up[Len(S)]

VisitsNest ==
  pc = "roots" =>
    LET found == {v \in Vertices(G) : G.color[v] # "WHITE"}
        above == [v \in found |-> Above(v)]
    IN
    /\ IsInjective(stack)
    /\ ToSet(stack) = {v \in Vertices(G) : G.color[v] = "GRAY"}
    /\ \A k \in DOMAIN stack :
         G.parent[stack[k]] = IF k = 1 THEN NIL ELSE stack[k - 1]
    /\ \A v, w \in found : G.discover[v] < G.discover[w] =>
         IF v \in above[w] THEN Until(w) <= Until(v) ELSE Until(v) < G.discover[w]
    /\ \A v \in found : G.color[v] = "BLACK" => ToSet(G.neighbors[v]) \subseteq found

\* The vertices that v reaches.
Reach(g, v) ==
  LET ball[k \in 0 .. Len(g.neighbors)] ==
        IF k = 0 THEN {v}
        ELSE ball[k - 1] \cup UNION {ToSet(g.neighbors[x]) : x \in ball[k - 1]}
  IN  ball[Len(g.neighbors)]

Component(g, v) == {w \in Reach(g, v) : v \in Reach(g, w)}

(* README.md: the program "prints all SCCs in the correct component        *)
(* order".  What it prints are the classes of mutually reachable vertices, *)
(* as many as it counted, each vertex once, and every arc between two      *)
(* components leads to the one printed after.                              *)
ComponentsAreRight ==
  main = "done" =>
    /\ {ToSet(p) : p \in ToSet(printed)} = {Component(first, v) : v \in Vertices(first)}
    /\ IsInjective(FlattenSeq(printed))
    /\ Len(printed) = counter
    /\ \A j, k \in DOMAIN printed :
         (\E a \in ToSet(Arcs(first)) : a[1] \in ToSet(printed[j]) /\ a[2] \in ToSet(printed[k]))
            => j <= k

\* The two arcs of an edge that addEdge entered are one edge, every other
\* arc is one by itself.
NumberOfEdges == NumArcs(G) - Cardinality(entered)

(* getSize is the number of edges while every call of addEdge enters an    *)
(* edge between two vertices that no call entered before it, whatever arcs *)
(* were entered in between and how often, in FindComponents and in the     *)
(* transpose too; after other calls it is at most that number.  The        *)
(* lists stay strictly increasing.                                         *)
SizeCountsEdges ==
  /\ G.size <= NumberOfEdges
  /\ edges = Cardinality(entered) => G.size = NumberOfEdges
  /\ \A x \in Vertices(G) : \A k \in 2 .. Len(G.neighbors[x]) :
       G.neighbors[x][k - 1] < G.neighbors[x][k]

(* Graph.h: getSize "returns the number of edges in G".  addEdge takes one *)
(* from size also for a loop and for an edge that is there.                *)
GetSizeIsNumberOfEdges == G.size = NumberOfEdges
=============================================================================

------------------------------- MODULE ListADT -------------------------------
(***************************************************************************)
(* The list of List.c: doubly linked nodes with a front, a back, a cursor  *)
(* and the cached index of the cursor.  The graphs, the sorter and, with   *)
(* other elements, the matrices are built on it.                           *)
(*                                                                         *)
(* The heap maps the nodes that are allocated to their contents, and a     *)
(* list to its fields or to NULL.  One action is one call.  A failed       *)
(* precondition ends the process; so does reading a NULL pointer.  malloc  *)
(* is assumed to find memory while Nodes has a node to give.               *)
(***************************************************************************)
EXTENDS Integers, Sequences, FiniteSets, Functions

CONSTANTS Nodes,    \* the nodes malloc can return: a bound on all lists together
          Lists,    \* the client's variables of type List
          Values,   \* the elements
          NULL

\* NULL is neither a node nor a struct.
ASSUME ListAssumption ==
  /\ IsFiniteSet(Nodes) /\ NULL \notin Nodes
  /\ NULL \notin [length : Nat, index : Int, front : Nodes \cup {NULL},
                  back : Nodes \cup {NULL}, cursor : Nodes \cup {NULL}]

VARIABLES list,     \* the struct each List points to, or NULL
          heap,     \* the nodes allocated and their fields
          process

vars == <<list, heap, process>>

Init ==
  /\ list = [L \in Lists |-> NULL]
  /\ heap = [n \in {} |-> NULL]
  /\ process = "running"

Unused == Nodes \ DOMAIN heap

-----------------------------------------------------------------------------
(* What a call does to one list l and to the heap h.                       *)
Both(l, h) == [l |-> l, h |-> h]

Now(L) == Both(list[L], heap)

Becomes(L, s) ==
  /\ process = "running"
  /\ list' = [list EXCEPT ![L] = s.l]
  /\ heap' = s.h
  /\ UNCHANGED process

newNode(h, n, x, next, prev) ==
  [m \in DOMAIN h \cup {n} |->
     IF m = n THEN [data |-> x, next |-> next, prev |-> prev] ELSE h[m]]

freeNode(h, n) == Restrict(h, DOMAIN h \ {n})

Empty == [length |-> 0, index |-> -1, front |-> NULL, back |-> NULL, cursor |-> NULL]

\* The i-th node from the front, counted from 0, or NULL behind the back.
Walk(l) ==
  LET node[i \in Nat] == IF i = 0 THEN l.front
                         ELSE IF node[i - 1] = NULL THEN NULL
                         ELSE heap[node[i - 1]].next
  IN  node

Chain(l) == {Walk(l)[i] : i \in 0 .. Cardinality(Nodes)} \ {NULL}

\* Slip: the index is not adjusted.
Prepended_KeepsIndex(s, n, x) ==
  LET f == s.l.front
  IN  IF s.l.length = 0
      THEN Both([s.l EXCEPT !.front = n, !.back = n, !.length = 1],
                newNode(s.h, n, x, NULL, NULL))
      ELSE Both([s.l EXCEPT !.front = n, !.length = @ + 1],
                newNode([s.h EXCEPT ![f].prev = n], n, x, f, NULL))

Prepended(s, n, x) ==
  LET f == s.l.front
  IN  IF s.l.length = 0
      THEN Both([s.l EXCEPT !.front = n, !.back = n, !.length = 1],
                newNode(s.h, n, x, NULL, NULL))
      ELSE Both([s.l EXCEPT !.front = n, !.length = @ + 1,
                            !.index = IF @ >= 0 THEN @ + 1 ELSE @],
                newNode([s.h EXCEPT ![f].prev = n], n, x, f, NULL))

Appended(s, n, x) ==
  LET b == s.l.back
  IN  IF s.l.length = 0
      THEN Both([s.l EXCEPT !.front = n, !.back = n, !.length = 1],
                newNode(s.h, n, x, NULL, NULL))
      ELSE Both([s.l EXCEPT !.back = n, !.length = @ + 1],
                newNode([s.h EXCEPT ![b].next = n], n, x, NULL, b))

WithoutFront(s) ==
  LET f == s.l.front
      g == s.h[f].next
  IN  IF s.l.length = 1 THEN Both(Empty, freeNode(s.h, f))
      ELSE Both([s.l EXCEPT !.front = g, !.length = @ - 1,
                            !.index = IF @ >= 0 THEN @ - 1 ELSE @,
                            !.cursor = IF s.l.index = 0 THEN NULL ELSE @],
                freeNode([s.h EXCEPT ![g].prev = NULL], f))

\* Slip: a cursor under the back is forgotten.
WithoutBack_KeepsCursor(s) ==
  LET b == s.l.back
      c == s.h[b].prev
  IN  IF s.l.length = 1 THEN Both(Empty, freeNode(s.h, b))
      ELSE Both([s.l EXCEPT !.back = c, !.length = @ - 1],
                freeNode([s.h EXCEPT ![c].next = NULL], b))

WithoutBack(s) ==
  LET b == s.l.back
      c == s.h[b].prev
      under == s.l.index = s.l.length - 1
  IN  IF s.l.length = 1 THEN Both(Empty, freeNode(s.h, b))
      ELSE Both([s.l EXCEPT !.back = c, !.length = @ - 1,
                            !.index = IF under THEN -1 ELSE @,
                            !.cursor = IF under THEN NULL ELSE @],
                freeNode([s.h EXCEPT ![c].next = NULL], b))

-----------------------------------------------------------------------------
(* Constructors, access functions *)
newList(L) == list[L] = NULL /\ Becomes(L, Both(Empty, heap))

freeList(L) ==
  /\ list[L] # NULL
  /\ Becomes(L, Both(NULL, Restrict(heap, DOMAIN heap \ Chain(list[L]))))

length(L) == list[L].length
index(L)  == list[L].index
front(L)  == heap[list[L].front].data
back(L)   == heap[list[L].back].data
get(L)    == heap[list[L].cursor].data

\* Slip: the lengths are not compared.
equals_Prefix(A, B) ==
  /\ list[A] # NULL /\ list[B] # NULL
  /\ \A i \in 0 .. Cardinality(Nodes) :
       LET a == Walk(list[A])[i]
           b == Walk(list[B])[i]
       IN  a # NULL /\ b # NULL => heap[a].data = heap[b].data

equals(A, B) ==
  /\ list[A] # NULL /\ list[B] # NULL
  /\ length(A) = length(B)
  /\ \A i \in 0 .. Cardinality(Nodes) :
       LET a == Walk(list[A])[i]
           b == Walk(list[B])[i]
       IN  a # NULL /\ b # NULL => heap[a].data = heap[b].data

-----------------------------------------------------------------------------
(* Manipulation procedures; Cursor is the precondition of some of them.    *)
Cursor(L) == list[L] # NULL /\ length(L) >= 1 /\ index(L) >= 0

clear(L) ==
  /\ list[L] # NULL
  /\ Becomes(L, Both(Empty, Restrict(heap, DOMAIN heap \ Chain(list[L]))))

set(L, x) ==
  /\ Cursor(L) /\ list[L].cursor # NULL
  /\ Becomes(L, Both(list[L], [heap EXCEPT ![list[L].cursor].data = x]))

Point(L, n, i) ==
  Becomes(L, Both([list[L] EXCEPT !.cursor = n, !.index = i], heap))

\* Slip: the cursor goes to the other end.
moveFront_ToBack(L) ==
  list[L] # NULL /\ length(L) > 0 /\ Point(L, list[L].back, length(L) - 1)

moveFront(L) ==
  list[L] # NULL /\ length(L) > 0 /\ Point(L, list[L].front, 0)

moveBack(L) ==
  list[L] # NULL /\ length(L) > 0 /\ Point(L, list[L].back, length(L) - 1)

movePrev(L) ==
  /\ list[L] # NULL /\ index(L) >= 0
  /\ \/ index(L) = 0 /\ Point(L, NULL, -1)
     \/ /\ index(L) > 0 /\ list[L].cursor # NULL
        /\ Point(L, heap[list[L].cursor].prev, index(L) - 1)

\* Slip: the end is tested one step late.
moveNext_RunsOff(L) ==
  /\ list[L] # NULL /\ index(L) >= 0
  /\ \/ index(L) = length(L) /\ Point(L, NULL, -1)
     \/ /\ index(L) # length(L) /\ list[L].cursor # NULL
        /\ Point(L, heap[list[L].cursor].next, index(L) + 1)

moveNext(L) ==
  /\ list[L] # NULL /\ index(L) >= 0
  /\ \/ index(L) = length(L) - 1 /\ Point(L, NULL, -1)
     \/ /\ index(L) # length(L) - 1 /\ list[L].cursor # NULL
        /\ Point(L, heap[list[L].cursor].next, index(L) + 1)

prepend(L, x) ==
  list[L] # NULL /\ \E n \in Unused : Becomes(L, Prepended(Now(L), n, x))

append(L, x) ==
  list[L] # NULL /\ \E n \in Unused : Becomes(L, Appended(Now(L), n, x))

\* Insert x in a new node n between the nodes p and q.
Between(L, n, x, p, q, i) ==
  Becomes(L, Both([list[L] EXCEPT !.length = @ + 1, !.index = i],
                  newNode([heap EXCEPT ![p].next = n, ![q].prev = n], n, x, q, p)))

insertBefore(L, x) ==
  LET c == list[L].cursor IN
    /\ Cursor(L)
    /\ \/ index(L) = 0 /\ prepend(L, x)
       \/ /\ index(L) # 0 /\ c # NULL
          /\ \E n \in Unused : Between(L, n, x, heap[c].prev, c, index(L) + 1)

\* Slip: the next node is not told of its new predecessor.
insertAfter_OneWay(L, x) ==
  LET c == list[L].cursor IN
    /\ Cursor(L)
    /\ \/ index(L) = length(L) - 1 /\ append(L, x)
       \/ /\ index(L) # length(L) - 1 /\ c # NULL
          /\ \E n \in Unused :
               Becomes(L, Both([list[L] EXCEPT !.length = @ + 1],
                 newNode([heap EXCEPT ![c].next = n], n, x, heap[c].next, c)))

\* Slip: at the back the element goes to the front.
insertAfter_Prepends(L, x) ==
  LET c == list[L].cursor IN
    /\ Cursor(L)
    /\ \/ index(L) = length(L) - 1 /\ prepend(L, x)
       \/ /\ index(L) # length(L) - 1 /\ c # NULL
          /\ \E n \in Unused : Between(L, n, x, c, heap[c].next, index(L))

insertAfter(L, x) ==
  LET c == list[L].cursor IN
    /\ Cursor(L)
    /\ \/ index(L) = length(L) - 1 /\ append(L, x)
       \/ /\ index(L) # length(L) - 1 /\ c # NULL
          /\ \E n \in Unused : Between(L, n, x, c, heap[c].next, index(L))

deleteFront(L) ==
  list[L] # NULL /\ length(L) >= 1 /\ Becomes(L, WithoutFront(Now(L)))

deleteBack(L) ==
  list[L] # NULL /\ length(L) >= 1 /\ Becomes(L, WithoutBack(Now(L)))

\* In the middle the cursor is cleared and its index only decremented.
delete(L) ==
  LET c == list[L].cursor IN
    /\ Cursor(L)
    /\ \/ index(L) = 0 /\ deleteFront(L)
       \/ index(L) # 0 /\ index(L) = length(L) - 1 /\ deleteBack(L)
       \/ /\ index(L) \notin {0, length(L) - 1} /\ c # NULL
          /\ Becomes(L, Both(
               [list[L] EXCEPT !.cursor = NULL, !.index = @ - 1, !.length = @ - 1],
               freeNode([heap EXCEPT ![heap[c].prev].next = heap[c].next,
                                     ![heap[c].next].prev = heap[c].prev], c)))

-----------------------------------------------------------------------------
(* Other operations.  The loop over append, into a list that is made first.*)
DataOf(L) ==
  IF list[L] = NULL THEN <<>>
  ELSE [i \in 1 .. Cardinality(Chain(list[L])) |-> heap[Walk(list[L])[i - 1]].data]

\* The elements of seq appended one by one, the i-th in the node fresh[i].
Built(h, fresh, seq) ==
  LET after[i \in 0 .. Len(seq)] ==
        IF i = 0 THEN Both(Empty, h) ELSE Appended(after[i - 1], fresh[i], seq[i])
  IN  after[Len(seq)]

Build(K, seq) ==
  \E fresh \in [DOMAIN seq -> Unused] :
    /\ \A i, j \in DOMAIN seq : fresh[i] = fresh[j] => i = j
    /\ Becomes(K, Built(heap, fresh, seq))

copyList(K, L) ==
  /\ list[K] = NULL /\ list[L] # NULL
  /\ Build(K, DataOf(L))

concatList(K, A, B) ==
  /\ list[K] = NULL
  /\ list[A] # NULL \/ list[B] # NULL
  /\ Build(K, DataOf(A) \o DataOf(B))

-----------------------------------------------------------------------------
\* A call whose precondition fails: exit(EXIT_FAILURE).
Exit(L) ==
  /\ process = "running"
  /\ list[L] # NULL =>
       \/ length(L) < 1       \* front, back, deleteFront, deleteBack, and those below
       \/ index(L) < 0        \* get, set, insertBefore, insertAfter, delete
  /\ process' = "exited"
  /\ UNCHANGED <<list, heap>>

\* length, index, clear or printList of NULL; get or set (and where the index
\* asks for it any other operation) of a cursor that is NULL with index >= 0.
Crash(L) ==
  /\ process = "running"
  /\ list[L] # NULL => Cursor(L) /\ list[L].cursor = NULL
  /\ process' = "crashed"
  /\ UNCHANGED <<list, heap>>

Operation(L) ==
  \/ newList(L) \/ freeList(L) \/ clear(L)
  \/ moveFront(L) \/ moveBack(L) \/ movePrev(L) \/ moveNext(L)
  \/ deleteFront(L) \/ deleteBack(L) \/ delete(L)
  \/ \E x \in Values : set(L, x) \/ prepend(L, x) \/ append(L, x)
                       \/ insertBefore(L, x) \/ insertAfter(L, x)
  \/ \E A \in Lists : copyList(L, A) \/ \E B \in Lists : concatList(L, A, B)
  \/ Exit(L) \/ Crash(L)

Next == \E L \in Lists : Operation(L)

Spec == Init /\ [][Next]_vars
=============================================================================

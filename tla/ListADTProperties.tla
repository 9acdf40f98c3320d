-------------------------- MODULE ListADTProperties --------------------------
(***************************************************************************)
(* What makes the list of List.c correct.                                  *)
(***************************************************************************)
EXTENDS ListADT

(* The fields hold values of their types: pointers are NULL or point to    *)
(* allocated nodes, the index is -1 or inside the list.                    *)
TypeOK ==
  /\ DOMAIN heap \subseteq Nodes
  /\ \A n \in DOMAIN heap :
       heap[n] \in [data : Values, next : DOMAIN heap \cup {NULL},
                    prev : DOMAIN heap \cup {NULL}]
  /\ \A L \in Lists : list[L] # NULL =>
       /\ list[L] \in [length : Nat, index : Int, front : DOMAIN heap \cup {NULL},
                       back : DOMAIN heap \cup {NULL},
                       cursor : DOMAIN heap \cup {NULL}]
       /\ index(L) \in -1 .. (length(L) - 1)
  /\ process \in {"running", "exited", "crashed"}

Made == {L \in Lists : list[L] # NULL}

(* The links agree in both directions after any sequence of calls: next    *)
(* leads from the front through `length' nodes to the back and ends there, *)
(* prev leads back, no node is in two lists and none is lost.              *)
WellLinked ==
  /\ \A L \in Made :
       LET node == Walk(list[L]) IN
         /\ Cardinality(Chain(list[L])) = length(L)
         /\ node[length(L)] = NULL
         /\ list[L].back = IF length(L) = 0 THEN NULL ELSE node[length(L) - 1]
         /\ \A i \in 0 .. (length(L) - 1) :
              heap[node[i]].prev = IF i = 0 THEN NULL ELSE node[i - 1]
  /\ \A K, L \in Made : K # L => Chain(list[K]) \cap Chain(list[L]) = {}
  /\ DOMAIN heap = UNION {Chain(list[L]) : L \in Made}

(* The cached index is the position of the cursor's node, after any        *)
(* insertions and deletions in front of it and behind it.                  *)
CursorAtIndex ==
  \A L \in Made : list[L].cursor # NULL =>
    index(L) >= 0 /\ Walk(list[L])[index(L)] = list[L].cursor

(* "Returns true iff Lists A and B contain same sequence of elements"      *)
(* (List.h), wherever the two cursors are.                                 *)
EqualsComparesElements ==
  \A A, B \in Made : equals(A, B) <=> DataOf(A) = DataOf(B)

\* NULL, which stands for a list that is not made, is not a sequence.
ASSUME NullAssumption == NULL \notin Seq(Values)

Items == [L \in Lists |-> IF list[L] = NULL THEN NULL ELSE DataOf(L)]
Index == [L \in Lists |-> IF list[L] = NULL THEN -1 ELSE index(L)]
Lost  == [L \in Lists |-> list[L] # NULL /\ index(L) >= 0 /\ list[L].cursor = NULL]

Abstract == INSTANCE CursorList WITH items <- Items, position <- Index, lost <- Lost

\* What a call does is what the abstract operation of the same name does.
DoesWhatItSays(L) ==
  /\ newList(L)     => Abstract!newList(L)
  /\ freeList(L)    => Abstract!freeList(L)
  /\ clear(L)       => Abstract!clear(L)
  /\ moveFront(L)   => Abstract!moveFront(L)
  /\ moveBack(L)    => Abstract!moveBack(L)
  /\ movePrev(L)    => Abstract!movePrev(L)
  /\ moveNext(L)    => Abstract!moveNext(L)
  /\ deleteFront(L) => Abstract!deleteFront(L)
  /\ deleteBack(L)  => Abstract!deleteBack(L)
  /\ delete(L)      => Abstract!delete(L)
  /\ \A x \in Values :
       /\ set(L, x)          => Abstract!set(L, x)
       /\ prepend(L, x)      => Abstract!prepend(L, x)
       /\ append(L, x)       => Abstract!append(L, x)
       /\ insertBefore(L, x) => Abstract!insertBefore(L, x)
       /\ insertAfter(L, x)  => Abstract!insertAfter(L, x)
  /\ \A A \in Lists :
       /\ copyList(L, A) => Abstract!copyList(L, A)
       /\ \A B \in Lists : concatList(L, A, B) => Abstract!concatList(L, A, B)

(* The linked nodes implement a sequence with a cursor.  Every call that   *)
(* changes a list does to its elements and to its cursor's position what   *)
(* List.h says of that call and not of another one, but for the lost       *)
(* cursor that CursorList names, and nothing to any other list.            *)
ImplementsCursorList ==
  Abstract!Spec /\ [][\A L \in Lists : DoesWhatItSays(L)]_vars

(* List.h: index "Returns index of cursor element if defined, -1           *)
(* otherwise", and delete leaves the cursor undefined.                     *)
UndefinedCursorHasNoIndex ==
  \A L \in Made : list[L].cursor = NULL => index(L) = -1
=============================================================================

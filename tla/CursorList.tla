----------------------------- MODULE CursorList -----------------------------
(***************************************************************************)
(* What List.h promises of a list: a sequence with a cursor, which is      *)
(* undefined or under one element and stays with that element while others *)
(* come and go.  One action per operation, with its name, says what List.h *)
(* says of it; one whose precondition fails ends the process.              *)
(*                                                                         *)
(* The one departure is `delete' of an element that is neither the first   *)
(* nor the last: the cursor is lost, and index() still reports a position. *)
(* `position' is what index() returns and `lost' says that there is no     *)
(* element under it; reading such a cursor crashes.                        *)
(***************************************************************************)
EXTENDS Integers, Sequences, SequencesExt

CONSTANTS Lists, Values, NULL

VARIABLES items,     \* the sequence of each list, NULL for a list not made
          position, lost,
          process    \* running, or ended

vars == <<items, position, lost, process>>

Init ==
  /\ items = [L \in Lists |-> NULL]
  /\ position = [L \in Lists |-> -1]
  /\ lost = [L \in Lists |-> FALSE]
  /\ process = "running"

Become(L, seq, i, gone) ==
  /\ process = "running"
  /\ items' = [items EXCEPT ![L] = seq]
  /\ position' = [position EXCEPT ![L] = i]
  /\ lost'  = [lost  EXCEPT ![L] = gone]
  /\ UNCHANGED process

IsMade(L) == items[L] # NULL
IsOn(L)   == position[L] >= 0 /\ ~lost[L]    \* an element is under the cursor
BackOf(L) == Len(items[L]) - 1

-----------------------------------------------------------------------------
(* Of a list that exists; the positions count from 0.                      *)
freeList(L) == Become(L, NULL, -1, FALSE)
clear(L)    == Become(L, <<>>, -1, FALSE)

set(L, x) ==
  IsOn(L) /\ Become(L, ReplaceAt(items[L], position[L] + 1, x), position[L], FALSE)

MoveTo(L, i) == Become(L, items[L], i, FALSE)

\* "If L is non-empty, sets cursor under the front element"
moveFront(L) == BackOf(L) >= 0 /\ MoveTo(L, 0)
moveBack(L)  == BackOf(L) >= 0 /\ MoveTo(L, BackOf(L))

\* "one step toward the front of L; if ... at front, cursor becomes undefined"
movePrev(L) ==
  /\ IsOn(L) \/ position[L] = 0
  /\ MoveTo(L, position[L] - 1)

moveNext(L) ==
  \/ position[L] >= 0 /\ position[L] = BackOf(L) /\ MoveTo(L, -1)
  \/ IsOn(L) /\ position[L] # BackOf(L) /\ MoveTo(L, position[L] + 1)

\* The cursor stays under its element.
PutAt(L, j, x) ==
  LET i == position[L]
  IN  Become(L, InsertAt(items[L], j + 1, x), IF i >= j THEN i + 1 ELSE i, lost[L])

prepend(L, x)      == PutAt(L, 0, x)
append(L, x)       == PutAt(L, Len(items[L]), x)
insertBefore(L, x) == (IsOn(L) \/ position[L] = 0) /\ PutAt(L, position[L], x)
insertAfter(L, x)  ==
  /\ position[L] >= 0 /\ (IsOn(L) \/ position[L] = BackOf(L))
  /\ PutAt(L, position[L] + 1, x)

DeleteAt(L, j) ==
  LET i == position[L]
      n == Len(items[L])
      rest == RemoveAt(items[L], j + 1)
  IN  CASE i > j /\ n > 1 -> Become(L, rest, i - 1, lost[L])
        [] i < j /\ n > 1 -> Become(L, rest, i, lost[L])
        [] OTHER          -> Become(L, rest, -1, FALSE)

deleteFront(L) == BackOf(L) >= 0 /\ DeleteAt(L, 0)
deleteBack(L)  == BackOf(L) >= 0 /\ DeleteAt(L, BackOf(L))

delete(L) ==
  LET i == position[L] IN
    \/ i >= 0 /\ i \in {0, BackOf(L)} /\ DeleteAt(L, i)
    \/ /\ IsOn(L) /\ i \notin {0, BackOf(L)}
       /\ Become(L, RemoveAt(items[L], i + 1), i - 1, TRUE)

-----------------------------------------------------------------------------
(* Into a list that does not exist yet.                                    *)
newList(L) == ~IsMade(L) /\ Become(L, <<>>, -1, FALSE)

Or(L) == IF items[L] = NULL THEN <<>> ELSE items[L]

copyList(L, A) == ~IsMade(L) /\ IsMade(A) /\ Become(L, items[A], -1, FALSE)

concatList(L, A, B) ==
  /\ ~IsMade(L) /\ (IsMade(A) \/ IsMade(B))
  /\ Become(L, Or(A) \o Or(B), -1, FALSE)

\* A precondition fails, or a lost cursor or a list not made is read.
End(L) ==
  /\ process = "running"
  /\ \/ items[L] \in {NULL, <<>>} \/ position[L] = -1
     \/ lost[L]
  /\ process' \in {"exited", "crashed"}
  /\ process' = "crashed" => items[L] = NULL \/ lost[L]
  /\ UNCHANGED <<items, position, lost>>

Next ==
  \E L \in Lists :
    \/ newList(L) \/ End(L)
    \/ \E A \in Lists : copyList(L, A) \/ \E B \in Lists : concatList(L, A, B)
    \/ /\ IsMade(L)
       /\ \/ freeList(L) \/ clear(L)
          \/ moveFront(L) \/ moveBack(L) \/ movePrev(L) \/ moveNext(L)
          \/ deleteFront(L) \/ deleteBack(L) \/ delete(L)
          \/ \E x \in Values : set(L, x) \/ prepend(L, x) \/ append(L, x)
                               \/ insertBefore(L, x) \/ insertAfter(L, x)

Spec == Init /\ [][Next]_vars
=============================================================================

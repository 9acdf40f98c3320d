-------------------------------- MODULE Fifo --------------------------------
(***************************************************************************)
(* What a bounded queue promises its callers.  A push takes effect at one  *)
(* instant between its call and its return, and so does a pop: the         *)
(* elements lie in one sequence of at most `size', enter it at the end,    *)
(* once each, and leave it at the front, once each, in that order.         *)
(***************************************************************************)
EXTENDS Naturals, Sequences

CONSTANTS Producers, Consumers,
          Values,
          None                   \* not a value

VARIABLES size,                  \* the capacity, fixed when the queue is made
          items,                 \* what the queue holds, oldest first
          offered,               \* what each producer has yet to insert
          taken                  \* what each consumer has taken and not returned

vars == <<size, items, offered, taken>>

Init ==
  /\ size \in Nat
  /\ items = <<>>
  /\ offered = [p \in Producers |-> None]
  /\ taken = [c \in Consumers |-> None]

Offer(p, v) ==
  /\ offered[p] = None
  /\ offered' = [offered EXCEPT ![p] = v]
  /\ UNCHANGED <<size, items, taken>>

CanInsert(p) == offered[p] # None /\ Len(items) < size

Insert(p) ==
  /\ CanInsert(p)
  /\ items' = Append(items, offered[p])
  /\ offered' = [offered EXCEPT ![p] = None]
  /\ UNCHANGED <<size, taken>>

CanTake(c) == taken[c] = None /\ items # <<>>

Take(c) ==
  /\ CanTake(c)
  /\ taken' = [taken EXCEPT ![c] = Head(items)]
  /\ items' = Tail(items)
  /\ UNCHANGED <<size, offered>>

Return(c) ==
  /\ taken[c] # None
  /\ taken' = [taken EXCEPT ![c] = None]
  /\ UNCHANGED <<size, items, offered>>

Next ==
  \/ \E p \in Producers : Insert(p) \/ \E v \in Values : Offer(p, v)
  \/ \E c \in Consumers : Take(c) \/ Return(c)

Spec == Init /\ [][Next]_vars

(* While some consumer could take an element, elements keep being taken.   *)
TakesKeepComing ==
  []<>(\A c \in Consumers : ~CanTake(c)) \/ []<><<\E c \in Consumers : Take(c)>>_vars

(* While some producer could insert its element, elements keep being       *)
(* inserted.                                                               *)
InsertsKeepComing ==
  []<>(\A p \in Producers : ~CanInsert(p)) \/ []<><<\E p \in Producers : Insert(p)>>_vars
=============================================================================

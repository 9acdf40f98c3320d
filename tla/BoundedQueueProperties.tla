----------------------- MODULE BoundedQueueProperties -----------------------
(***************************************************************************)
(* What makes the bounded queue of queue.c correct.                        *)
(***************************************************************************)
EXTENDS BoundedQueue

PushPlaces == {"wait_slot", "lock_back", "write_slot", "advance_back",
               "unlock_back", "post_elem"}
PopPlaces  == {"wait_elem", "lock_front", "read_slot", "advance_front",
               "unlock_front", "post_slot"}

(* The fields of struct queue and the threads' variables hold values of    *)
(* their types; an index is inside the ring.                               *)
QueueTypeOK ==
  /\ size \in Nat \ {0}
  /\ list \in [0 .. (size - 1) -> Values \cup {None}]
  /\ front \in 0 .. (size - 1)
  /\ back \in 0 .. (size - 1)
  /\ front_mutex \in Consumers \cup {None}
  /\ back_mutex \in Producers \cup {None}
  /\ elem_available_sem \in Nat
  /\ slot_available_sem \in Nat
  /\ at \in [Callers -> {"idle"} \cup PushPlaces \cup PopPlaces]
  /\ \A p \in Producers : at[p] \notin PopPlaces
  /\ \A c \in Consumers : at[c] \notin PushPlaces
  /\ elem \in [Callers -> Values \cup {None}]

Users(places) == {t \in Callers : at[t] \in places}

\* Threads that took a token from one semaphore and owe one to the other.
Pushing == Users(PushPlaces \ {"wait_slot"})
Popping == Users(PopPlaces \ {"wait_elem"})

(* Every slot is accounted for once: free, full, or in the hands of the    *)
(* thread that is filling or emptying it.  A token dropped or posted twice *)
(* anywhere in the two routines would let the ring overflow or stall it.   *)
Accounting ==
  slot_available_sem + Cardinality(Pushing)
    + elem_available_sem + Cardinality(Popping) = size

(* The two ends are under different mutexes, yet a producer about to write *)
(* a slot and a consumer about to read one are never at the same slot.     *)
NoSlotRace ==
  \A p \in Users({"write_slot"}), c \in Users({"read_slot"}) : front # back

-----------------------------------------------------------------------------
(* The contents at any instant: a push counts from its write on, a pop     *)
(* from its read on.                                                       *)
Written == Users({"advance_back", "unlock_back", "post_elem"})
Read    == Users({"advance_front", "unlock_front", "post_slot"})

Count == elem_available_sem + Cardinality(Written)
           + Cardinality(Popping) - Cardinality(Read)

Start == IF Users({"advance_front"}) # {} THEN (front + 1) % size ELSE front

Contents == [i \in 1 .. Count |-> list[(Start + i - 1) % size]]

Offered == [p \in Producers |->
              IF at[p] \in {"wait_slot", "lock_back", "write_slot"}
              THEN elem[p] ELSE None]
Taken   == [c \in Consumers |->
              IF at[c] \in {"advance_front", "unlock_front", "post_slot"}
              THEN elem[c] ELSE None]

AbstractQueue == INSTANCE Fifo WITH items <- Contents, offered <- Offered, taken <- Taken

(* README.md: "FIFO ordering", "No lost or duplicated data".  With several *)
(* producers and consumers inside their calls at once, every push and      *)
(* every pop takes effect at one instant, on one sequence of elements.     *)
ImplementsFifo == AbstractQueue!Spec

(* While the queue holds an element, a consumer gets one: no token is lost *)
(* on the way from a push to the sem_wait of a pop, and no consumer keeps  *)
(* the front for ever.                                                     *)
TakesKeepComing == AbstractQueue!TakesKeepComing

(* While the queue has room and a producer waits, a push gets through.     *)
InsertsKeepComing == AbstractQueue!InsertsKeepComing
=============================================================================

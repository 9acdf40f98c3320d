---------------------------- MODULE BoundedQueue ----------------------------
(***************************************************************************)
(* The bounded queue of "Concurrent Data Structures/queue.c": a ring of    *)
(* `size' slots, a mutex for each end and two counting semaphores.  Unlike *)
(* the lock of rwlock.c it has no single critical section: a push and a    *)
(* pop overlap, and only the semaphores keep them off the same slot.  So   *)
(* every shared access of queue_push and queue_pop is a step of its own.   *)
(***************************************************************************)
EXTENDS Integers, FiniteSets, Sequences

CONSTANTS Producers, Consumers,  \* threads that push, threads that pop
          Values,                \* the pointers that are pushed
          Sizes,                 \* the sizes queue_new is called with
          None                   \* what calloc leaves in a slot or a variable

ASSUME QueueAssumption ==
  /\ IsFiniteSet(Producers) /\ IsFiniteSet(Consumers)
  /\ Producers \cap Consumers = {}
  /\ Sizes \subseteq Nat \ {0}
  /\ None \notin Values \cup Producers \cup Consumers

VARIABLES size, list, front, back,
          front_mutex, back_mutex,      \* the thread that holds it, or None
          elem_available_sem, slot_available_sem,
          at,           \* the next shared access of each thread
          elem          \* each thread's argument or result

ring  == <<size, list, front, back>>
locks == <<front_mutex, back_mutex>>
sems  == <<elem_available_sem, slot_available_sem>>
queueVars == <<ring, locks, sems, at, elem>>

Callers == Producers \cup Consumers

\* Slip: one slot too many.
queue_new_ExtraSlot(n) ==
  /\ size = n
  /\ list = [i \in 0 .. (n - 1) |-> None]
  /\ front = 0 /\ back = 0
  /\ front_mutex = None /\ back_mutex = None
  /\ elem_available_sem = 0 /\ slot_available_sem = n + 1

queue_new(n) ==
  /\ size = n
  /\ list = [i \in 0 .. (n - 1) |-> None]
  /\ front = 0
  /\ back = 0
  /\ front_mutex = None
  /\ back_mutex = None
  /\ elem_available_sem = 0
  /\ slot_available_sem = n

QueueInit ==
  /\ \E n \in Sizes : queue_new(n)
  /\ at = [t \in Callers |-> "idle"]
  /\ elem = [t \in Callers |-> None]

GoTo(t, from, to) == at[t] = from /\ at' = [at EXCEPT ![t] = to]

-----------------------------------------------------------------------------
(* queue_push *)
Push(p, v) ==                         \* the call
  /\ GoTo(p, "idle", "wait_slot")
  /\ elem' = [elem EXCEPT ![p] = v]
  /\ UNCHANGED <<ring, locks, sems>>

\* Slip: the push does not wait for a slot.
WaitSlot_Skipped(p) ==
  /\ GoTo(p, "wait_slot", "lock_back")
  /\ UNCHANGED <<ring, locks, sems, elem>>

WaitSlot(p) ==                        \* sem_wait(slot_available_sem)
  /\ GoTo(p, "wait_slot", "lock_back")
  /\ slot_available_sem > 0
  /\ slot_available_sem' = slot_available_sem - 1
  /\ UNCHANGED <<ring, locks, elem_available_sem, elem>>

\* Slip: producers do not exclude each other.
LockBack_Skipped(p) ==
  /\ GoTo(p, "lock_back", "write_slot")
  /\ back_mutex' = p
  /\ UNCHANGED <<ring, front_mutex, sems, elem>>

LockBack(p) ==
  /\ GoTo(p, "lock_back", "write_slot")
  /\ back_mutex = None
  /\ back_mutex' = p
  /\ UNCHANGED <<ring, front_mutex, sems, elem>>

WriteSlot(p) ==
  /\ GoTo(p, "write_slot", "advance_back")
  /\ list' = [list EXCEPT ![back] = elem[p]]
  /\ UNCHANGED <<size, front, back, locks, sems, elem>>

\* Slip: the index does not wrap.
AdvanceBack_NoWrap(p) ==
  /\ GoTo(p, "advance_back", "unlock_back")
  /\ back' = back + 1
  /\ UNCHANGED <<size, list, front, locks, sems, elem>>

AdvanceBack(p) ==
  /\ GoTo(p, "advance_back", "unlock_back")
  /\ back' = (back + 1) % size
  /\ UNCHANGED <<size, list, front, locks, sems, elem>>

UnlockBack(p) ==
  /\ GoTo(p, "unlock_back", "post_elem")
  /\ back_mutex' = None
  /\ UNCHANGED <<ring, front_mutex, sems, elem>>

PostElem(p) ==                        \* sem_post(elem_available_sem), return
  /\ GoTo(p, "post_elem", "idle")
  /\ elem_available_sem' = elem_available_sem + 1
  /\ elem' = [elem EXCEPT ![p] = None]
  /\ UNCHANGED <<ring, locks, slot_available_sem>>

-----------------------------------------------------------------------------
(* queue_pop *)
Pop(c) ==                             \* the call
  /\ GoTo(c, "idle", "wait_elem")
  /\ UNCHANGED <<ring, locks, sems, elem>>

WaitElem(c) ==                        \* sem_wait(elem_available_sem)
  /\ GoTo(c, "wait_elem", "lock_front")
  /\ elem_available_sem > 0
  /\ elem_available_sem' = elem_available_sem - 1
  /\ UNCHANGED <<ring, locks, slot_available_sem, elem>>

LockFront(c) ==
  /\ GoTo(c, "lock_front", "read_slot")
  /\ front_mutex = None
  /\ front_mutex' = c
  /\ UNCHANGED <<ring, back_mutex, sems, elem>>

ReadSlot(c) ==
  /\ GoTo(c, "read_slot", "advance_front")
  /\ elem' = [elem EXCEPT ![c] = list[front]]
  /\ UNCHANGED <<ring, locks, sems>>

AdvanceFront(c) ==
  /\ GoTo(c, "advance_front", "unlock_front")
  /\ front' = (front + 1) % size
  /\ UNCHANGED <<size, list, back, locks, sems, elem>>

\* Slip: the mutex is not released.
UnlockFront_Skipped(c) ==
  /\ GoTo(c, "unlock_front", "post_slot")
  /\ UNCHANGED <<ring, locks, sems, elem>>

UnlockFront(c) ==
  /\ GoTo(c, "unlock_front", "post_slot")
  /\ front_mutex' = None
  /\ UNCHANGED <<ring, back_mutex, sems, elem>>

\* Slip: the slot is not given back.
PostSlot_Skipped(c) ==
  /\ GoTo(c, "post_slot", "idle")
  /\ elem' = [elem EXCEPT ![c] = None]
  /\ UNCHANGED <<ring, locks, sems>>

PostSlot(c) ==                        \* sem_post(slot_available_sem), return
  /\ GoTo(c, "post_slot", "idle")
  /\ slot_available_sem' = slot_available_sem + 1
  /\ elem' = [elem EXCEPT ![c] = None]
  /\ UNCHANGED <<ring, locks, elem_available_sem>>

-----------------------------------------------------------------------------
PushStep(p) ==
  \/ WaitSlot(p) \/ LockBack(p) \/ WriteSlot(p) \/ AdvanceBack(p)
  \/ UnlockBack(p) \/ PostElem(p)

PopStep(c) ==
  \/ WaitElem(c) \/ LockFront(c) \/ ReadSlot(c) \/ AdvanceFront(c)
  \/ UnlockFront(c) \/ PostSlot(c)

QueueNext ==
  \/ \E p \in Producers : PushStep(p) \/ \E v \in Values : Push(p, v)
  \/ \E c \in Consumers : PopStep(c) \/ Pop(c)

QueueSpec == QueueInit /\ [][QueueNext]_queueVars

(***************************************************************************)
(* A thread inside a call is scheduled, and consumers come back for more:  *)
(* the server's workers pop in a loop.  Nobody has to push.                *)
(***************************************************************************)
QueueFairness ==
  /\ \A p \in Producers : WF_queueVars(PushStep(p))
  /\ \A c \in Consumers : WF_queueVars(PopStep(c)) /\ WF_queueVars(Pop(c))

QueueFairSpec == QueueSpec /\ QueueFairness
=============================================================================

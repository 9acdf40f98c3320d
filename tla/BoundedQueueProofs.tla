------------------------- MODULE BoundedQueueProofs -------------------------
(***************************************************************************)
(* Proofs about the bounded queue of queue.c, for any finite sets of       *)
(* producers and consumers, any values and any size.                       *)
(*                                                                         *)
(* Why no slot is used by both ends at once.  The two ends share no lock,  *)
(* only the semaphores.  Each token stands for a slot, and a thread that   *)
(* took one holds it until it posts the other semaphore, so that free and  *)
(* full slots and threads under way always add up to size (Accounting).    *)
(* Then the elements from front to back are as many as the full slots,     *)
(* the pushes past AdvanceBack and the pops before AdvanceFront            *)
(* (RingIsFilled): at least 1 when a consumer reads, less than size when a *)
(* producer writes, and so front and back differ.                          *)
(***************************************************************************)
EXTENDS BoundedQueueProperties, FiniteSetTheorems, SequenceTheorems, TLAPS

Advanced  == Users({"unlock_back", "post_elem"})
NotTaken  == Users({"lock_front", "read_slot", "advance_front"})

\* The number of slots from front to back.
Filled == elem_available_sem + Cardinality(Advanced) + Cardinality(NotTaken)

\* back is Filled slots after front, in a ring.
RingIsFilled == back = front + Filled \/ back = front + Filled - size

InBack  == {"write_slot", "advance_back", "unlock_back"}
InFront == {"read_slot", "advance_front", "unlock_front"}

\* A thread is in a critical section just when it holds its mutex.
EndsAreLocked ==
  /\ \A p \in Producers : at[p] \in InBack <=> back_mutex = p
  /\ \A c \in Consumers : at[c] \in InFront <=> front_mutex = c

IInv == QueueTypeOK /\ Accounting /\ RingIsFilled /\ EndsAreLocked

-----------------------------------------------------------------------------
(* Sets of threads by where they are.                                      *)
Moved(t, p, q) == at[t] = p /\ at' = [at EXCEPT ![t] = q]

LEMMA AtIsFinite ==
  ASSUME NEW S
  PROVE  IsFiniteSet(Users(S)) /\ Cardinality(Users(S)) \in Nat
  <1>1. IsFiniteSet(Callers)
    BY QueueAssumption, FS_Union DEF Callers
  <1>2. IsFiniteSet(Users(S))
    <2>1. Users(S) \subseteq Callers
      BY DEF Users
    <2>2. QED
      BY <1>1, <2>1, FS_Subset
  <1>3. QED
    BY <1>2, FS_CardinalityType

\* A thread that moves from p to q changes the number at S by what S has of
\* the two.
LEMMA Moves ==
  ASSUME DOMAIN at = Callers,
         NEW t \in Callers, NEW p, NEW q, Moved(t, p, q), NEW S
  PROVE  /\ Cardinality(Users(S)') =
              Cardinality(Users(S)) + (IF p \in S THEN -1 ELSE 0) + (IF q \in S THEN 1 ELSE 0)
         /\ p \in S => Cardinality(Users(S)) > 0
  <1>1. at[t] = p /\ at'[t] = q /\ \A u \in Callers \ {t} : at'[u] = at[u]
    BY DEF Moved
  <1>2. IsFiniteSet(Users(S)) /\ Cardinality(Users(S)) \in Nat
    BY AtIsFinite
  <1>3. p \in S => Cardinality(Users(S)) > 0
    <2>1. p \in S => t \in Users(S)
      BY <1>1 DEF Users
    <2>2. QED
      BY <1>2, <2>1, FS_EmptySet
  <1>4. CASE p \in S /\ q \in S
    <2>1. Users(S)' = Users(S)
      BY <1>1, <1>4 DEF Users
    <2>2. QED
      BY <1>2, <1>3, <1>4, <2>1
  <1>5. CASE p \in S /\ q \notin S
    <2>1. Users(S)' = Users(S) \ {t} /\ t \in Users(S)
      BY <1>1, <1>5 DEF Users
    <2>2. Cardinality(Users(S)') = Cardinality(Users(S)) - 1
      BY <1>2, <2>1, FS_RemoveElement
    <2>3. QED
      BY <1>2, <1>3, <1>5, <2>2
  <1>6. CASE p \notin S /\ q \in S
    <2>1. Users(S)' = Users(S) \cup {t} /\ t \notin Users(S)
      BY <1>1, <1>6 DEF Users
    <2>2. Cardinality(Users(S)') = Cardinality(Users(S)) + 1
      BY <1>2, <2>1, FS_AddElement
    <2>3. QED
      BY <1>2, <1>3, <1>6, <2>2
  <1>7. CASE p \notin S /\ q \notin S
    <2>1. Users(S)' = Users(S)
      BY <1>1, <1>7 DEF Users
    <2>2. QED
      BY <1>2, <1>3, <1>7, <2>1
  <1>8. QED
    BY <1>4, <1>5, <1>6, <1>7

LEMMA Subsets ==
  ASSUME NEW S, NEW T, S \subseteq T
  PROVE  Cardinality(Users(S)) <= Cardinality(Users(T))
  <1>1. Users(S) \subseteq Users(T)
    BY DEF Users
  <1>2. QED
    BY <1>1, AtIsFinite, FS_Subset

\* The index after i in a ring of n slots.
LEMMA NextIndex ==
  ASSUME NEW n \in Nat \ {0}, NEW i \in 0 .. (n - 1)
  PROVE  (i + 1) % n = IF i = n - 1 THEN 0 ELSE i + 1
  BY SMT

-----------------------------------------------------------------------------
(* Types                                                                   *)
LEMMA InitTypes == QueueInit => QueueTypeOK
  BY QueueAssumption DEF QueueInit, queue_new, QueueTypeOK, Callers, PushPlaces, PopPlaces

LEMMA PushTypes ==
  ASSUME QueueTypeOK, NEW p \in Producers,
         PushStep(p) \/ \E v \in Values : Push(p, v)
  PROVE  QueueTypeOK'
  <1> USE DEF GoTo, ring, locks, sems, Callers, PushPlaces, PopPlaces
  <1>1. ASSUME NEW v \in Values, Push(p, v)
        PROVE  QueueTypeOK'
    BY <1>1, QueueAssumption DEF Push, QueueTypeOK
  <1>2. CASE WaitSlot(p)
    BY <1>2, QueueAssumption DEF WaitSlot, QueueTypeOK
  <1>3. CASE LockBack(p)
    BY <1>3, QueueAssumption DEF LockBack, QueueTypeOK
  <1>4. CASE WriteSlot(p)
    BY <1>4, QueueAssumption DEF WriteSlot, QueueTypeOK
  <1>5. CASE AdvanceBack(p)
    BY <1>5, QueueAssumption, NextIndex DEF AdvanceBack, QueueTypeOK
  <1>6. CASE UnlockBack(p)
    BY <1>6, QueueAssumption DEF UnlockBack, QueueTypeOK
  <1>7. CASE PostElem(p)
    BY <1>7, QueueAssumption DEF PostElem, QueueTypeOK
  <1>8. QED
    BY <1>1, <1>2, <1>3, <1>4, <1>5, <1>6, <1>7 DEF PushStep

LEMMA PopTypes ==
  ASSUME QueueTypeOK, NEW c \in Consumers, PopStep(c) \/ Pop(c)
  PROVE  QueueTypeOK'
  <1> USE DEF GoTo, ring, locks, sems, Callers, PushPlaces, PopPlaces
  <1>1. CASE Pop(c)
    BY <1>1, QueueAssumption DEF Pop, QueueTypeOK
  <1>2. CASE WaitElem(c)
    BY <1>2, QueueAssumption DEF WaitElem, QueueTypeOK
  <1>3. CASE LockFront(c)
    BY <1>3, QueueAssumption DEF LockFront, QueueTypeOK
  <1>4. CASE ReadSlot(c)
    BY <1>4, QueueAssumption DEF ReadSlot, QueueTypeOK
  <1>5. CASE AdvanceFront(c)
    BY <1>5, QueueAssumption, NextIndex DEF AdvanceFront, QueueTypeOK
  <1>6. CASE UnlockFront(c)
    BY <1>6, QueueAssumption DEF UnlockFront, QueueTypeOK
  <1>7. CASE PostSlot(c)
    BY <1>7, QueueAssumption DEF PostSlot, QueueTypeOK
  <1>8. QED
    BY <1>1, <1>2, <1>3, <1>4, <1>5, <1>6, <1>7 DEF PopStep

LEMMA NextTypes == QueueTypeOK /\ [QueueNext]_queueVars => QueueTypeOK'
  <1>1. QueueTypeOK /\ UNCHANGED queueVars => QueueTypeOK'
    BY DEF QueueTypeOK, queueVars, ring, locks, sems
  <1>2. QED
    BY <1>1, PushTypes, PopTypes DEF QueueNext

(***************************************************************************)
(* The fields of struct queue keep their types, and front and back stay    *)
(* inside the ring.                                                        *)
(***************************************************************************)
THEOREM TypeCorrect == QueueSpec => []QueueTypeOK
  BY InitTypes, NextTypes, PTL DEF QueueSpec

-----------------------------------------------------------------------------
(* The mutexes: held from LockBack to UnlockBack, LockFront to UnlockFront. *)
LEMMA NextLocked == QueueTypeOK /\ EndsAreLocked /\ [QueueNext]_queueVars => EndsAreLocked'
  <1> SUFFICES ASSUME QueueTypeOK, EndsAreLocked, [QueueNext]_queueVars
               PROVE  EndsAreLocked'
    OBVIOUS
  <1> USE QueueAssumption
      DEF GoTo, locks, Callers, QueueTypeOK, EndsAreLocked, InBack, InFront, PushPlaces, PopPlaces
  <1>1. ASSUME NEW p \in Producers, PushStep(p) \/ \E v \in Values : Push(p, v)
        PROVE  EndsAreLocked'
    BY <1>1 DEF PushStep, Push, WaitSlot, LockBack, WriteSlot, AdvanceBack, UnlockBack, PostElem
  <1>2. ASSUME NEW c \in Consumers, PopStep(c) \/ Pop(c)
        PROVE  EndsAreLocked'
    BY <1>2 DEF PopStep, Pop, WaitElem, LockFront, ReadSlot, AdvanceFront, UnlockFront, PostSlot
  <1>3. CASE UNCHANGED queueVars
    BY <1>3 DEF queueVars
  <1>4. QED
    BY <1>1, <1>2, <1>3 DEF QueueNext

-----------------------------------------------------------------------------
(* The tokens                                                              *)
Change(p, q, S) == (IF p \in S THEN -1 ELSE 0) + (IF q \in S THEN 1 ELSE 0)

LEMMA Counts ==
  ASSUME QueueTypeOK, NEW t \in Callers, NEW p, NEW q, Moved(t, p, q)
  PROVE  /\ Cardinality(Pushing)' =
              Cardinality(Pushing) + Change(p, q, PushPlaces \ {"wait_slot"})
         /\ Cardinality(Popping)' =
              Cardinality(Popping) + Change(p, q, PopPlaces \ {"wait_elem"})
         /\ Cardinality(Advanced)' =
              Cardinality(Advanced) + Change(p, q, {"unlock_back", "post_elem"})
         /\ Cardinality(NotTaken)' =
              Cardinality(NotTaken)
                + Change(p, q, {"lock_front", "read_slot", "advance_front"})
  <1>1. DOMAIN at = Callers
    BY DEF QueueTypeOK
  <1>2. ASSUME NEW S
        PROVE  Cardinality(Users(S))' = Cardinality(Users(S)) + Change(p, q, S)
    BY <1>1, Moves, AtIsFinite DEF Change
  <1>3. QED
    BY <1>2 DEF Pushing, Popping, Advanced, NotTaken

Bounds ==
  /\ Cardinality(Pushing) \in Nat /\ Cardinality(Popping) \in Nat
  /\ Cardinality(Advanced) \in Nat /\ Cardinality(NotTaken) \in Nat
  /\ Cardinality(Advanced) <= Cardinality(Pushing)
  /\ Cardinality(NotTaken) <= Cardinality(Popping)

LEMMA CountsAreBounded == Bounds /\ Bounds'
  <1>1. Bounds
    BY AtIsFinite, Subsets
    DEF Bounds, Pushing, Popping, Advanced, NotTaken, PushPlaces, PopPlaces
  <1>2. QED
    BY <1>1, PTL

LEMMA FilledFits == /\ QueueTypeOK /\ Accounting => Filled \in 0 .. size
                    /\ QueueTypeOK' /\ Accounting' => Filled' \in 0 .. size'
  <1>1. QueueTypeOK /\ Accounting => Filled \in 0 .. size
    BY CountsAreBounded, SMTT(30) DEF QueueTypeOK, Accounting, Filled, Bounds
  <1>2. (QueueTypeOK /\ Accounting => Filled \in 0 .. size)'
    BY <1>1, PTL
  <1>3. QED
    BY <1>1, <1>2

LEMMA InitTokens == QueueInit => Accounting /\ RingIsFilled /\ EndsAreLocked
  <1> SUFFICES ASSUME QueueInit
               PROVE  Accounting /\ RingIsFilled /\ EndsAreLocked
    OBVIOUS
  <1>1. ASSUME NEW S, "idle" \notin S
        PROVE  Cardinality(Users(S)) = 0
    <2>1. Users(S) = {}
      BY <1>1 DEF QueueInit, Users
    <2>2. QED
      BY <2>1, FS_EmptySet
  <1>2. /\ Cardinality(Pushing) = 0 /\ Cardinality(Popping) = 0
        /\ Cardinality(Advanced) = 0 /\ Cardinality(NotTaken) = 0
    BY <1>1 DEF Pushing, Popping, Advanced, NotTaken, PushPlaces, PopPlaces
  <1>3. PICK n \in Sizes : queue_new(n)
    BY DEF QueueInit
  <1>4. n \in Nat
    BY QueueAssumption
  <1>5. Accounting /\ RingIsFilled
    BY <1>2, <1>3, <1>4 DEF queue_new, Accounting, RingIsFilled, Filled
  <1>6. EndsAreLocked
    BY <1>3, QueueAssumption DEF QueueInit, queue_new, EndsAreLocked, Callers, InBack, InFront
  <1>7. QED
    BY <1>5, <1>6

LEMMA PushTokens ==
  ASSUME QueueTypeOK, QueueTypeOK', Accounting, RingIsFilled, NEW p \in Producers,
         PushStep(p) \/ \E v \in Values : Push(p, v)
  PROVE  Accounting' /\ RingIsFilled'
  <1> p \in Callers
    BY DEF Callers
  <1> /\ size \in Nat \ {0} /\ front \in 0 .. (size - 1) /\ back \in 0 .. (size - 1)
      /\ elem_available_sem \in Nat /\ slot_available_sem \in Nat
    BY DEF QueueTypeOK
  <1>1. ASSUME NEW v \in Values, Push(p, v)
        PROVE  Accounting' /\ RingIsFilled'
    <2>1. Moved(p, "idle", "wait_slot")
      BY <1>1 DEF Push, Moved, GoTo
    <2>2. /\ Cardinality(Pushing)' = Cardinality(Pushing)
          /\ Cardinality(Popping)' = Cardinality(Popping)
          /\ Cardinality(Advanced)' = Cardinality(Advanced)
          /\ Cardinality(NotTaken)' = Cardinality(NotTaken)
      BY <2>1, Counts, CountsAreBounded DEF Bounds, Change, PushPlaces, PopPlaces
    <2>3. Filled' = Filled /\ Accounting'
      BY <1>1, <2>2, CountsAreBounded DEF Push, ring, sems, Accounting, Filled, Bounds
    <2>4. RingIsFilled'
      BY <1>1, <2>3 DEF Push, ring, RingIsFilled
    <2>5. QED
      BY <2>3, <2>4
  <1>2. CASE WaitSlot(p)
    <2>1. Moved(p, "wait_slot", "lock_back")
      BY <1>2 DEF WaitSlot, Moved, GoTo
    <2>2. /\ Cardinality(Pushing)' = Cardinality(Pushing) + 1
          /\ Cardinality(Popping)' = Cardinality(Popping)
          /\ Cardinality(Advanced)' = Cardinality(Advanced)
          /\ Cardinality(NotTaken)' = Cardinality(NotTaken)
      BY <2>1, Counts, CountsAreBounded DEF Bounds, Change, PushPlaces, PopPlaces
    <2>3. Filled' = Filled /\ Accounting'
      BY <1>2, <2>2, CountsAreBounded DEF WaitSlot, ring, sems, Accounting, Filled, Bounds
    <2>4. RingIsFilled'
      BY <1>2, <2>3 DEF WaitSlot, ring, RingIsFilled
    <2>5. QED
      BY <2>3, <2>4
  <1>3. CASE LockBack(p)
    <2>1. Moved(p, "lock_back", "write_slot")
      BY <1>3 DEF LockBack, Moved, GoTo
    <2>2. /\ Cardinality(Pushing)' = Cardinality(Pushing)
          /\ Cardinality(Popping)' = Cardinality(Popping)
          /\ Cardinality(Advanced)' = Cardinality(Advanced)
          /\ Cardinality(NotTaken)' = Cardinality(NotTaken)
      BY <2>1, Counts, CountsAreBounded DEF Bounds, Change, PushPlaces, PopPlaces
    <2>3. Filled' = Filled /\ Accounting'
      BY <1>3, <2>2, CountsAreBounded DEF LockBack, ring, sems, Accounting, Filled, Bounds
    <2>4. RingIsFilled'
      BY <1>3, <2>3 DEF LockBack, ring, RingIsFilled
    <2>5. QED
      BY <2>3, <2>4
  <1>4. CASE WriteSlot(p)
    <2>1. Moved(p, "write_slot", "advance_back")
      BY <1>4 DEF WriteSlot, Moved, GoTo
    <2>2. /\ Cardinality(Pushing)' = Cardinality(Pushing)
          /\ Cardinality(Popping)' = Cardinality(Popping)
          /\ Cardinality(Advanced)' = Cardinality(Advanced)
          /\ Cardinality(NotTaken)' = Cardinality(NotTaken)
      BY <2>1, Counts, CountsAreBounded DEF Bounds, Change, PushPlaces, PopPlaces
    <2>3. Filled' = Filled /\ Accounting'
      BY <1>4, <2>2, CountsAreBounded DEF WriteSlot, ring, sems, Accounting, Filled, Bounds
    <2>4. RingIsFilled'
      BY <1>4, <2>3 DEF WriteSlot, ring, RingIsFilled
    <2>5. QED
      BY <2>3, <2>4
  <1>5. CASE AdvanceBack(p)
    <2>1. Moved(p, "advance_back", "unlock_back")
      BY <1>5 DEF AdvanceBack, Moved, GoTo
    <2>2. /\ Cardinality(Pushing)' = Cardinality(Pushing)
          /\ Cardinality(Popping)' = Cardinality(Popping)
          /\ Cardinality(Advanced)' = Cardinality(Advanced) + 1
          /\ Cardinality(NotTaken)' = Cardinality(NotTaken)
      BY <2>1, Counts, CountsAreBounded DEF Bounds, Change, PushPlaces, PopPlaces
    <2>3. Filled' = Filled + 1 /\ Accounting'
      BY <1>5, <2>2, CountsAreBounded DEF AdvanceBack, ring, sems, Accounting, Filled, Bounds
    <2>4. back' = (IF back = size - 1 THEN 0 ELSE back + 1) /\ UNCHANGED <<size, front>>
      BY <1>5, NextIndex DEF AdvanceBack
    <2>5. Filled \in 0 .. size /\ Filled' \in 0 .. size
      BY <2>3, <2>4, FilledFits
    <2>6. RingIsFilled'
      BY <2>3, <2>4, <2>5 DEF RingIsFilled
    <2>7. QED
      BY <2>3, <2>6
  <1>6. CASE UnlockBack(p)
    <2>1. Moved(p, "unlock_back", "post_elem")
      BY <1>6 DEF UnlockBack, Moved, GoTo
    <2>2. /\ Cardinality(Pushing)' = Cardinality(Pushing)
          /\ Cardinality(Popping)' = Cardinality(Popping)
          /\ Cardinality(Advanced)' = Cardinality(Advanced)
          /\ Cardinality(NotTaken)' = Cardinality(NotTaken)
      BY <2>1, Counts, CountsAreBounded DEF Bounds, Change, PushPlaces, PopPlaces
    <2>3. Filled' = Filled /\ Accounting'
      BY <1>6, <2>2, CountsAreBounded DEF UnlockBack, ring, sems, Accounting, Filled, Bounds
    <2>4. RingIsFilled'
      BY <1>6, <2>3 DEF UnlockBack, ring, RingIsFilled
    <2>5. QED
      BY <2>3, <2>4
  <1>7. CASE PostElem(p)
    <2>1. Moved(p, "post_elem", "idle")
      BY <1>7 DEF PostElem, Moved, GoTo
    <2>2. /\ Cardinality(Pushing)' = Cardinality(Pushing) - 1
          /\ Cardinality(Popping)' = Cardinality(Popping)
          /\ Cardinality(Advanced)' = Cardinality(Advanced) - 1
          /\ Cardinality(NotTaken)' = Cardinality(NotTaken)
      BY <2>1, Counts, CountsAreBounded DEF Bounds, Change, PushPlaces, PopPlaces
    <2>3. Filled' = Filled /\ Accounting'
      BY <1>7, <2>2, CountsAreBounded DEF PostElem, ring, sems, Accounting, Filled, Bounds
    <2>4. RingIsFilled'
      BY <1>7, <2>3 DEF PostElem, ring, RingIsFilled
    <2>5. QED
      BY <2>3, <2>4
  <1>8. QED
    BY <1>1, <1>2, <1>3, <1>4, <1>5, <1>6, <1>7 DEF PushStep

LEMMA PopTokens ==
  ASSUME QueueTypeOK, QueueTypeOK', Accounting, RingIsFilled, NEW c \in Consumers, PopStep(c) \/ Pop(c)
  PROVE  Accounting' /\ RingIsFilled'
  <1> c \in Callers
    BY DEF Callers
  <1> /\ size \in Nat \ {0} /\ front \in 0 .. (size - 1) /\ back \in 0 .. (size - 1)
      /\ elem_available_sem \in Nat /\ slot_available_sem \in Nat
    BY DEF QueueTypeOK
  <1>1. CASE Pop(c)
    <2>1. Moved(c, "idle", "wait_elem")
      BY <1>1 DEF Pop, Moved, GoTo
    <2>2. /\ Cardinality(Pushing)' = Cardinality(Pushing)
          /\ Cardinality(Popping)' = Cardinality(Popping)
          /\ Cardinality(Advanced)' = Cardinality(Advanced)
          /\ Cardinality(NotTaken)' = Cardinality(NotTaken)
      BY <2>1, Counts, CountsAreBounded DEF Bounds, Change, PushPlaces, PopPlaces
    <2>3. Filled' = Filled /\ Accounting'
      BY <1>1, <2>2, CountsAreBounded DEF Pop, ring, sems, Accounting, Filled, Bounds
    <2>4. RingIsFilled'
      BY <1>1, <2>3 DEF Pop, ring, RingIsFilled
    <2>5. QED
      BY <2>3, <2>4
  <1>2. CASE WaitElem(c)
    <2>1. Moved(c, "wait_elem", "lock_front")
      BY <1>2 DEF WaitElem, Moved, GoTo
    <2>2. /\ Cardinality(Pushing)' = Cardinality(Pushing)
          /\ Cardinality(Popping)' = Cardinality(Popping) + 1
          /\ Cardinality(Advanced)' = Cardinality(Advanced)
          /\ Cardinality(NotTaken)' = Cardinality(NotTaken) + 1
      BY <2>1, Counts, CountsAreBounded DEF Bounds, Change, PushPlaces, PopPlaces
    <2>3. Filled' = Filled /\ Accounting'
      BY <1>2, <2>2, CountsAreBounded DEF WaitElem, ring, sems, Accounting, Filled, Bounds
    <2>4. RingIsFilled'
      BY <1>2, <2>3 DEF WaitElem, ring, RingIsFilled
    <2>5. QED
      BY <2>3, <2>4
  <1>3. CASE LockFront(c)
    <2>1. Moved(c, "lock_front", "read_slot")
      BY <1>3 DEF LockFront, Moved, GoTo
    <2>2. /\ Cardinality(Pushing)' = Cardinality(Pushing)
          /\ Cardinality(Popping)' = Cardinality(Popping)
          /\ Cardinality(Advanced)' = Cardinality(Advanced)
          /\ Cardinality(NotTaken)' = Cardinality(NotTaken)
      BY <2>1, Counts, CountsAreBounded DEF Bounds, Change, PushPlaces, PopPlaces
    <2>3. Filled' = Filled /\ Accounting'
      BY <1>3, <2>2, CountsAreBounded DEF LockFront, ring, sems, Accounting, Filled, Bounds
    <2>4. RingIsFilled'
      BY <1>3, <2>3 DEF LockFront, ring, RingIsFilled
    <2>5. QED
      BY <2>3, <2>4
  <1>4. CASE ReadSlot(c)
    <2>1. Moved(c, "read_slot", "advance_front")
      BY <1>4 DEF ReadSlot, Moved, GoTo
    <2>2. /\ Cardinality(Pushing)' = Cardinality(Pushing)
          /\ Cardinality(Popping)' = Cardinality(Popping)
          /\ Cardinality(Advanced)' = Cardinality(Advanced)
          /\ Cardinality(NotTaken)' = Cardinality(NotTaken)
      BY <2>1, Counts, CountsAreBounded DEF Bounds, Change, PushPlaces, PopPlaces
    <2>3. Filled' = Filled /\ Accounting'
      BY <1>4, <2>2, CountsAreBounded DEF ReadSlot, ring, sems, Accounting, Filled, Bounds
    <2>4. RingIsFilled'
      BY <1>4, <2>3 DEF ReadSlot, ring, RingIsFilled
    <2>5. QED
      BY <2>3, <2>4
  <1>5. CASE AdvanceFront(c)
    <2>1. Moved(c, "advance_front", "unlock_front")
      BY <1>5 DEF AdvanceFront, Moved, GoTo
    <2>2. /\ Cardinality(Pushing)' = Cardinality(Pushing)
          /\ Cardinality(Popping)' = Cardinality(Popping)
          /\ Cardinality(Advanced)' = Cardinality(Advanced)
          /\ Cardinality(NotTaken)' = Cardinality(NotTaken) - 1
      BY <2>1, Counts, CountsAreBounded DEF Bounds, Change, PushPlaces, PopPlaces
    <2>3. Filled' = Filled - 1 /\ Accounting'
      BY <1>5, <2>2, CountsAreBounded DEF AdvanceFront, ring, sems, Accounting, Filled, Bounds
    <2>4. front' = (IF front = size - 1 THEN 0 ELSE front + 1) /\ UNCHANGED <<size, back>>
      BY <1>5, NextIndex DEF AdvanceFront
    <2>5. Filled \in 0 .. size /\ Filled' \in 0 .. size
      BY <2>3, <2>4, FilledFits
    <2>6. RingIsFilled'
      BY <2>3, <2>4, <2>5 DEF RingIsFilled
    <2>7. QED
      BY <2>3, <2>6
  <1>6. CASE UnlockFront(c)
    <2>1. Moved(c, "unlock_front", "post_slot")
      BY <1>6 DEF UnlockFront, Moved, GoTo
    <2>2. /\ Cardinality(Pushing)' = Cardinality(Pushing)
          /\ Cardinality(Popping)' = Cardinality(Popping)
          /\ Cardinality(Advanced)' = Cardinality(Advanced)
          /\ Cardinality(NotTaken)' = Cardinality(NotTaken)
      BY <2>1, Counts, CountsAreBounded DEF Bounds, Change, PushPlaces, PopPlaces
    <2>3. Filled' = Filled /\ Accounting'
      BY <1>6, <2>2, CountsAreBounded DEF UnlockFront, ring, sems, Accounting, Filled, Bounds
    <2>4. RingIsFilled'
      BY <1>6, <2>3 DEF UnlockFront, ring, RingIsFilled
    <2>5. QED
      BY <2>3, <2>4
  <1>7. CASE PostSlot(c)
    <2>1. Moved(c, "post_slot", "idle")
      BY <1>7 DEF PostSlot, Moved, GoTo
    <2>2. /\ Cardinality(Pushing)' = Cardinality(Pushing)
          /\ Cardinality(Popping)' = Cardinality(Popping) - 1
          /\ Cardinality(Advanced)' = Cardinality(Advanced)
          /\ Cardinality(NotTaken)' = Cardinality(NotTaken)
      BY <2>1, Counts, CountsAreBounded DEF Bounds, Change, PushPlaces, PopPlaces
    <2>3. Filled' = Filled /\ Accounting'
      BY <1>7, <2>2, CountsAreBounded DEF PostSlot, ring, sems, Accounting, Filled, Bounds
    <2>4. RingIsFilled'
      BY <1>7, <2>3 DEF PostSlot, ring, RingIsFilled
    <2>5. QED
      BY <2>3, <2>4
  <1>8. QED
    BY <1>1, <1>2, <1>3, <1>4, <1>5, <1>6, <1>7 DEF PopStep

LEMMA NextInv == IInv /\ [QueueNext]_queueVars => IInv'
  <1> SUFFICES ASSUME IInv, [QueueNext]_queueVars
               PROVE  IInv'
    OBVIOUS
  <1>1. QueueTypeOK' /\ EndsAreLocked'
    BY NextTypes, NextLocked DEF IInv
  <1>2. CASE UNCHANGED queueVars
    BY <1>1, <1>2
    DEF IInv, queueVars, ring, sems, Accounting, RingIsFilled, Filled, Pushing, Popping,
        Advanced, NotTaken, Users
  <1>3. CASE QueueNext
    BY <1>1, <1>3, PushTokens, PopTokens DEF IInv, QueueNext
  <1>4. QED
    BY <1>2, <1>3

LEMMA InvHolds == QueueSpec => []IInv
  <1>1. QueueInit => IInv
    BY InitTypes, InitTokens DEF IInv
  <1>2. QED
    BY <1>1, NextInv, PTL DEF QueueSpec

(***************************************************************************)
(* Every slot is free, full, or in the hands of one thread: the tokens of  *)
(* the two semaphores and those held by threads inside queue_push and      *)
(* queue_pop add up to size, whatever the threads and their interleaving.  *)
(***************************************************************************)
THEOREM SlotsAreAccountedFor == QueueSpec => []Accounting
  <1>1. IInv => Accounting
    BY DEF IInv
  <1>2. QED
    BY <1>1, InvHolds, PTL

(***************************************************************************)
(* A producer at list[back] and a consumer at list[front], under different *)
(* mutexes, are at different slots.                                        *)
(***************************************************************************)
THEOREM NoRaceOnASlot == QueueSpec => []NoSlotRace
  <1>1. ASSUME IInv
        PROVE  NoSlotRace
    <2> SUFFICES ASSUME NEW p \in Users({"write_slot"}), NEW c \in Users({"read_slot"})
                 PROVE  front # back
      BY DEF NoSlotRace
    <2>1. Cardinality(NotTaken) > 0
      <3>1. c \in NotTaken
        BY DEF NotTaken, Users
      <3>2. QED
        BY <3>1, AtIsFinite, FS_EmptySet DEF NotTaken
    <2>2. Cardinality(Advanced) < Cardinality(Pushing)
      <3>1. Advanced \subseteq Pushing /\ p \in Pushing /\ p \notin Advanced
        BY DEF Advanced, Pushing, Users, PushPlaces
      <3>2. IsFiniteSet(Pushing) /\ Cardinality(Advanced) # Cardinality(Pushing)
        BY <3>1, AtIsFinite, FS_Subset DEF Pushing
      <3>3. QED
        BY <3>2, CountsAreBounded DEF Bounds
    <2>3. Filled > 0 /\ Filled < size
      BY <1>1, <2>1, <2>2, CountsAreBounded, SMTT(30) DEF IInv, QueueTypeOK, Accounting, Filled, Bounds
    <2>4. QED
      BY <1>1, <2>3, FilledFits DEF IInv, QueueTypeOK, RingIsFilled
  <1>2. QED
    BY <1>1, InvHolds, PTL

-----------------------------------------------------------------------------
(***************************************************************************)
(* The queue implements Fifo.  Contents begins at front, or one after it   *)
(* while a consumer has read and not advanced, and ends before back, or    *)
(* after it while a producer has written and not advanced.                 *)
(***************************************************************************)
HasElem == {"wait_slot", "lock_back", "write_slot"}
HasTaken == {"advance_front", "unlock_front", "post_slot"}

\* Nothing but values goes through the queue, so that None can stand for no
\* element in Offered and Taken.
ValuesOnly ==
  /\ \A p \in Producers : at[p] \in HasElem => elem[p] \in Values
  /\ \A c \in Consumers : at[c] \in HasTaken => elem[c] \in Values
  /\ \A i \in 1 .. Count : Contents[i] \in Values

\* The index x, in a ring of n slots.
LEMMA Wraps ==
  ASSUME NEW n \in Nat \ {0}, NEW x \in 0 .. (2 * n - 1)
  PROVE  x % n = IF x < n THEN x ELSE x - n
  BY SMT

LEMMA OneAtTheFront ==
  ASSUME IInv, NEW c \in Consumers, at[c] \in InFront
  PROVE  \A d \in Callers : at[d] \in InFront => d = c
  BY DEF IInv, QueueTypeOK, EndsAreLocked, Callers, InFront, PushPlaces

LEMMA OneAtTheBack ==
  ASSUME IInv, NEW p \in Producers, at[p] \in InBack
  PROVE  \A q \in Callers : at[q] \in InBack => q = p
  BY DEF IInv, QueueTypeOK, EndsAreLocked, Callers, InBack, PopPlaces

AtAdvanceFront == Cardinality(Users({"advance_front"}))
AtAdvanceBack  == Cardinality(Users({"advance_back"}))

LEMMA AtMostOneAdvances ==
  ASSUME IInv
  PROVE  /\ AtAdvanceFront = IF Users({"advance_front"}) = {} THEN 0 ELSE 1
         /\ AtAdvanceBack = IF Users({"advance_back"}) = {} THEN 0 ELSE 1
  <1>1. ASSUME NEW c \in Users({"advance_front"})
        PROVE  Users({"advance_front"}) = {c}
    BY <1>1, OneAtTheFront DEF IInv, QueueTypeOK, Users, Callers, InFront, PopPlaces, PushPlaces
  <1>2. ASSUME NEW p \in Users({"advance_back"})
        PROVE  Users({"advance_back"}) = {p}
    BY <1>2, OneAtTheBack DEF IInv, QueueTypeOK, Users, Callers, InBack, PopPlaces, PushPlaces
  <1>3. QED
    BY <1>1, <1>2, FS_Singleton, FS_EmptySet, ZenonT(60) DEF AtAdvanceFront, AtAdvanceBack

\* Sums of threads at disjoint places.
LEMMA Sums ==
  ASSUME NEW S, NEW T, S \cap T = {}
  PROVE  Cardinality(Users(S \cup T)) = Cardinality(Users(S)) + Cardinality(Users(T))
  <1>1. Cardinality(Users(S \cup T)) = Cardinality(Users(S) \cup Users(T))
    <2>1. Users(S \cup T) = Users(S) \cup Users(T)
      BY DEF Users
    <2>2. QED
      BY <2>1, Zenon
  <1>2. Cardinality(Users(S) \cap Users(T)) = 0
    <2>1. Users(S) \cap Users(T) = {}
      BY DEF Users
    <2>2. QED
      BY <2>1, FS_EmptySet
  <1>3. /\ IsFiniteSet(Users(S)) /\ Cardinality(Users(S)) \in Nat
        /\ IsFiniteSet(Users(T)) /\ Cardinality(Users(T)) \in Nat
    BY AtIsFinite
  <1>4. Cardinality(Users(S) \cup Users(T))
          = Cardinality(Users(S)) + Cardinality(Users(T)) - Cardinality(Users(S) \cap Users(T))
    BY <1>3, FS_Union
  <1>5. QED
    BY <1>1, <1>2, <1>3, <1>4

LEMMA CountIsFilled ==
  ASSUME QueueTypeOK
  PROVE  Count = Filled + AtAdvanceBack - AtAdvanceFront
  <1>1. Cardinality(Written) = AtAdvanceBack + Cardinality(Advanced)
    <2>1. {"advance_back"} \cup {"unlock_back", "post_elem"}
            = {"advance_back", "unlock_back", "post_elem"}
      OBVIOUS
    <2>2. QED
      BY <2>1, Sums DEF Written, Advanced, AtAdvanceBack
  <1>2. Cardinality(NotTaken) = Cardinality(Users({"lock_front", "read_slot"})) + AtAdvanceFront
    <2>1. {"lock_front", "read_slot"} \cup {"advance_front"}
            = {"lock_front", "read_slot", "advance_front"}
      OBVIOUS
    <2>2. QED
      BY <2>1, Sums DEF NotTaken, AtAdvanceFront
  <1>3. Cardinality(Popping) = Cardinality(Users({"lock_front", "read_slot"})) + Cardinality(Read)
    <2>1. {"lock_front", "read_slot"} \cup {"advance_front", "unlock_front", "post_slot"}
            = PopPlaces \ {"wait_elem"}
      BY DEF PopPlaces
    <2>2. QED
      BY <2>1, Sums DEF Popping, Read
  <1>4. QED
    BY <1>1, <1>2, <1>3, AtIsFinite
    DEF QueueTypeOK, Count, Filled, Written, Advanced, NotTaken, Popping, Read, AtAdvanceBack,
        AtAdvanceFront

LEMMA ContentsFit ==
  ASSUME IInv
  PROVE  /\ Count \in 0 .. size
         /\ Users({"write_slot"}) # {} => Count < size
         /\ Users({"read_slot"}) # {} => Count > 0
         /\ Start \in 0 .. (size - 1)
         /\ Users({"advance_back"}) = {} => back \in {Start + Count, Start + Count - size}
  <1>1. /\ size \in Nat \ {0} /\ front \in 0 .. (size - 1) /\ back \in 0 .. (size - 1)
        /\ elem_available_sem \in Nat /\ slot_available_sem \in Nat
    BY DEF IInv, QueueTypeOK
  <1>2. /\ Cardinality(Pushing) = Cardinality(Written)
             + Cardinality(Users({"lock_back"})) + Cardinality(Users({"write_slot"}))
        /\ Cardinality(Popping) = Cardinality(Read)
             + Cardinality(Users({"lock_front"})) + Cardinality(Users({"read_slot"}))
    <2>1. {"advance_back", "unlock_back", "post_elem"} \cup ({"lock_back"} \cup {"write_slot"})
            = PushPlaces \ {"wait_slot"}
      BY DEF PushPlaces
    <2>2. {"advance_front", "unlock_front", "post_slot"} \cup ({"lock_front"} \cup {"read_slot"})
            = PopPlaces \ {"wait_elem"}
      BY DEF PopPlaces
    <2>3. Cardinality(Pushing)
            = Cardinality(Written) + Cardinality(Users({"lock_back"} \cup {"write_slot"}))
      BY <2>1, Sums DEF Pushing, Written
    <2>4. Cardinality(Popping)
            = Cardinality(Read) + Cardinality(Users({"lock_front"} \cup {"read_slot"}))
      BY <2>2, Sums DEF Popping, Read
    <2>5. /\ Cardinality(Users({"lock_back"} \cup {"write_slot"}))
               = Cardinality(Users({"lock_back"})) + Cardinality(Users({"write_slot"}))
          /\ Cardinality(Users({"lock_front"} \cup {"read_slot"}))
               = Cardinality(Users({"lock_front"})) + Cardinality(Users({"read_slot"}))
      BY Sums
    <2>6. QED
      BY <2>3, <2>4, <2>5, AtIsFinite DEF Written, Read
  <1>3. /\ Users({"write_slot"}) # {} => Cardinality(Users({"write_slot"})) > 0
        /\ Users({"read_slot"}) # {} => Cardinality(Users({"read_slot"})) > 0
    BY AtIsFinite, FS_EmptySet
  <1>4. /\ Cardinality(Written) \in Nat /\ Cardinality(Read) \in Nat
        /\ Cardinality(Users({"lock_back"})) \in Nat /\ Cardinality(Users({"write_slot"})) \in Nat
        /\ Cardinality(Users({"lock_front"})) \in Nat /\ Cardinality(Users({"read_slot"})) \in Nat
    BY AtIsFinite DEF Written, Read
  <1>5. /\ Count \in 0 .. size
        /\ Users({"write_slot"}) # {} => Count < size
        /\ Users({"read_slot"}) # {} => Count > 0
    BY <1>1, <1>2, <1>3, <1>4 DEF IInv, Accounting, Count
  <1>6. Start = IF Users({"advance_front"}) = {} THEN front
                ELSE IF front = size - 1 THEN 0 ELSE front + 1
    BY <1>1, NextIndex DEF Start
  <1>7. Count = Filled + AtAdvanceBack - AtAdvanceFront /\ Filled \in 0 .. size
    BY CountIsFilled, FilledFits DEF IInv
  <1>8. Users({"advance_back"}) = {} => back \in {Start + Count, Start + Count - size}
    BY <1>1, <1>5, <1>6, <1>7, AtMostOneAdvances DEF IInv, RingIsFilled
  <1>9. QED
    BY <1>1, <1>5, <1>6, <1>8

LEMMA ContentsIsSeq ==
  ASSUME IInv, ValuesOnly
  PROVE  Contents \in Seq(Values) /\ Len(Contents) = Count
  BY ContentsFit DEF Contents, ValuesOnly

\* Where the k-th element is.
LaidOut ==
  /\ size \in Nat \ {0} /\ Count \in 0 .. size /\ Start \in 0 .. (size - 1)
  /\ DOMAIN Contents = 1 .. Count
  /\ \A k \in 1 .. Count :
       Contents[k] = list[IF Start + k - 1 < size THEN Start + k - 1
                          ELSE Start + k - 1 - size]

LEMMA ContentsAreLaidOut == (IInv => LaidOut) /\ (IInv' => LaidOut')
  <1>1. ASSUME IInv
        PROVE  LaidOut
    <2>1. size \in Nat \ {0} /\ Count \in 0 .. size /\ Start \in 0 .. (size - 1)
      BY <1>1, ContentsFit DEF IInv, QueueTypeOK
    <2>2. ASSUME NEW k \in 1 .. Count, NEW x \in 0 .. (2 * size - 1), x = Start + k - 1
          PROVE  Contents[k] = list[IF x < size THEN x ELSE x - size]
      <3>1. x % size = IF x < size THEN x ELSE x - size
        BY <2>1, Wraps, Zenon
      <3>2. Contents[k] = list[x % size]
        BY <2>2 DEF Contents
      <3>3. QED
        BY <3>1, <3>2
    <2>3. QED
      BY <2>1, <2>2 DEF Contents, LaidOut
  <1>2. IInv => LaidOut
    BY <1>1
  <1>3. (IInv => LaidOut)'
    BY <1>2, PTL
  <1>4. QED
    BY <1>2, <1>3

-----------------------------------------------------------------------------
(* What the steps do to Contents                                           *)
LEMMA AppendIs ==
  ASSUME NEW V, NEW s \in Seq(V), NEW t \in Seq(V), NEW e \in V,
         Len(t) = Len(s) + 1,
         \A i \in 1 .. Len(t) : t[i] = IF i <= Len(s) THEN s[i] ELSE e
  PROVE  t = Append(s, e)
  BY SeqEqual, AppendProperties

LEMMA TailIs ==
  ASSUME NEW V, NEW s \in Seq(V), NEW t \in Seq(V),
         Len(s) = Len(t) + 1,
         \A i \in 1 .. Len(t) : t[i] = s[i + 1]
  PROVE  t = Tail(s) /\ Head(s) = s[1]
  BY SeqEqual, HeadTailProperties

LEMMA CountChanges ==
  ASSUME QueueTypeOK, NEW t \in Callers, NEW p, NEW q, Moved(t, p, q)
  PROVE  /\ Cardinality(Written)' = Cardinality(Written)
               + Change(p, q, {"advance_back", "unlock_back", "post_elem"})
         /\ Cardinality(Popping)' = Cardinality(Popping)
               + Change(p, q, PopPlaces \ {"wait_elem"})
         /\ Cardinality(Read)' = Cardinality(Read)
               + Change(p, q, {"advance_front", "unlock_front", "post_slot"})
         /\ Cardinality(Written) \in Nat /\ Cardinality(Popping) \in Nat
         /\ Cardinality(Read) \in Nat /\ elem_available_sem \in Nat
         /\ p # "advance_front" /\ q # "advance_front" =>
               Users({"advance_front"})' = Users({"advance_front"})
  <1>1. DOMAIN at = Callers /\ elem_available_sem \in Nat
    BY DEF QueueTypeOK
  <1>2. ASSUME NEW S
        PROVE  Cardinality(Users(S))' = Cardinality(Users(S)) + Change(p, q, S)
    BY <1>1, Moves, AtIsFinite DEF Change
  <1>3. p # "advance_front" /\ q # "advance_front" =>
               Users({"advance_front"})' = Users({"advance_front"})
    BY <1>1 DEF Users, Moved
  <1>4. QED
    BY <1>1, <1>2, <1>3, AtIsFinite DEF Written, Popping, Read

LEMMA ContentsStay ==
  ASSUME UNCHANGED <<size, list, Count, Start>>
  PROVE  Contents' = Contents
  BY DEF Contents

LEMMA WriteAppends ==
  ASSUME IInv, IInv', ValuesOnly, NEW p \in Producers, WriteSlot(p)
  PROVE  Contents' = Append(Contents, elem[p]) /\ Count < size
  <1>1. p \in Callers /\ Moved(p, "write_slot", "advance_back") /\ QueueTypeOK
    BY DEF WriteSlot, Moved, GoTo, Callers, IInv
  <1>2. Count' = Count + 1
    <2>1. /\ Cardinality(Written)' = Cardinality(Written) + 1
          /\ Cardinality(Popping)' = Cardinality(Popping)
          /\ Cardinality(Read)' = Cardinality(Read)
          /\ Cardinality(Written) \in Nat /\ Cardinality(Popping) \in Nat
          /\ Cardinality(Read) \in Nat /\ elem_available_sem \in Nat
      BY <1>1, CountChanges DEF Change, PopPlaces
    <2>2. QED
      BY <2>1 DEF WriteSlot, sems, Count
  <1>3. Start' = Start
    BY <1>1, CountChanges DEF WriteSlot, Start
  <1>4. Count < size /\ back \in {Start + Count, Start + Count - size}
    <2>1. p \in Users({"write_slot"})
      BY <1>1 DEF Users, Moved
    <2>2. Users({"advance_back"}) = {}
      BY <1>1, OneAtTheBack DEF Users, Moved, InBack
    <2>3. QED
      BY <2>1, <2>2, ContentsFit
  <1>5. list' = [list EXCEPT ![back] = elem[p]] /\ size' = size
    BY DEF WriteSlot
  <1>6. LaidOut /\ LaidOut' /\ back \in 0 .. (size - 1) /\ DOMAIN list = 0 .. (size - 1)
    BY ContentsAreLaidOut DEF IInv, QueueTypeOK
  <1>7. ASSUME NEW k \in 1 .. (Count + 1)
        PROVE  Contents'[k] = IF k <= Count THEN Contents[k] ELSE elem[p]
    BY <1>2, <1>3, <1>4, <1>5, <1>6, SMTT(30) DEF LaidOut
  <1>8. Contents \in Seq(Values) /\ Len(Contents) = Count /\ elem[p] \in Values
    BY <1>1, ContentsIsSeq DEF ValuesOnly, Moved, HasElem
  <1>9. DOMAIN Contents' = 1 .. (Count + 1)
    BY <1>2, <1>6 DEF LaidOut
  <1>10. Contents' \in Seq(Values) /\ Len(Contents') = Count + 1
    <2>1. Count \in Nat
      BY <1>6 DEF LaidOut
    <2>2. \A k \in 1 .. (Count + 1) : Contents'[k] \in Values
      BY <1>7, <1>8, <2>1, ElementOfSeq
    <2>3. QED
      BY <1>2, <2>1, <2>2 DEF Contents
  <1>11. Contents' = Append(Contents, elem[p])
    BY <1>6, <1>7, <1>8, <1>10, AppendIs DEF LaidOut
  <1>12. QED
    BY <1>4, <1>11
LEMMA ReadTakes ==
  ASSUME IInv, IInv', ValuesOnly, NEW c \in Consumers, ReadSlot(c)
  PROVE  /\ Contents # <<>> /\ list[front] = Head(Contents) /\ list[front] \in Values
         /\ Contents' = Tail(Contents)
  <1>1. c \in Callers /\ Moved(c, "read_slot", "advance_front") /\ QueueTypeOK
    BY DEF ReadSlot, Moved, GoTo, Callers, IInv
  <1>2. Count' = Count - 1
    <2>1. /\ Cardinality(Written)' = Cardinality(Written)
          /\ Cardinality(Popping)' = Cardinality(Popping)
          /\ Cardinality(Read)' = Cardinality(Read) + 1
          /\ Cardinality(Written) \in Nat /\ Cardinality(Popping) \in Nat
          /\ Cardinality(Read) \in Nat /\ elem_available_sem \in Nat
      BY <1>1, CountChanges DEF Change, PopPlaces
    <2>2. QED
      BY <2>1 DEF ReadSlot, sems, Count
  <1>3. Users({"advance_front"}) = {} /\ c \in Users({"read_slot"}) /\ c \in Users({"advance_front"})'
    BY <1>1, OneAtTheFront DEF Users, Moved, InFront, QueueTypeOK
  <1>4. size' = size /\ list' = list /\ front' = front
    BY DEF ReadSlot, ring
  <1>5. LaidOut /\ LaidOut' /\ front \in 0 .. (size - 1) /\ Count > 0
    BY <1>1, <1>3, ContentsAreLaidOut, ContentsFit DEF QueueTypeOK
  <1>6. Start = front /\ Start' = IF front = size - 1 THEN 0 ELSE front + 1
    BY <1>3, <1>4, <1>5, NextIndex DEF Start, LaidOut
  <1>7. Contents[1] = list[front]
    BY <1>5, <1>6 DEF LaidOut
  <1>8. ASSUME NEW k \in 1 .. (Count - 1)
        PROVE  Contents'[k] = Contents[k + 1]
    BY <1>2, <1>4, <1>5, <1>6 DEF LaidOut
  <1>9. Contents \in Seq(Values) /\ Len(Contents) = Count
    BY ContentsIsSeq
  <1>10. Contents' \in Seq(Values) /\ Len(Contents') = Count - 1
    <2>1. Count \in Nat
      BY <1>5 DEF LaidOut
    <2>2. \A k \in 1 .. (Count - 1) : Contents'[k] \in Values
      BY <1>8, <1>9, <2>1, ElementOfSeq
    <2>3. QED
      BY <1>2, <1>5, <2>1, <2>2 DEF Contents
  <1>11. Contents' = Tail(Contents) /\ Head(Contents) = Contents[1]
    BY <1>5, <1>8, <1>9, <1>10, TailIs DEF LaidOut
  <1>12. Contents # <<>> /\ Contents[1] \in Values
    BY <1>5, <1>9, ElementOfSeq DEF LaidOut
  <1>13. QED
    BY <1>7, <1>11, <1>12

(***************************************************************************)
(* Every step of queue_push is a step of Fifo, or none: the call offers,   *)
(* the write inserts.                                                      *)
(***************************************************************************)
Refines == ValuesOnly' /\ [AbstractQueue!Next]_(AbstractQueue!vars)

LEMMA PushRefines ==
  ASSUME IInv, IInv', ValuesOnly, NEW p \in Producers,
         PushStep(p) \/ \E v \in Values : Push(p, v)
  PROVE  Refines
  <1>1. p \in Callers /\ p \notin Consumers /\ QueueTypeOK /\ QueueTypeOK' /\ DOMAIN at = Callers
    BY QueueAssumption DEF Callers, IInv, QueueTypeOK
  <1>2. Contents \in Seq(Values) /\ Len(Contents) = Count
    BY ContentsIsSeq
  <1>3. ASSUME NEW v \in Values, Push(p, v)
        PROVE  Refines
    <2>1. Moved(p, "idle", "wait_slot")
      BY <1>3 DEF Push, Moved, GoTo
    <2>2. /\ Cardinality(Written)' = Cardinality(Written)
          /\ Cardinality(Popping)' = Cardinality(Popping)
          /\ Cardinality(Read)' = Cardinality(Read)
          /\ Users({"advance_front"})' = Users({"advance_front"})
          /\ Cardinality(Written) \in Nat /\ Cardinality(Popping) \in Nat
          /\ Cardinality(Read) \in Nat /\ elem_available_sem \in Nat
      BY <1>1, <2>1, CountChanges DEF Change, PopPlaces
    <2>3. Count' = Count /\ Start' = Start
      BY <1>3, <2>2 DEF Push, ring, sems, Count, Start
    <2>4. Contents' = Contents /\ size' = size
      BY <1>3, <2>3, ContentsStay DEF Push, ring
    <2>5. /\ Offered[p] = None /\ Offered' = [Offered EXCEPT ![p] = v]
          /\ Taken' = Taken /\ ValuesOnly'
      BY <1>1, <1>3, <2>1, <2>3, <2>4
      DEF Push, Moved, Offered, Taken, ValuesOnly, QueueTypeOK, Callers, HasElem, HasTaken
    <2>6. AbstractQueue!Offer(p, v)
      BY <2>4, <2>5 DEF AbstractQueue!Offer
    <2>7. QED
      BY <2>5, <2>6 DEF Refines, AbstractQueue!Next
  <1>4. CASE WaitSlot(p)
    <2>1. Moved(p, "wait_slot", "lock_back")
      BY <1>4 DEF WaitSlot, Moved, GoTo
    <2>2. /\ Cardinality(Written)' = Cardinality(Written)
          /\ Cardinality(Popping)' = Cardinality(Popping)
          /\ Cardinality(Read)' = Cardinality(Read)
          /\ Users({"advance_front"})' = Users({"advance_front"})
          /\ Cardinality(Written) \in Nat /\ Cardinality(Popping) \in Nat
          /\ Cardinality(Read) \in Nat /\ elem_available_sem \in Nat
      BY <1>1, <2>1, CountChanges DEF Change, PopPlaces
    <2>3. Count' = Count /\ Start' = Start
      BY <1>4, <2>2 DEF WaitSlot, ring, sems, Count, Start
    <2>4. Contents' = Contents /\ size' = size
      BY <1>4, <2>3, ContentsStay DEF WaitSlot, ring
    <2>5. Offered' = Offered /\ Taken' = Taken /\ ValuesOnly'
      BY <1>1, <1>4, <2>1, <2>3, <2>4
      DEF WaitSlot, Moved, Offered, Taken, ValuesOnly, QueueTypeOK, Callers, HasElem, HasTaken
    <2>6. QED
      BY <2>4, <2>5 DEF Refines, AbstractQueue!vars
  <1>5. CASE LockBack(p)
    <2>1. Moved(p, "lock_back", "write_slot")
      BY <1>5 DEF LockBack, Moved, GoTo
    <2>2. /\ Cardinality(Written)' = Cardinality(Written)
          /\ Cardinality(Popping)' = Cardinality(Popping)
          /\ Cardinality(Read)' = Cardinality(Read)
          /\ Users({"advance_front"})' = Users({"advance_front"})
          /\ Cardinality(Written) \in Nat /\ Cardinality(Popping) \in Nat
          /\ Cardinality(Read) \in Nat /\ elem_available_sem \in Nat
      BY <1>1, <2>1, CountChanges DEF Change, PopPlaces
    <2>3. Count' = Count /\ Start' = Start
      BY <1>5, <2>2 DEF LockBack, ring, sems, Count, Start
    <2>4. Contents' = Contents /\ size' = size
      BY <1>5, <2>3, ContentsStay DEF LockBack, ring
    <2>5. Offered' = Offered /\ Taken' = Taken /\ ValuesOnly'
      BY <1>1, <1>5, <2>1, <2>3, <2>4
      DEF LockBack, Moved, Offered, Taken, ValuesOnly, QueueTypeOK, Callers, HasElem, HasTaken
    <2>6. QED
      BY <2>4, <2>5 DEF Refines, AbstractQueue!vars
  <1>6. CASE WriteSlot(p)
    <2>1. Moved(p, "write_slot", "advance_back")
      BY <1>6 DEF WriteSlot, Moved, GoTo
    <2>2. Contents' = Append(Contents, elem[p]) /\ Count < size /\ size' = size
      BY <1>6, WriteAppends DEF WriteSlot
    <2>3. elem[p] \in Values /\ None \notin Values
      BY <2>1, QueueAssumption DEF ValuesOnly, Moved, HasElem
    <2>4. /\ Offered[p] = elem[p] /\ Offered' = [Offered EXCEPT ![p] = None]
          /\ Taken' = Taken
      BY <1>1, <1>6, <2>1 DEF WriteSlot, Moved, Offered, Taken, QueueTypeOK, Callers
    <2>5. Contents' \in Seq(Values)
      BY <1>2, <2>2, <2>3, AppendProperties
    <2>6. ValuesOnly'
      <3>1. \A k \in 1 .. Count' : Contents'[k] \in Values
        <4>1. Count' \in Nat /\ DOMAIN Contents' = 1 .. Count'
          BY ContentsAreLaidOut DEF LaidOut
        <4>2. Count' = Len(Contents')
          BY <2>5, <4>1, LenProperties
        <4>3. QED
          BY <2>5, <4>2, ElementOfSeq
      <3>2. QED
        BY <1>1, <1>6, <2>1, <3>1
        DEF WriteSlot, Moved, ValuesOnly, QueueTypeOK, Callers, HasElem, HasTaken
    <2>7. AbstractQueue!Insert(p)
      BY <1>2, <2>2, <2>3, <2>4 DEF AbstractQueue!Insert, AbstractQueue!CanInsert
    <2>8. QED
      BY <2>6, <2>7 DEF Refines, AbstractQueue!Next
  <1>7. CASE AdvanceBack(p)
    <2>1. Moved(p, "advance_back", "unlock_back")
      BY <1>7 DEF AdvanceBack, Moved, GoTo
    <2>2. /\ Cardinality(Written)' = Cardinality(Written)
          /\ Cardinality(Popping)' = Cardinality(Popping)
          /\ Cardinality(Read)' = Cardinality(Read)
          /\ Users({"advance_front"})' = Users({"advance_front"})
          /\ Cardinality(Written) \in Nat /\ Cardinality(Popping) \in Nat
          /\ Cardinality(Read) \in Nat /\ elem_available_sem \in Nat
      BY <1>1, <2>1, CountChanges DEF Change, PopPlaces
    <2>3. Count' = Count /\ Start' = Start
      BY <1>7, <2>2 DEF AdvanceBack, ring, sems, Count, Start
    <2>4. Contents' = Contents /\ size' = size
      BY <1>7, <2>3, ContentsStay DEF AdvanceBack, ring
    <2>5. Offered' = Offered /\ Taken' = Taken /\ ValuesOnly'
      BY <1>1, <1>7, <2>1, <2>3, <2>4
      DEF AdvanceBack, Moved, Offered, Taken, ValuesOnly, QueueTypeOK, Callers, HasElem, HasTaken
    <2>6. QED
      BY <2>4, <2>5 DEF Refines, AbstractQueue!vars
  <1>8. CASE UnlockBack(p)
    <2>1. Moved(p, "unlock_back", "post_elem")
      BY <1>8 DEF UnlockBack, Moved, GoTo
    <2>2. /\ Cardinality(Written)' = Cardinality(Written)
          /\ Cardinality(Popping)' = Cardinality(Popping)
          /\ Cardinality(Read)' = Cardinality(Read)
          /\ Users({"advance_front"})' = Users({"advance_front"})
          /\ Cardinality(Written) \in Nat /\ Cardinality(Popping) \in Nat
          /\ Cardinality(Read) \in Nat /\ elem_available_sem \in Nat
      BY <1>1, <2>1, CountChanges DEF Change, PopPlaces
    <2>3. Count' = Count /\ Start' = Start
      BY <1>8, <2>2 DEF UnlockBack, ring, sems, Count, Start
    <2>4. Contents' = Contents /\ size' = size
      BY <1>8, <2>3, ContentsStay DEF UnlockBack, ring
    <2>5. Offered' = Offered /\ Taken' = Taken /\ ValuesOnly'
      BY <1>1, <1>8, <2>1, <2>3, <2>4
      DEF UnlockBack, Moved, Offered, Taken, ValuesOnly, QueueTypeOK, Callers, HasElem, HasTaken
    <2>6. QED
      BY <2>4, <2>5 DEF Refines, AbstractQueue!vars
  <1>9. CASE PostElem(p)
    <2>1. Moved(p, "post_elem", "idle")
      BY <1>9 DEF PostElem, Moved, GoTo
    <2>2. /\ Cardinality(Written)' = Cardinality(Written) - 1
          /\ Cardinality(Popping)' = Cardinality(Popping)
          /\ Cardinality(Read)' = Cardinality(Read)
          /\ Users({"advance_front"})' = Users({"advance_front"})
          /\ Cardinality(Written) \in Nat /\ Cardinality(Popping) \in Nat
          /\ Cardinality(Read) \in Nat /\ elem_available_sem \in Nat
      BY <1>1, <2>1, CountChanges DEF Change, PopPlaces
    <2>3. Count' = Count /\ Start' = Start
      BY <1>9, <2>2 DEF PostElem, ring, sems, Count, Start
    <2>4. Contents' = Contents /\ size' = size
      BY <1>9, <2>3, ContentsStay DEF PostElem, ring
    <2>5. Offered' = Offered /\ Taken' = Taken /\ ValuesOnly'
      BY <1>1, <1>9, <2>1, <2>3, <2>4
      DEF PostElem, Moved, Offered, Taken, ValuesOnly, QueueTypeOK, Callers, HasElem, HasTaken
    <2>6. QED
      BY <2>4, <2>5 DEF Refines, AbstractQueue!vars
  <1>10. QED
    BY <1>3, <1>4, <1>5, <1>6, <1>7, <1>8, <1>9 DEF PushStep

(***************************************************************************)
(* Of queue_pop, the read takes and the return gives the element back.     *)
(***************************************************************************)
LEMMA PopRefines ==
  ASSUME IInv, IInv', ValuesOnly, NEW c \in Consumers, PopStep(c) \/ Pop(c)
  PROVE  Refines
  <1>1. c \in Callers /\ c \notin Producers /\ QueueTypeOK /\ QueueTypeOK' /\ DOMAIN at = Callers
    BY QueueAssumption DEF Callers, IInv, QueueTypeOK
  <1>2. Contents \in Seq(Values) /\ Len(Contents) = Count
    BY ContentsIsSeq
  <1>3. CASE Pop(c)
    <2>1. Moved(c, "idle", "wait_elem")
      BY <1>3 DEF Pop, Moved, GoTo
    <2>2. /\ Cardinality(Written)' = Cardinality(Written)
          /\ Cardinality(Popping)' = Cardinality(Popping)
          /\ Cardinality(Read)' = Cardinality(Read)
          /\ Users({"advance_front"})' = Users({"advance_front"})
          /\ Cardinality(Written) \in Nat /\ Cardinality(Popping) \in Nat
          /\ Cardinality(Read) \in Nat /\ elem_available_sem \in Nat
      BY <1>1, <2>1, CountChanges DEF Change, PopPlaces
    <2>3. Count' = Count /\ Start' = Start
      BY <1>3, <2>2 DEF Pop, ring, sems, Count, Start
    <2>4. Contents' = Contents /\ size' = size
      BY <1>3, <2>3, ContentsStay DEF Pop, ring
    <2>5. Offered' = Offered /\ Taken' = Taken /\ ValuesOnly'
      BY <1>1, <1>3, <2>1, <2>3, <2>4
      DEF Pop, Moved, Offered, Taken, ValuesOnly, QueueTypeOK, Callers, HasElem, HasTaken
    <2>6. QED
      BY <2>4, <2>5 DEF Refines, AbstractQueue!vars
  <1>4. CASE WaitElem(c)
    <2>1. Moved(c, "wait_elem", "lock_front")
      BY <1>4 DEF WaitElem, Moved, GoTo
    <2>2. /\ Cardinality(Written)' = Cardinality(Written)
          /\ Cardinality(Popping)' = Cardinality(Popping) + 1
          /\ Cardinality(Read)' = Cardinality(Read)
          /\ Users({"advance_front"})' = Users({"advance_front"})
          /\ Cardinality(Written) \in Nat /\ Cardinality(Popping) \in Nat
          /\ Cardinality(Read) \in Nat /\ elem_available_sem \in Nat
      BY <1>1, <2>1, CountChanges DEF Change, PopPlaces
    <2>3. Count' = Count /\ Start' = Start
      BY <1>4, <2>2 DEF WaitElem, ring, sems, Count, Start
    <2>4. Contents' = Contents /\ size' = size
      BY <1>4, <2>3, ContentsStay DEF WaitElem, ring
    <2>5. Offered' = Offered /\ Taken' = Taken /\ ValuesOnly'
      BY <1>1, <1>4, <2>1, <2>3, <2>4
      DEF WaitElem, Moved, Offered, Taken, ValuesOnly, QueueTypeOK, Callers, HasElem, HasTaken
    <2>6. QED
      BY <2>4, <2>5 DEF Refines, AbstractQueue!vars
  <1>5. CASE LockFront(c)
    <2>1. Moved(c, "lock_front", "read_slot")
      BY <1>5 DEF LockFront, Moved, GoTo
    <2>2. /\ Cardinality(Written)' = Cardinality(Written)
          /\ Cardinality(Popping)' = Cardinality(Popping)
          /\ Cardinality(Read)' = Cardinality(Read)
          /\ Users({"advance_front"})' = Users({"advance_front"})
          /\ Cardinality(Written) \in Nat /\ Cardinality(Popping) \in Nat
          /\ Cardinality(Read) \in Nat /\ elem_available_sem \in Nat
      BY <1>1, <2>1, CountChanges DEF Change, PopPlaces
    <2>3. Count' = Count /\ Start' = Start
      BY <1>5, <2>2 DEF LockFront, ring, sems, Count, Start
    <2>4. Contents' = Contents /\ size' = size
      BY <1>5, <2>3, ContentsStay DEF LockFront, ring
    <2>5. Offered' = Offered /\ Taken' = Taken /\ ValuesOnly'
      BY <1>1, <1>5, <2>1, <2>3, <2>4
      DEF LockFront, Moved, Offered, Taken, ValuesOnly, QueueTypeOK, Callers, HasElem, HasTaken
    <2>6. QED
      BY <2>4, <2>5 DEF Refines, AbstractQueue!vars
  <1>6. CASE ReadSlot(c)
    <2>1. Moved(c, "read_slot", "advance_front") /\ size' = size
      BY <1>6 DEF ReadSlot, Moved, GoTo, ring
    <2>2. /\ Contents # <<>> /\ list[front] = Head(Contents) /\ list[front] \in Values
          /\ Contents' = Tail(Contents)
      BY <1>6, ReadTakes
    <2>3. /\ Taken[c] = None /\ Taken' = [Taken EXCEPT ![c] = list[front]]
          /\ Offered' = Offered
      BY <1>1, <1>6, <2>1 DEF ReadSlot, Moved, Offered, Taken, QueueTypeOK, Callers
    <2>4. Contents' \in Seq(Values)
      BY <1>2, <2>2, HeadTailProperties
    <2>5. ValuesOnly'
      <3>1. \A k \in 1 .. Count' : Contents'[k] \in Values
        <4>1. Count' \in Nat /\ DOMAIN Contents' = 1 .. Count'
          BY ContentsAreLaidOut DEF LaidOut
        <4>2. Count' = Len(Contents')
          BY <2>4, <4>1, LenProperties
        <4>3. QED
          BY <2>4, <4>2, ElementOfSeq
      <3>2. QED
        BY <1>1, <1>6, <2>1, <2>2, <3>1
        DEF ReadSlot, Moved, ValuesOnly, QueueTypeOK, Callers, HasElem, HasTaken
    <2>6. AbstractQueue!Take(c)
      BY <2>1, <2>2, <2>3 DEF AbstractQueue!Take, AbstractQueue!CanTake
    <2>7. QED
      BY <2>5, <2>6 DEF Refines, AbstractQueue!Next
  <1>7. CASE AdvanceFront(c)
    <2>1. Moved(c, "advance_front", "unlock_front")
      BY <1>7 DEF AdvanceFront, Moved, GoTo
    <2>2. /\ Cardinality(Written)' = Cardinality(Written)
          /\ Cardinality(Popping)' = Cardinality(Popping)
          /\ Cardinality(Read)' = Cardinality(Read)
          /\ Cardinality(Written) \in Nat /\ Cardinality(Popping) \in Nat
          /\ Cardinality(Read) \in Nat /\ elem_available_sem \in Nat
      BY <1>1, <2>1, CountChanges DEF Change, PopPlaces
    <2>3. Count' = Count
      BY <1>7, <2>2 DEF AdvanceFront, sems, Count
    <2>4. Users({"advance_front"}) # {} /\ Users({"advance_front"})' = {}
      BY <1>1, <2>1, OneAtTheFront DEF Users, Moved, InFront
    <2>5. Start' = Start
      BY <1>7, <2>4 DEF AdvanceFront, Start
    <2>6. Contents' = Contents /\ size' = size
      BY <1>7, <2>3, <2>5, ContentsStay DEF AdvanceFront
    <2>7. Offered' = Offered /\ Taken' = Taken /\ ValuesOnly'
      BY <1>1, <1>7, <2>1, <2>3, <2>6
      DEF AdvanceFront, Moved, Offered, Taken, ValuesOnly, QueueTypeOK, Callers, HasElem, HasTaken
    <2>8. QED
      BY <2>6, <2>7 DEF Refines, AbstractQueue!vars
  <1>8. CASE UnlockFront(c)
    <2>1. Moved(c, "unlock_front", "post_slot")
      BY <1>8 DEF UnlockFront, Moved, GoTo
    <2>2. /\ Cardinality(Written)' = Cardinality(Written)
          /\ Cardinality(Popping)' = Cardinality(Popping)
          /\ Cardinality(Read)' = Cardinality(Read)
          /\ Users({"advance_front"})' = Users({"advance_front"})
          /\ Cardinality(Written) \in Nat /\ Cardinality(Popping) \in Nat
          /\ Cardinality(Read) \in Nat /\ elem_available_sem \in Nat
      BY <1>1, <2>1, CountChanges DEF Change, PopPlaces
    <2>3. Count' = Count /\ Start' = Start
      BY <1>8, <2>2 DEF UnlockFront, ring, sems, Count, Start
    <2>4. Contents' = Contents /\ size' = size
      BY <1>8, <2>3, ContentsStay DEF UnlockFront, ring
    <2>5. Offered' = Offered /\ Taken' = Taken /\ ValuesOnly'
      BY <1>1, <1>8, <2>1, <2>3, <2>4
      DEF UnlockFront, Moved, Offered, Taken, ValuesOnly, QueueTypeOK, Callers, HasElem, HasTaken
    <2>6. QED
      BY <2>4, <2>5 DEF Refines, AbstractQueue!vars
  <1>9. CASE PostSlot(c)
    <2>1. Moved(c, "post_slot", "idle")
      BY <1>9 DEF PostSlot, Moved, GoTo
    <2>2. /\ Cardinality(Written)' = Cardinality(Written)
          /\ Cardinality(Popping)' = Cardinality(Popping) - 1
          /\ Cardinality(Read)' = Cardinality(Read) - 1
          /\ Users({"advance_front"})' = Users({"advance_front"})
          /\ Cardinality(Written) \in Nat /\ Cardinality(Popping) \in Nat
          /\ Cardinality(Read) \in Nat /\ elem_available_sem \in Nat
      BY <1>1, <2>1, CountChanges DEF Change, PopPlaces
    <2>3. Count' = Count /\ Start' = Start
      BY <1>9, <2>2 DEF PostSlot, ring, sems, Count, Start
    <2>4. Contents' = Contents /\ size' = size
      BY <1>9, <2>3, ContentsStay DEF PostSlot, ring
    <2>5. /\ Taken[c] = elem[c] /\ Taken' = [Taken EXCEPT ![c] = None]
          /\ Offered' = Offered /\ ValuesOnly'
      BY <1>1, <1>9, <2>1, <2>3, <2>4
      DEF PostSlot, Moved, Offered, Taken, ValuesOnly, QueueTypeOK, Callers, HasElem, HasTaken
    <2>6. elem[c] # None
      BY <2>1, QueueAssumption DEF ValuesOnly, Moved, HasTaken
    <2>7. AbstractQueue!Return(c)
      BY <2>4, <2>5, <2>6 DEF AbstractQueue!Return
    <2>8. QED
      BY <2>5, <2>7 DEF Refines, AbstractQueue!Next
  <1>10. QED
    BY <1>3, <1>4, <1>5, <1>6, <1>7, <1>8, <1>9 DEF PopStep

LEMMA InitRefines == QueueInit => ValuesOnly /\ AbstractQueue!Init
  <1> SUFFICES ASSUME QueueInit
               PROVE  ValuesOnly /\ AbstractQueue!Init
    OBVIOUS
  <1>1. ASSUME NEW S, "idle" \notin S
        PROVE  Cardinality(Users(S)) = 0
    <2>1. Users(S) = {}
      BY <1>1 DEF QueueInit, Users
    <2>2. QED
      BY <2>1, FS_EmptySet
  <1>2. Count = 0
    <2>1. Cardinality(Written) = 0 /\ Cardinality(Popping) = 0 /\ Cardinality(Read) = 0
      BY <1>1 DEF Written, Popping, Read, PopPlaces
    <2>2. QED
      BY <2>1 DEF QueueInit, queue_new, Count
  <1>3. Contents = <<>>
    BY <1>2 DEF Contents
  <1>4. ValuesOnly
    BY <1>2, QueueAssumption DEF QueueInit, ValuesOnly, HasElem, HasTaken, Callers
  <1>5. AbstractQueue!Init
    BY <1>3, QueueAssumption DEF QueueInit, queue_new, AbstractQueue!Init, Offered, Taken, Callers
  <1>6. QED
    BY <1>4, <1>5

(***************************************************************************)
(* queue.c implements Fifo: "FIFO ordering" and "No lost or duplicated     *)
(* data" for all finite sets of producers and consumers and every size.    *)
(***************************************************************************)
THEOREM QueueIsFifo == QueueSpec => ImplementsFifo
  <1>1. ValuesOnly /\ IInv /\ IInv' /\ [QueueNext]_queueVars => Refines
    <2> SUFFICES ASSUME ValuesOnly, IInv, IInv', [QueueNext]_queueVars
                 PROVE  Refines
      OBVIOUS
    <2>1. CASE UNCHANGED queueVars
      <3>1. Contents' = Contents /\ Offered' = Offered /\ Taken' = Taken /\ ValuesOnly'
        BY <2>1
        DEF queueVars, ring, sems, Contents, Count, Start, Written, Popping, Read, Users, Offered,
            Taken, ValuesOnly
      <3>2. QED
        BY <2>1, <3>1 DEF queueVars, ring, Refines, AbstractQueue!vars
    <2>2. CASE QueueNext
      BY <2>2, PushRefines, PopRefines DEF QueueNext
    <2>3. QED
      BY <2>1, <2>2
  <1>2. QED
    BY <1>1, InitRefines, InvHolds, PTL DEF QueueSpec, ImplementsFifo, AbstractQueue!Spec, Refines
=============================================================================

---------------------------- MODULE RWLockProofs ----------------------------
(***************************************************************************)
(* Proofs about the lock of rwlock.c, for any finite set of threads, any   *)
(* width of int that can count them, any policy and any argument n.        *)
(***************************************************************************)
EXTENDS RWLockBypass, FiniteSetTheorems, TLAPS

(***************************************************************************)
(* How many threads are at each place of the code when one of them moves.  *)
(***************************************************************************)
Moved(t, p, q) == pc[t] = p /\ p # q /\ pc' = [pc EXCEPT ![t] = q]

LEMMA AtIsFinite ==
  ASSUME NEW p
  PROVE  IsFiniteSet(At(p)) /\ Cardinality(At(p)) \in Nat
  <1>1. IsFiniteSet(At(p))
    <2>1. At(p) \subseteq Threads
      BY DEF At
    <2>2. QED
      BY <2>1, RWLockAssumption, FS_Subset
  <1>2. QED
    BY <1>1, FS_CardinalityType

LEMMA Moves ==
  ASSUME pc \in [Threads -> Places],
         NEW t \in Threads, NEW p, NEW q, Moved(t, p, q)
  PROVE  /\ Cardinality(At(p)) > 0
         /\ \A r : Cardinality(At(r)') =
              IF r = p THEN Cardinality(At(p)) - 1
              ELSE IF r = q THEN Cardinality(At(q)) + 1 ELSE Cardinality(At(r))
  <1>1. At(p)' = At(p) \ {t} /\ t \in At(p)
    BY DEF At, Moved
  <1>2. At(q)' = At(q) \cup {t} /\ t \notin At(q)
    BY DEF At, Moved
  <1>3. IsFiniteSet(At(p)) /\ IsFiniteSet(At(q))
    BY AtIsFinite
  <1>4. Cardinality(At(p)') = Cardinality(At(p)) - 1
    BY <1>1, <1>3, FS_RemoveElement
  <1>5. Cardinality(At(q)') = Cardinality(At(q)) + 1
    BY <1>2, <1>3, FS_AddElement
  <1>6. Cardinality(At(p)) > 0
    BY <1>1, <1>3, FS_EmptySet, AtIsFinite
  <1>7. ASSUME NEW r, r # p, r # q
        PROVE  At(r)' = At(r)
    BY <1>7 DEF At, Moved
  <1>8. ASSUME NEW r
        PROVE  Cardinality(At(r)') =
                 IF r = p THEN Cardinality(At(p)) - 1
                 ELSE IF r = q THEN Cardinality(At(q)) + 1 ELSE Cardinality(At(r))
    <2>1. CASE r = p
      BY <2>1, <1>4
    <2>2. CASE r = q /\ r # p
      BY <2>2, <1>5
    <2>3. CASE r # p /\ r # q
      BY <2>3, <1>7
    <2>4. QED
      BY <2>1, <2>2, <2>3
  <1>9. QED
    BY <1>6, <1>8

(***************************************************************************)
(* The counters count: TypeOK needs Counting, because a counter that is    *)
(* decremented stays a natural number only if it counted the thread.       *)
(***************************************************************************)
LEMMA InitCounts == Init => TypeOK /\ Counting
  <1> SUFFICES ASSUME Init
               PROVE  TypeOK /\ Counting
    OBVIOUS
  <1>1. PICK p \in Priorities, n \in Arguments : rwlock_new(p, n)
    BY DEF Init
  <1>2. ToInt(n) \in -HalfWord .. (HalfWord - 1)
    BY RWLockAssumption DEF ToInt
  <1>3. TypeOK
    BY <1>1, <1>2, RWLockAssumption DEF Init, rwlock_new, TypeOK, Places
  <1>4. ASSUME NEW place, place # "idle"
        PROVE  At(place) = {}
    BY <1>4 DEF Init, At
  <1>5. Counting
    BY <1>1, <1>4, FS_EmptySet DEF rwlock_new, Counting
  <1>6. QED
    BY <1>3, <1>5

LEMMA NextCounts == TypeOK /\ Counting /\ [Next]_vars => TypeOK' /\ Counting'
  <1> SUFFICES ASSUME TypeOK, Counting, [Next]_vars
               PROVE  TypeOK' /\ Counting'
    OBVIOUS
  <1>1. ASSUME NEW t \in Threads, reader_lock(t)
        PROVE  TypeOK' /\ Counting'
    <2>1. CASE ReaderSleeps(t, waiting_readers + 1)
      <3>1. Moved(t, "idle", "reader_waiting")
        BY <1>1, <2>1 DEF reader_lock, ReaderSleeps, Moved
      <3>2. Counting'
        BY <1>1, <2>1, <3>1, Moves
        DEF reader_lock, ReaderLoop, ReaderSleeps, TypeOK, Counting
      <3>3. TypeOK'
        BY <1>1, <2>1, <3>1
        DEF reader_lock, ReaderLoop, ReaderSleeps, TypeOK, Moved, Places, policy, At
      <3>4. QED
        BY <3>2, <3>3
    <2>2. CASE ReaderEnters(t, waiting_readers + 1)
      <3>1. Moved(t, "idle", "reading")
        BY <1>1, <2>2 DEF reader_lock, ReaderEnters, Moved
      <3>2. Counting'
        BY <1>1, <2>2, <3>1, Moves
        DEF reader_lock, ReaderLoop, ReaderEnters, TypeOK, Counting
      <3>3. TypeOK'
        BY <1>1, <2>2, <3>1
        DEF reader_lock, ReaderLoop, ReaderEnters, TypeOK, Moved, Places, policy, At
      <3>4. QED
        BY <3>2, <3>3
    <2>3. QED
      BY <1>1, <2>1, <2>2 DEF reader_lock, ReaderLoop
  <1>2. ASSUME NEW t \in Threads, ReaderWoken(t)
        PROVE  TypeOK' /\ Counting'
    <2>1. CASE ReaderSleeps(t, waiting_readers)
      <3>1. pc[t] = "reader_waiting" /\ pc' = pc
        BY <1>2, <2>1 DEF ReaderWoken, ReaderSleeps, TypeOK
      <3>2. QED
        BY <1>2, <2>1, <3>1
        DEF ReaderWoken, ReaderLoop, ReaderSleeps, TypeOK, Counting, Places, policy, At
    <2>2. CASE ReaderEnters(t, waiting_readers)
      <3>1. Moved(t, "reader_waiting", "reading")
        BY <1>2, <2>2 DEF ReaderWoken, ReaderEnters, Moved
      <3>2. Counting'
        BY <1>2, <2>2, <3>1, Moves
        DEF ReaderWoken, ReaderLoop, ReaderEnters, TypeOK, Counting
      <3>3. waiting_readers > 0
        BY <1>2, <3>1, Moves DEF TypeOK, Counting
      <3>4. TypeOK'
        BY <1>2, <2>2, <3>1, <3>3
        DEF ReaderWoken, ReaderLoop, ReaderEnters, TypeOK, Moved, Places, policy, At
      <3>5. QED
        BY <3>2, <3>4
    <2>3. QED
      BY <1>2, <2>1, <2>2 DEF ReaderWoken, ReaderLoop
  <1>3. ASSUME NEW t \in Threads, reader_unlock(t)
        PROVE  TypeOK' /\ Counting'
    <2>1. Moved(t, "reading", "idle")
      BY <1>3 DEF reader_unlock, Moved
    <2>2. Counting'
      BY <1>3, <2>1, Moves DEF reader_unlock, TypeOK, Counting
    <2>3. active_readers > 0
      BY <1>3, <2>1, Moves DEF TypeOK, Counting
    <2>4. TypeOK'
      BY <1>3, <2>1, <2>3
      DEF reader_unlock, TypeOK, Broadcast, Moved, Places, policy, At
    <2>5. QED
      BY <2>2, <2>4
  <1>4. ASSUME NEW t \in Threads, writer_lock(t)
        PROVE  TypeOK' /\ Counting'
    <2>1. CASE WriterSleeps(t, waiting_writers + 1)
      <3>1. Moved(t, "idle", "writer_waiting")
        BY <1>4, <2>1 DEF writer_lock, WriterSleeps, Moved
      <3>2. Counting'
        BY <1>4, <2>1, <3>1, Moves
        DEF writer_lock, WriterLoop, WriterSleeps, TypeOK, Counting
      <3>3. TypeOK'
        BY <1>4, <2>1, <3>1
        DEF writer_lock, WriterLoop, WriterSleeps, TypeOK, Moved, Places, policy, At
      <3>4. QED
        BY <3>2, <3>3
    <2>2. CASE WriterEnters(t, waiting_writers + 1)
      <3>1. Moved(t, "idle", "writing")
        BY <1>4, <2>2 DEF writer_lock, WriterEnters, Moved
      <3>2. Counting'
        BY <1>4, <2>2, <3>1, Moves
        DEF writer_lock, WriterLoop, WriterEnters, TypeOK, Counting
      <3>3. TypeOK'
        BY <1>4, <2>2, <3>1
        DEF writer_lock, WriterLoop, WriterEnters, TypeOK, Moved, Places, policy, At
      <3>4. QED
        BY <3>2, <3>3
    <2>3. QED
      BY <1>4, <2>1, <2>2 DEF writer_lock, WriterLoop
  <1>5. ASSUME NEW t \in Threads, WriterWoken(t)
        PROVE  TypeOK' /\ Counting'
    <2>1. CASE WriterSleeps(t, waiting_writers)
      <3>1. pc[t] = "writer_waiting" /\ pc' = pc
        BY <1>5, <2>1 DEF WriterWoken, WriterSleeps, TypeOK
      <3>2. QED
        BY <1>5, <2>1, <3>1
        DEF WriterWoken, WriterLoop, WriterSleeps, TypeOK, Counting, Places, policy, At
    <2>2. CASE WriterEnters(t, waiting_writers)
      <3>1. Moved(t, "writer_waiting", "writing")
        BY <1>5, <2>2 DEF WriterWoken, WriterEnters, Moved
      <3>2. Counting'
        BY <1>5, <2>2, <3>1, Moves
        DEF WriterWoken, WriterLoop, WriterEnters, TypeOK, Counting
      <3>3. waiting_writers > 0
        BY <1>5, <3>1, Moves DEF TypeOK, Counting
      <3>4. TypeOK'
        BY <1>5, <2>2, <3>1, <3>3
        DEF WriterWoken, WriterLoop, WriterEnters, TypeOK, Moved, Places, policy, At
      <3>5. QED
        BY <3>2, <3>4
    <2>3. QED
      BY <1>5, <2>1, <2>2 DEF WriterWoken, WriterLoop
  <1>6. ASSUME NEW t \in Threads, writer_unlock(t)
        PROVE  TypeOK' /\ Counting'
    <2>1. Moved(t, "writing", "idle")
      BY <1>6 DEF writer_unlock, Moved
    <2>2. Counting'
      BY <1>6, <2>1, Moves DEF writer_unlock, TypeOK, Counting
    <2>3. active_writers > 0
      BY <1>6, <2>1, Moves DEF TypeOK, Counting
    <2>4. TypeOK'
      BY <1>6, <2>1, <2>3
      DEF writer_unlock, TypeOK, Broadcast, Moved, Places, policy, At
    <2>5. QED
      BY <2>2, <2>4
  <1>7. ASSUME NEW t \in Threads, SpuriousWakeup(t)
        PROVE  TypeOK' /\ Counting'
    BY <1>7 DEF SpuriousWakeup, TypeOK, Counting, policy, At
  <1>8. CASE UNCHANGED vars
    BY <1>8 DEF vars, policy, TypeOK, Counting, At
  <1>9. QED
    BY <1>1, <1>2, <1>3, <1>4, <1>5, <1>6, <1>7, <1>8 DEF Next, Step

(***************************************************************************)
(* Every field keeps its type, and the four counters of struct rwlock are  *)
(* the numbers of threads that read, write and wait.                       *)
(***************************************************************************)
THEOREM CountersAreRight == Spec => [](TypeOK /\ Counting)
  BY InitCounts, NextCounts, PTL DEF Spec

(***************************************************************************)
(* The fields of the lock stay within their types, whatever the number of  *)
(* threads and the order of their calls.                                   *)
(***************************************************************************)
THEOREM TypeCorrect == Spec => []TypeOK
  BY CountersAreRight, PTL

(***************************************************************************)
(* The lock's own view of exclusion, in its counters.                      *)
(***************************************************************************)
Held == active_writers > 0 => active_writers = 1 /\ active_readers = 0

LEMMA NextHeld == TypeOK /\ TypeOK' /\ Held /\ [Next]_vars => Held'
  <1> SUFFICES ASSUME TypeOK, TypeOK', Held, [Next]_vars
               PROVE  Held'
    OBVIOUS
  <1> USE DEF TypeOK, Held
  <1>1. ASSUME NEW t \in Threads, reader_lock(t) \/ ReaderWoken(t)
        PROVE  Held'
    BY <1>1 DEF reader_lock, ReaderWoken, ReaderLoop, ReaderSleeps, ReaderEnters,
                ReaderMustWait
  <1>2. ASSUME NEW t \in Threads, writer_lock(t) \/ WriterWoken(t)
        PROVE  Held'
    BY <1>2 DEF writer_lock, WriterWoken, WriterLoop, WriterSleeps, WriterEnters,
                WriterMustWait
  <1>3. ASSUME NEW t \in Threads, reader_unlock(t) \/ writer_unlock(t)
        PROVE  Held'
    <2>1. active_writers' <= active_writers /\ active_readers' <= active_readers
      BY <1>3 DEF reader_unlock, writer_unlock
    <2>2. QED
      BY <2>1
  <1>4. CASE UNCHANGED vars \/ \E t \in Threads : SpuriousWakeup(t)
    BY <1>4 DEF vars, SpuriousWakeup
  <1>5. QED
    BY <1>1, <1>2, <1>3, <1>4 DEF Next, Step

LEMMA HolderIsCounted ==
  ASSUME TypeOK, Counting, NEW t \in Threads
  PROVE  /\ pc[t] = "reading" => active_readers > 0
         /\ pc[t] = "writing" => active_writers > 0
         /\ pc[t] = "reader_waiting" => waiting_readers > 0
         /\ pc[t] = "writer_waiting" => waiting_writers > 0
  <1>1. ASSUME NEW p, pc[t] = p
        PROVE  Cardinality(At(p)) > 0
    <2>1. t \in At(p)
      BY <1>1 DEF At
    <2>2. QED
      BY <2>1, AtIsFinite, FS_EmptySet
  <1>2. QED
    BY <1>1 DEF Counting

LEMMA HeldExcludes == TypeOK /\ Counting /\ Held => Exclusion
  <1> SUFFICES ASSUME TypeOK, Counting, Held,
                      NEW t \in Threads, NEW u \in Threads,
                      pc[t] = "writing", u # t
               PROVE  pc[u] \notin {"reading", "writing"}
    BY DEF Exclusion
  <1>1. Cardinality(At("writing")) = 1 /\ active_readers = 0
    BY HolderIsCounted DEF Held, Counting
  <1>2. pc[u] # "reading"
    BY <1>1, HolderIsCounted
  <1>3. pc[u] # "writing"
    <2>1. t \in At("writing") /\ IsFiniteSet(At("writing"))
      BY AtIsFinite DEF At
    <2>2. /\ IsFiniteSet(At("writing") \ {t})
          /\ Cardinality(At("writing") \ {t}) = 0
      BY <1>1, <2>1, FS_RemoveElement
    <2>3. At("writing") \ {t} = {}
      BY <2>2, FS_EmptySet
    <2>4. QED
      BY <2>3 DEF At
  <1>4. QED
    BY <1>2, <1>3

(***************************************************************************)
(* A thread between writer_lock and writer_unlock is alone: no other holds *)
(* the lock, under any policy.                                             *)
(***************************************************************************)
THEOREM MutualExclusion == Spec => []Exclusion
  <1>1. Init => Held
    BY DEF Init, rwlock_new, Held
  <1>2. Spec => []Held
    BY <1>1, NextHeld, TypeCorrect, PTL DEF Spec
  <1>3. QED
    BY <1>2, CountersAreRight, HeldExcludes, PTL

(***************************************************************************)
(* No lost wakeup.                                                         *)
(***************************************************************************)
LEMMA NextWakes ==
  TypeOK /\ Counting /\ NoLostWakeup /\ [Next]_vars => NoLostWakeup'
  <1> SUFFICES ASSUME TypeOK, Counting, NoLostWakeup, [Next]_vars,
                      NEW s \in condition'
               PROVE  (IF pc[s] = "reader_waiting"
                       THEN ReaderMustWait ELSE WriterMustWait)'
    BY DEF NoLostWakeup
  <1> DEFINE Justified == (IF pc[s] = "reader_waiting"
                           THEN ReaderMustWait ELSE WriterMustWait)'
  <1>0. condition \subseteq Threads
    BY DEF TypeOK, At
  <1>1. ASSUME NEW t \in Threads, reader_lock(t) \/ ReaderWoken(t)
        PROVE  Justified
    <2>1. PICK waiting \in {waiting_readers, waiting_readers + 1} : ReaderLoop(t, waiting)
      BY <1>1 DEF reader_lock, ReaderWoken
    <2>2. pc[t] \in {"idle", "reader_waiting"} /\ t \notin condition
      BY <1>1 DEF reader_lock, ReaderWoken, TypeOK, At
    <2>3. CASE ReaderSleeps(t, waiting)
      <3>1. s = t \/ (s \in condition /\ pc'[s] = pc[s])
        BY <1>0, <2>2, <2>3 DEF ReaderSleeps, TypeOK
      <3>2. ReaderMustWait'
        BY <2>1, <2>3 DEF ReaderLoop, ReaderSleeps, ReaderMustWait, policy
      <3>3. WriterMustWait => WriterMustWait'
        BY <2>1, <2>3 DEF ReaderLoop, ReaderSleeps, WriterMustWait, policy, TypeOK
      <3>4. pc'[t] = "reader_waiting"
        BY <1>1, <2>3 DEF ReaderSleeps, TypeOK
      <3>5. QED
        BY <3>1, <3>2, <3>3, <3>4 DEF NoLostWakeup
    <2>4. CASE ReaderEnters(t, waiting)
      <3>1. s \in condition /\ pc'[s] = pc[s]
        BY <1>0, <2>2, <2>4 DEF ReaderEnters, TypeOK
      <3>2. pc[s] # "reader_waiting"
        BY <2>4, <3>1 DEF ReaderEnters, NoLostWakeup
      <3>3. WriterMustWait'
        BY <2>4 DEF ReaderEnters, WriterMustWait, TypeOK
      <3>4. QED
        BY <3>1, <3>2, <3>3
    <2>5. QED
      BY <2>1, <2>3, <2>4 DEF ReaderLoop
  <1>2. ASSUME NEW t \in Threads, writer_lock(t) \/ WriterWoken(t)
        PROVE  Justified
    <2>1. PICK waiting \in {waiting_writers, waiting_writers + 1} : WriterLoop(t, waiting)
      BY <1>2 DEF writer_lock, WriterWoken
    <2>2. pc[t] \in {"idle", "writer_waiting"} /\ t \notin condition
      BY <1>2 DEF writer_lock, WriterWoken, TypeOK, At
    <2>3. CASE WriterSleeps(t, waiting)
      <3>1. s = t \/ (s \in condition /\ pc'[s] = pc[s])
        BY <1>0, <2>2, <2>3 DEF WriterSleeps, TypeOK
      <3>2. WriterMustWait'
        BY <2>1, <2>3 DEF WriterLoop, WriterSleeps, WriterMustWait, policy
      <3>3. ReaderMustWait => ReaderMustWait'
        BY <2>1, <2>3 DEF WriterLoop, WriterSleeps, ReaderMustWait, policy, TypeOK
      <3>4. pc'[t] = "writer_waiting"
        BY <1>2, <2>3 DEF WriterSleeps, TypeOK
      <3>5. QED
        BY <3>1, <3>2, <3>3, <3>4 DEF NoLostWakeup
    <2>4. CASE WriterEnters(t, waiting)
      BY <2>4 DEF WriterEnters, ReaderMustWait, WriterMustWait, TypeOK
    <2>5. QED
      BY <2>1, <2>3, <2>4 DEF WriterLoop
  <1>3. ASSUME NEW t \in Threads, reader_unlock(t) \/ writer_unlock(t)
        PROVE  Justified
    <2>1. condition' = {}
      <3>1. CASE waiting_readers > 0 \/ waiting_writers > 0
        BY <1>3, <3>1 DEF reader_unlock, writer_unlock, Broadcast
      <3>2. CASE ~(waiting_readers > 0 \/ waiting_writers > 0)
        <4>1. condition = {}
          BY <1>0, <3>2, HolderIsCounted DEF TypeOK, At
        <4>2. QED
          BY <1>3, <3>2, <4>1 DEF reader_unlock, writer_unlock, Broadcast
      <3>3. QED
        BY <3>1, <3>2
    <2>2. QED
      BY <2>1
  <1>4. CASE UNCHANGED vars \/ \E t \in Threads : SpuriousWakeup(t)
    <2>1. s \in condition /\ UNCHANGED <<policy, active_readers, active_writers,
            waiting_readers, waiting_writers, readers_since_last_write, pc>>
      BY <1>4 DEF vars, policy, SpuriousWakeup
    <2>2. QED
      BY <2>1 DEF NoLostWakeup, ReaderMustWait, WriterMustWait, policy
  <1>5. QED
    BY <1>1, <1>2, <1>3, <1>4 DEF Next, Step

(***************************************************************************)
(* A thread asleep on the condition variable is one that has to wait: the  *)
(* step that makes its while condition false also wakes it, although the   *)
(* broadcast is left out when the waiting counters are zero.               *)
(***************************************************************************)
THEOREM WakeupsAreNotLost == Spec => []NoLostWakeup
  <1>1. Init => NoLostWakeup
    BY DEF Init, rwlock_new, NoLostWakeup
  <1>2. QED
    BY <1>1, NextWakes, CountersAreRight, PTL DEF Spec

(***************************************************************************)
(* The two while conditions cannot hold each other up: while a thread      *)
(* waits, a thread holds the lock or is awake and free to take it.         *)
(***************************************************************************)
THEOREM SomeoneCanGoOn == Spec => []NoStandstill
  <1>1. TypeOK /\ Counting /\ NoLostWakeup => NoStandstill
    <2> SUFFICES ASSUME TypeOK, Counting, NoLostWakeup,
                        NEW t \in Threads,
                        pc[t] \in {"reader_waiting", "writer_waiting"},
                        \A u \in Threads : ~CanGoOn(u)
                 PROVE  FALSE
      BY DEF NoStandstill
    <2>1. At("reading") = {} /\ At("writing") = {}
      BY DEF CanGoOn, At
    <2>2. active_readers = 0 /\ active_writers = 0
      BY <2>1, FS_EmptySet DEF Counting
    <2>3. ASSUME NEW u \in Threads, pc[u] = "reader_waiting"
          PROVE  ReaderMustWait
      BY <2>3 DEF CanGoOn, NoLostWakeup
    <2>4. ASSUME NEW u \in Threads, pc[u] = "writer_waiting"
          PROVE  WriterMustWait
      BY <2>4 DEF CanGoOn, NoLostWakeup
    <2>5. waiting_readers > 0 => ReaderMustWait
      <3>1. At("reader_waiting") = {} => waiting_readers = 0
        BY FS_EmptySet DEF Counting
      <3>2. QED
        BY <2>3, <3>1 DEF At
    <2>6. waiting_writers > 0 => WriterMustWait
      <3>1. At("writer_waiting") = {} => waiting_writers = 0
        BY FS_EmptySet DEF Counting
      <3>2. QED
        BY <2>4, <3>1 DEF At
    <2>7. waiting_readers > 0 \/ waiting_writers > 0
      BY HolderIsCounted
    <2>8. QED
      BY <2>2, <2>5, <2>6, <2>7 DEF ReaderMustWait, WriterMustWait, TypeOK
  <1>2. QED
    BY <1>1, CountersAreRight, WakeupsAreNotLost, PTL

-----------------------------------------------------------------------------
(* The reader quota.  A reader is charged only after it has seen that the  *)
(* quota is not used up, and only a writer's turn that ends renews it.     *)
LEMMA InitQuota == Init => Quota
  <1> SUFFICES ASSUME Init
               PROVE  Quota
    OBVIOUS
  <1>1. /\ readers_since_last_write = 0
        /\ N \in Int
    BY InitCounts DEF Init, rwlock_new, TypeOK
  <1>2. QED
    BY <1>1 DEF Quota

LEMMA NextQuota == TypeOK /\ Counting /\ Quota /\ [Next]_vars => Quota'
  <1> SUFFICES ASSUME TypeOK, Counting, Quota, [Next]_vars
               PROVE  Quota'
    OBVIOUS
  <1>1. ASSUME NEW t \in Threads, reader_lock(t) \/ ReaderWoken(t)
        PROVE  Quota'
    <2>1. PICK waiting \in {waiting_readers, waiting_readers + 1} : ReaderLoop(t, waiting)
      BY <1>1 DEF reader_lock, ReaderWoken
    <2>2. UNCHANGED <<priority, N, active_writers, waiting_writers>>
      BY <2>1 DEF ReaderLoop, policy
    <2>3. CASE ReaderSleeps(t, waiting)
      BY <2>2, <2>3 DEF ReaderSleeps, Quota
    <2>4. CASE ReaderEnters(t, waiting)
      <3>1. CASE priority = "N_WAY" /\ waiting_writers > 0
        <4>1. readers_since_last_write < N
          BY <2>4, <3>1 DEF ReaderEnters, ReaderMustWait, TypeOK
        <4>2. readers_since_last_write' = readers_since_last_write + 1
          BY <2>4, <3>1 DEF ReaderEnters
        <4>3. QED
          BY <2>2, <3>1, <4>1, <4>2 DEF Quota, TypeOK
      <3>2. CASE ~(priority = "N_WAY" /\ waiting_writers > 0)
        BY <2>2, <2>4, <3>2 DEF ReaderEnters, Quota
      <3>3. QED
        BY <3>1, <3>2
    <2>5. QED
      BY <2>1, <2>3, <2>4 DEF ReaderLoop
  <1>2. ASSUME NEW t \in Threads, writer_lock(t) \/ WriterWoken(t)
        PROVE  Quota'
    <2>1. PICK waiting \in {waiting_writers, waiting_writers + 1} :
            WriterLoop(t, waiting) /\ waiting > 0
      BY <1>2, HolderIsCounted DEF writer_lock, WriterWoken, TypeOK
    <2>2. UNCHANGED <<priority, N, readers_since_last_write>>
      BY <2>1 DEF WriterLoop, policy
    <2>3. waiting_writers' > 0 \/ active_writers' > 0
      BY <2>1 DEF WriterLoop, WriterSleeps, WriterEnters, TypeOK
    <2>4. ~(waiting_writers' = 0 /\ active_writers' = 0)
      BY <2>3
    <2>5. QED
      BY <2>2, <2>4 DEF Quota
  <1>3. ASSUME NEW t \in Threads, writer_unlock(t)
        PROVE  Quota'
    <2>1. UNCHANGED <<priority, N>>
      BY <1>3 DEF writer_unlock, policy
    <2>2. readers_since_last_write' = 0
      BY <1>3 DEF writer_unlock, Quota, TypeOK
    <2>3. QED
      BY <2>1, <2>2 DEF Quota, TypeOK
  <1>4. ASSUME NEW t \in Threads, reader_unlock(t) \/ SpuriousWakeup(t)
        PROVE  Quota'
    BY <1>4 DEF reader_unlock, SpuriousWakeup, policy, Quota
  <1>5. CASE UNCHANGED vars
    BY <1>5 DEF vars, policy, Quota
  <1>6. QED
    BY <1>1, <1>2, <1>3, <1>4, <1>5 DEF Next, Step

(***************************************************************************)
(* At most N readers are charged to a writer's wait, and a writer that     *)
(* comes when no writer waits or writes finds the quota fresh.             *)
(***************************************************************************)
THEOREM QuotaIsKept == Spec => []Quota
  BY InitQuota, NextQuota, CountersAreRight, PTL DEF Spec

(***************************************************************************)
(* No field of struct rwlock overflows its int, whatever the number of     *)
(* calls, as long as an int can count the threads.                         *)
(***************************************************************************)
THEOREM CountersStayInRange == Spec => []NoOverflow
  <1>1. TypeOK /\ Counting /\ Quota => NoOverflow
    <2> SUFFICES ASSUME TypeOK, Counting, Quota
                 PROVE  NoOverflow
      OBVIOUS
    <2>1. HalfWord > 0 /\ HalfWord \in Nat
      BY RWLockAssumption, FS_CardinalityType
    <2>2. ASSUME NEW p
          PROVE  Cardinality(At(p)) < HalfWord
      <3>1. Cardinality(At(p)) <= Cardinality(Threads)
        BY RWLockAssumption, FS_Subset DEF At
      <3>2. QED
        BY <3>1, RWLockAssumption, AtIsFinite, FS_CardinalityType
    <2>3. readers_since_last_write < HalfWord
      BY <2>1 DEF Quota, TypeOK
    <2>4. QED
      BY <2>2, <2>3 DEF Counting, NoOverflow
  <1>2. QED
    BY <1>1, CountersAreRight, QuotaIsKept, PTL

-----------------------------------------------------------------------------
(***************************************************************************)
(* The lock implements the abstract reader-writer lock.  A thread is a     *)
(* holder of the abstract lock while it is between its lock and its unlock *)
(* call, so the calls that let a thread in or out are the abstract steps   *)
(* and all the others are stutters.                                        *)
(***************************************************************************)
readers == At("reading")
writers == At("writing")

(* What a thread that moves does to the abstract lock.                     *)
LEMMA HoldersMove ==
  ASSUME pc \in [Threads -> Places],
         NEW t \in Threads, NEW p, NEW q, Moved(t, p, q)
  PROVE  \A r : At(r)' = IF r = p THEN At(r) \ {t}
                         ELSE IF r = q THEN At(r) \cup {t} ELSE At(r)
  BY DEF At, Moved

LEMMA HoldersStay ==
  ASSUME pc' = pc
  PROVE  readers' = readers /\ writers' = writers
  BY DEF readers, writers, At

(* A thread that is let in to read finds no writer, one that is let in to  *)
(* write finds the lock free.                                              *)
LEMMA NobodyActive ==
  ASSUME TypeOK, Counting
  PROVE  /\ ~(active_readers > 0) => readers = {}
         /\ ~(active_writers > 0) => writers = {}
  BY AtIsFinite, FS_EmptySet DEF TypeOK, Counting, readers, writers

LEMMA ReaderLoopRefines ==
  ASSUME TypeOK, Counting, NEW t \in Threads, NEW waiting,
         pc[t] \in {"idle", "reader_waiting"}, ReaderLoop(t, waiting)
  PROVE  Abstract!BeginRead(t) \/ UNCHANGED Abstract!vars
  <1>1. CASE ReaderSleeps(t, waiting)
    <2>1. Moved(t, "idle", "reader_waiting") \/ pc' = pc
      BY <1>1 DEF ReaderSleeps, Moved, TypeOK
    <2>2. readers' = readers /\ writers' = writers
      BY <2>1, HoldersMove, HoldersStay DEF TypeOK, readers, writers
    <2>3. QED
      BY <2>2 DEF Abstract!vars, readers, writers
  <1>2. CASE ReaderEnters(t, waiting)
    <2>1. PICK p \in {"idle", "reader_waiting"} : Moved(t, p, "reading")
      BY <1>2 DEF ReaderEnters, Moved
    <2>2. readers' = readers \cup {t} /\ writers' = writers
      BY <2>1, HoldersMove DEF TypeOK, readers, writers
    <2>3. writers = {}
      BY <1>2, NobodyActive DEF ReaderEnters, ReaderMustWait
    <2>4. t \notin readers
      BY <2>1 DEF Moved, readers, At
    <2>5. QED
      BY <2>2, <2>3, <2>4 DEF Abstract!BeginRead, readers, writers
  <1>3. QED
    BY <1>1, <1>2 DEF ReaderLoop

LEMMA WriterLoopRefines ==
  ASSUME TypeOK, Counting, NEW t \in Threads, NEW waiting,
         pc[t] \in {"idle", "writer_waiting"}, WriterLoop(t, waiting)
  PROVE  Abstract!BeginWrite(t) \/ UNCHANGED Abstract!vars
  <1>1. CASE WriterSleeps(t, waiting)
    <2>1. Moved(t, "idle", "writer_waiting") \/ pc' = pc
      BY <1>1 DEF WriterSleeps, Moved, TypeOK
    <2>2. readers' = readers /\ writers' = writers
      BY <2>1, HoldersMove, HoldersStay DEF TypeOK, readers, writers
    <2>3. QED
      BY <2>2 DEF Abstract!vars, readers, writers
  <1>2. CASE WriterEnters(t, waiting)
    <2>1. PICK p \in {"idle", "writer_waiting"} : Moved(t, p, "writing")
      BY <1>2 DEF WriterEnters, Moved
    <2>2. readers' = readers /\ writers' = writers \cup {t}
      BY <2>1, HoldersMove DEF TypeOK, readers, writers
    <2>3. readers = {} /\ writers = {}
      BY <1>2, NobodyActive DEF WriterEnters, WriterMustWait
    <2>4. QED
      BY <2>2, <2>3 DEF Abstract!BeginWrite, readers, writers
  <1>3. QED
    BY <1>1, <1>2 DEF WriterLoop

LEMMA StepRefines ==
  TypeOK /\ Counting /\ [Next]_vars => [Abstract!Next]_(Abstract!vars)
  <1> SUFFICES ASSUME TypeOK, Counting, [Next]_vars
               PROVE  Abstract!Next \/ UNCHANGED Abstract!vars
    OBVIOUS
  <1>1. ASSUME NEW t \in Threads, reader_lock(t) \/ ReaderWoken(t)
        PROVE  Abstract!Next \/ UNCHANGED Abstract!vars
    <2>1. \E waiting : ReaderLoop(t, waiting)
      BY <1>1 DEF reader_lock, ReaderWoken
    <2>2. pc[t] \in {"idle", "reader_waiting"}
      BY <1>1 DEF reader_lock, ReaderWoken
    <2>3. QED
      BY <1>1, <2>1, <2>2, ReaderLoopRefines DEF Abstract!Next
  <1>2. ASSUME NEW t \in Threads, writer_lock(t) \/ WriterWoken(t)
        PROVE  Abstract!Next \/ UNCHANGED Abstract!vars
    <2>1. \E waiting : WriterLoop(t, waiting)
      BY <1>2 DEF writer_lock, WriterWoken
    <2>2. pc[t] \in {"idle", "writer_waiting"}
      BY <1>2 DEF writer_lock, WriterWoken
    <2>3. QED
      BY <1>2, <2>1, <2>2, WriterLoopRefines DEF Abstract!Next
  <1>3. ASSUME NEW t \in Threads, reader_unlock(t)
        PROVE  Abstract!EndRead(t)
    <2>1. Moved(t, "reading", "idle")
      BY <1>3 DEF reader_unlock, Moved
    <2>2. readers' = readers \ {t} /\ writers' = writers /\ t \in readers
      BY <1>3, <2>1, HoldersMove DEF TypeOK, readers, writers, At, Moved
    <2>3. QED
      BY <2>2 DEF Abstract!EndRead, readers, writers
  <1>4. ASSUME NEW t \in Threads, writer_unlock(t)
        PROVE  Abstract!EndWrite(t)
    <2>1. Moved(t, "writing", "idle")
      BY <1>4 DEF writer_unlock, Moved
    <2>2. readers' = readers /\ writers' = writers \ {t} /\ t \in writers
      BY <1>4, <2>1, HoldersMove DEF TypeOK, readers, writers, At, Moved
    <2>3. QED
      BY <2>2 DEF Abstract!EndWrite, readers, writers
  <1>5. CASE UNCHANGED vars \/ \E t \in Threads : SpuriousWakeup(t)
    <2>1. pc' = pc
      BY <1>5 DEF vars, SpuriousWakeup
    <2>2. QED
      BY <2>1, HoldersStay DEF Abstract!vars, readers, writers
  <1>6. QED
    BY <1>1, <1>2, <1>3, <1>4, <1>5 DEF Next, Step, Abstract!Next

(***************************************************************************)
(* rwlock.c is a reader-writer lock: every behaviour of its mutex,         *)
(* condition variable and counters is one the abstract lock allows.        *)
(***************************************************************************)
THEOREM LockIsReadersWriters == Spec => ImplementsReadersWriters
  <1>1. Init => Abstract!Init
    BY DEF Init, Abstract!Init, At
  <1>2. QED
    BY <1>1, StepRefines, CountersAreRight, PTL
    DEF Spec, ImplementsReadersWriters, Abstract!Spec

-----------------------------------------------------------------------------
(***************************************************************************)
(* How often the lock lets the other class pass a waiting thread.  The     *)
(* number is not kept by the lock, and its bound is seen only together     *)
(* with what the lock does keep: a waiting writer has been passed by no    *)
(* more readers than were charged to the quota, and a waiting reader that  *)
(* a writer has passed finds a quota that keeps the next writer out        *)
(* (PassedByFew).                                                          *)
(***************************************************************************)
Waiting == {"reader_waiting", "writer_waiting"}

PassedByFew ==
  /\ passed \in [Threads -> 0 .. Cap]
  /\ \A t \in Threads :
       /\ pc[t] \notin Waiting => passed[t] = 0
       /\ pc[t] = "reader_waiting" =>
            /\ priority = "READERS" => passed[t] = 0
            /\ priority = "N_WAY" /\ N > 0 =>
                 /\ passed[t] <= 1
                 /\ passed[t] # 0 => active_writers > 0 \/ readers_since_last_write < N
       /\ pc[t] = "writer_waiting" =>
            /\ priority = "WRITERS" => passed[t] = 0
            /\ priority = "N_WAY" =>
                 /\ passed[t] <= readers_since_last_write
                 /\ active_writers > 0 => passed[t] = 0

HInv == TypeOK /\ Counting /\ Quota /\ PassedByFew

-----------------------------------------------------------------------------
(* Steps of the lock, by whom they let in                                  *)
ReaderIsIn(u) ==
  /\ pc[u] # "reading" /\ pc' = [pc EXCEPT ![u] = "reading"]
  /\ active_writers = 0 /\ active_writers' = 0
  /\ waiting_writers > 0 =>
       /\ priority # "WRITERS"
       /\ priority = "N_WAY" => /\ readers_since_last_write < N
                                /\ readers_since_last_write' = readers_since_last_write + 1

WriterIsIn(u) ==
  /\ pc[u] # "writing" /\ pc' = [pc EXCEPT ![u] = "writing"]
  /\ active_writers = 0 /\ active_writers' = 1
  /\ readers_since_last_write' = readers_since_last_write
  /\ waiting_readers > 0 =>
       /\ priority # "READERS"
       /\ priority = "N_WAY" => readers_since_last_write >= N

NobodyIsIn ==
  /\ ~Admitted("reading") /\ ~Admitted("writing")
  /\ \A t \in Threads : pc'[t] \in Waiting => pc[t] \in {"idle", pc'[t]}
  /\ \/ UNCHANGED <<readers_since_last_write, active_writers>>
     \/ active_writers > 0 /\ (priority = "N_WAY" => readers_since_last_write' = 0)

LEMMA WhoIsLetIn ==
  ASSUME TypeOK, Counting, [Next]_vars
  PROVE  /\ priority' = priority /\ N' = N
         /\ \/ \E u \in Threads : ReaderIsIn(u) \/ WriterIsIn(u)
            \/ NobodyIsIn
  <1> USE DEF TypeOK
  <1>1. ASSUME NEW u \in Threads, reader_lock(u) \/ ReaderWoken(u)
        PROVE  priority' = priority /\ N' = N /\ (ReaderIsIn(u) \/ NobodyIsIn)
    <2>1. PICK waiting : ReaderLoop(u, waiting) /\ pc[u] \in {"idle", "reader_waiting"}
      BY <1>1 DEF reader_lock, ReaderWoken
    <2>2. CASE ReaderSleeps(u, waiting)
      BY <2>1, <2>2 DEF ReaderLoop, ReaderSleeps, policy, NobodyIsIn, Admitted, Waiting
    <2>3. CASE ReaderEnters(u, waiting)
      BY <2>1, <2>3 DEF ReaderLoop, ReaderEnters, ReaderMustWait, policy, ReaderIsIn
    <2>4. QED
      BY <2>1, <2>2, <2>3 DEF ReaderLoop, policy
  <1>2. ASSUME NEW u \in Threads, writer_lock(u) \/ WriterWoken(u)
        PROVE  priority' = priority /\ N' = N /\ (WriterIsIn(u) \/ NobodyIsIn)
    <2>1. PICK waiting : WriterLoop(u, waiting) /\ pc[u] \in {"idle", "writer_waiting"}
      BY <1>2 DEF writer_lock, WriterWoken
    <2>2. CASE WriterSleeps(u, waiting)
      BY <2>1, <2>2 DEF WriterLoop, WriterSleeps, policy, NobodyIsIn, Admitted, Waiting
    <2>3. CASE WriterEnters(u, waiting)
      BY <2>1, <2>3 DEF WriterLoop, WriterEnters, WriterMustWait, policy, WriterIsIn
    <2>4. QED
      BY <2>1, <2>2, <2>3 DEF WriterLoop, policy
  <1>3. ASSUME NEW u \in Threads, reader_unlock(u)
        PROVE  priority' = priority /\ N' = N /\ NobodyIsIn
    BY <1>3 DEF reader_unlock, policy, NobodyIsIn, Admitted, Waiting
  <1>4. ASSUME NEW u \in Threads, writer_unlock(u)
        PROVE  priority' = priority /\ N' = N /\ NobodyIsIn
    <2>1. active_writers > 0
      BY <1>4, HolderIsCounted DEF writer_unlock
    <2>2. QED
      BY <1>4, <2>1 DEF writer_unlock, policy, NobodyIsIn, Admitted, Waiting
  <1>5. ASSUME NEW u \in Threads, SpuriousWakeup(u)
        PROVE  priority' = priority /\ N' = N /\ NobodyIsIn
    BY <1>5 DEF SpuriousWakeup, policy, NobodyIsIn, Admitted
  <1>6. CASE UNCHANGED vars
    BY <1>6 DEF vars, policy, NobodyIsIn, Admitted
  <1>7. QED
    BY <1>1, <1>2, <1>3, <1>4, <1>5, <1>6 DEF Next, Step

\* What Record makes of the number, by whom the step lets in.
LEMMA Recorded ==
  ASSUME Cap \in Nat, passed \in [Threads -> 0 .. Cap], Record, NEW t \in Threads
  PROVE  /\ passed' \in [Threads -> 0 .. Cap]
         /\ passed'[t] <= passed[t] + 1
         /\ pc'[t] \notin Waiting => passed'[t] = 0
         /\ ~Admitted("reading") /\ ~Admitted("writing") => passed'[t] \in {0, passed[t]}
         /\ Admitted("reading") /\ ~Admitted("writing") /\ pc'[t] = "reader_waiting"
              => passed'[t] = 0
         /\ Admitted("writing") /\ ~Admitted("reading") /\ pc'[t] = "writer_waiting"
              => passed'[t] = 0
  BY DEF Record, Waiting

LEMMA NextPassed ==
  ASSUME HInv, HNext
  PROVE  PassedByFew'
  <1>1. /\ TypeOK /\ Counting /\ Record /\ passed \in [Threads -> 0 .. Cap] /\ Cap \in Nat
        /\ passed' \in [Threads -> 0 .. Cap] /\ pc \in [Threads -> Places]
        /\ N \in Int /\ readers_since_last_write \in Nat
    <2>1. TypeOK /\ Counting /\ Record /\ passed \in [Threads -> 0 .. Cap] /\ Cap \in Nat
      BY CapAssumption DEF HInv, HNext, PassedByFew
    <2>2. passed' \in [Threads -> 0 .. Cap]
      BY <2>1 DEF Record
    <2>3. QED
      BY <2>1, <2>2 DEF TypeOK
  <1> DEFINE Few(t) ==
        /\ pc[t] \notin Waiting => passed[t] = 0
        /\ pc[t] = "reader_waiting" =>
             /\ priority = "READERS" => passed[t] = 0
             /\ priority = "N_WAY" /\ N > 0 =>
                  /\ passed[t] <= 1
                  /\ passed[t] # 0 => active_writers > 0 \/ readers_since_last_write < N
        /\ pc[t] = "writer_waiting" =>
             /\ priority = "WRITERS" => passed[t] = 0
             /\ priority = "N_WAY" =>
                  /\ passed[t] <= readers_since_last_write
                  /\ active_writers > 0 => passed[t] = 0
  <1>2. priority' = priority /\ N' = N
    BY <1>1, WhoIsLetIn DEF HNext
  <1>3. ASSUME NEW t \in Threads
        PROVE  Few(t)'
    <2>1. /\ passed[t] \in Nat /\ passed'[t] \in Nat /\ passed'[t] <= passed[t] + 1
          /\ pc'[t] \notin Waiting => passed'[t] = 0
      BY <1>1, Recorded
    <2>2. Few(t)
      BY DEF HInv, PassedByFew
    <2>3. /\ pc[t] = "reader_waiting" => waiting_readers > 0
          /\ pc[t] = "writer_waiting" => waiting_writers > 0
      BY <1>1, HolderIsCounted
    <2>4. CASE \E u \in Threads : ReaderIsIn(u)
      <3>1. PICK u \in Threads : ReaderIsIn(u)
        BY <2>4
      <3>2. pc'[u] = "reading" /\ \A v \in Threads \ {u} : pc'[v] = pc[v]
        BY <1>1, <3>1 DEF ReaderIsIn
      <3>3. Admitted("reading") /\ ~Admitted("writing")
        BY <3>1, <3>2 DEF ReaderIsIn, Admitted
      <3>4. CASE pc'[t] = "reader_waiting"
        BY <1>1, <1>2, <3>3, <3>4, Recorded DEF Waiting
      <3>5. CASE pc'[t] = "writer_waiting"
        <4>1. pc[t] = "writer_waiting" /\ waiting_writers > 0
          BY <2>3, <3>2, <3>5
        <4>2. QED
          BY <1>1, <1>2, <2>1, <2>2, <3>1, <3>5, <4>1 DEF ReaderIsIn, Waiting
      <3>6. QED
        BY <2>1, <3>4, <3>5 DEF Waiting
    <2>5. CASE \E u \in Threads : WriterIsIn(u)
      <3>1. PICK u \in Threads : WriterIsIn(u)
        BY <2>5
      <3>2. pc'[u] = "writing" /\ \A v \in Threads \ {u} : pc'[v] = pc[v]
        BY <1>1, <3>1 DEF WriterIsIn
      <3>3. Admitted("writing") /\ ~Admitted("reading")
        BY <3>1, <3>2 DEF WriterIsIn, Admitted
      <3>4. CASE pc'[t] = "writer_waiting"
        <4>1. passed'[t] = 0 /\ readers_since_last_write' = readers_since_last_write
          BY <1>1, <3>1, <3>3, <3>4, Recorded DEF WriterIsIn
        <4>2. QED
          BY <1>1, <1>2, <3>4, <4>1 DEF Waiting
      <3>5. CASE pc'[t] = "reader_waiting"
        <4>1. pc[t] = "reader_waiting" /\ waiting_readers > 0
          BY <2>3, <3>2, <3>5
        <4>2. priority = "N_WAY" /\ N > 0 => passed[t] = 0
          BY <1>1, <2>2, <3>1, <4>1 DEF WriterIsIn
        <4>3. priority # "READERS" /\ active_writers' > 0
          BY <3>1, <4>1 DEF WriterIsIn
        <4>4. QED
          BY <1>2, <2>1, <3>5, <4>2, <4>3 DEF Waiting
      <3>6. QED
        BY <2>1, <3>4, <3>5 DEF Waiting
    <2>6. CASE NobodyIsIn
      <3>1. passed'[t] \in {0, passed[t]}
        BY <1>1, <2>6, Recorded DEF NobodyIsIn
      <3>2. pc'[t] \in Waiting => pc[t] = pc'[t] \/ passed'[t] = 0
        BY <2>2, <2>6, <3>1 DEF NobodyIsIn, Waiting
      <3>3. readers_since_last_write' \in Nat
        BY <1>1, <2>6, NextCounts DEF HNext, TypeOK
      <3>4. CASE pc'[t] \in Waiting /\ passed'[t] = 0
        BY <1>2, <3>3, <3>4 DEF Waiting
      <3>5. CASE pc'[t] \in Waiting /\ pc[t] = pc'[t] /\ passed'[t] = passed[t]
        BY <1>1, <1>2, <2>2, <2>6, <3>5 DEF NobodyIsIn, Waiting
      <3>6. QED
        BY <2>1, <3>1, <3>2, <3>4, <3>5 DEF Waiting
    <2>7. QED
      BY <1>1, <2>4, <2>5, <2>6, WhoIsLetIn DEF HNext
  <1>4. QED
    BY <1>1, <1>3 DEF PassedByFew

\* Record only watches: what holds of the lock holds with the history.
LEMMA HistoryOfLock == HSpec => Spec
  <1>1. HInit => Init
    BY DEF HInit
  <1>2. [HNext]_<<vars, passed>> => [Next]_vars
    BY DEF HNext
  <1>3. QED
    BY <1>1, <1>2, PTL DEF HSpec, Spec

(***************************************************************************)
(* rwlock.h's policies, in numbers: under READERS no writer passes a       *)
(* waiting reader, under WRITERS no reader passes a waiting writer, and    *)
(* under N_WAY with a positive n at most n readers pass a waiting writer   *)
(* and one writer a waiting reader, however many threads call the lock.    *)
(***************************************************************************)
THEOREM PoliciesBoundOvertaking == HSpec => []Overtaking
  <1>1. HInit => HInv
    <2> SUFFICES ASSUME HInit
                 PROVE  HInv
      OBVIOUS
    <2>1. TypeOK /\ Counting
      BY InitCounts DEF HInit
    <2>2. Quota
      BY InitQuota DEF HInit
    <2>3. PassedByFew
      BY CapAssumption DEF HInit, Init, PassedByFew, Waiting
    <2>4. QED
      BY <2>1, <2>2, <2>3 DEF HInv
  <1>2. HInv /\ [HNext]_<<vars, passed>> => HInv'
    <2> SUFFICES ASSUME HInv, [HNext]_<<vars, passed>>
                 PROVE  HInv'
      OBVIOUS
    <2>1. TypeOK' /\ Counting' /\ Quota'
      BY NextCounts, NextQuota DEF HInv, HNext
    <2>2. CASE HNext
      BY <2>1, <2>2, NextPassed DEF HInv
    <2>3. CASE UNCHANGED <<vars, passed>>
      BY <2>1, <2>3 DEF HInv, PassedByFew, vars, policy
    <2>4. QED
      BY <2>2, <2>3
  <1>3. HInv => Overtaking
    <2> SUFFICES ASSUME HInv, NEW t \in Threads
                 PROVE  /\ pc[t] = "reader_waiting" =>
                             passed[t] <= CASE priority = "READERS" -> 0
                                            [] priority = "N_WAY" /\ N > 0 -> 1
                                            [] OTHER -> Cap
                        /\ pc[t] = "writer_waiting" =>
                             passed[t] <= CASE priority = "WRITERS" -> 0
                                            [] priority = "N_WAY" -> IF N > 0 THEN N ELSE 0
                                            [] OTHER -> Cap
      BY DEF Overtaking, At
    <2>1. /\ passed[t] \in 0 .. Cap /\ Cap \in Nat /\ N \in Int
          /\ readers_since_last_write \in Nat
      BY CapAssumption DEF HInv, PassedByFew, TypeOK
    <2>2. priority = "N_WAY" => readers_since_last_write <= IF N > 0 THEN N ELSE 0
      BY DEF HInv, Quota
    <2>3. CASE pc[t] = "reader_waiting"
      BY <2>1, <2>3 DEF HInv, PassedByFew
    <2>4. CASE pc[t] = "writer_waiting"
      <3>1. /\ priority = "WRITERS" => passed[t] = 0
            /\ priority = "N_WAY" => passed[t] <= readers_since_last_write
        BY <2>4 DEF HInv, PassedByFew
      <3>2. QED
        BY <2>1, <2>2, <2>4, <3>1
    <2>5. QED
      BY <2>3, <2>4
  <1>4. QED
    BY <1>1, <1>2, <1>3, PTL DEF HSpec
=============================================================================

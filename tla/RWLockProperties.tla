-------------------------- MODULE RWLockProperties --------------------------
(***************************************************************************)
(* What makes the lock of rwlock.c correct.                                *)
(***************************************************************************)
EXTENDS RWLock

Places == {"idle", "reader_waiting", "reading", "writer_waiting", "writing"}

(* The fields hold values of their types; the lock's policy is one of the  *)
(* enum's, and only waiting threads sleep on the condition variable.       *)
TypeOK ==
  /\ priority \in Policies
  /\ N \in -HalfWord .. (HalfWord - 1)
  /\ active_readers \in Nat
  /\ active_writers \in Nat
  /\ waiting_readers \in Nat
  /\ waiting_writers \in Nat
  /\ readers_since_last_write \in Nat
  /\ pc \in [Threads -> Places]
  /\ condition \subseteq At("reader_waiting") \cup At("writer_waiting")

(* The four counters of struct rwlock agree with what the threads are      *)
(* doing: through waits, wakeups and re-tests no thread is counted twice   *)
(* or forgotten.                                                           *)
Counting ==
  /\ active_readers  = Cardinality(At("reading"))
  /\ active_writers  = Cardinality(At("writing"))
  /\ waiting_readers = Cardinality(At("reader_waiting"))
  /\ waiting_writers = Cardinality(At("writer_waiting"))

(* Between writer_lock and writer_unlock no other thread is between its    *)
(* own lock and unlock call, as a reader or as a writer.                   *)
Exclusion ==
  \A t, u \in Threads :
    pc[t] = "writing" /\ u # t => pc[u] \notin {"reading", "writing"}

(* No lost wakeup: a thread asleep in pthread_cond_wait is one whose while *)
(* condition is still true.  One condition variable serves both classes    *)
(* and both unlocks skip the broadcast when the waiting counters are zero, *)
(* so every step that falsifies a sleeper's condition must also wake it.   *)
NoLostWakeup ==
  \A t \in condition :
    IF pc[t] = "reader_waiting" THEN ReaderMustWait ELSE WriterMustWait

(* No standstill: while any thread waits, some thread holds the lock or is *)
(* awake with a false while condition, so that it will get it.  READERS    *)
(* and N_WAY let each class wait for the other's counters, and the two     *)
(* while conditions must never hold each other up.                         *)
CanGoOn(t) ==
  \/ pc[t] \in {"reading", "writing"}
  \/ pc[t] = "reader_waiting" /\ t \notin condition /\ ~ReaderMustWait
  \/ pc[t] = "writer_waiting" /\ t \notin condition /\ ~WriterMustWait

NoStandstill ==
  (\E t \in Threads : pc[t] \in {"reader_waiting", "writer_waiting"})
     => \E t \in Threads : CanGoOn(t)

(* The reader quota of N_WAY: at most N readers are charged to it before a *)
(* writer's turn ends, and once no writer waits or writes it is back to    *)
(* zero, so that the next writer to come finds it fresh.  The other two    *)
(* policies never touch it.                                                *)
Quota ==
  /\ readers_since_last_write <= IF priority = "N_WAY" /\ N > 0 THEN N ELSE 0
  /\ waiting_writers = 0 /\ active_writers = 0 => readers_since_last_write = 0

(* None of the int counters leaves the range of an int.                    *)
NoOverflow ==
  /\ active_readers < HalfWord
  /\ active_writers < HalfWord
  /\ waiting_readers < HalfWord
  /\ waiting_writers < HalfWord
  /\ readers_since_last_write < HalfWord

(* The lock's holders behave as the abstract reader-writer lock allows.    *)
Abstract == INSTANCE ReadersWriters
              WITH readers <- At("reading"), writers <- At("writing")
ImplementsReadersWriters == Abstract!Spec

-----------------------------------------------------------------------------
(* Progress of the favoured classes.  READERS: readers that wait are let   *)
(* in.  WRITERS: writers that wait are let in.  N_WAY with a positive      *)
(* quota: both, each class at its turn.                                    *)
ReadersAreServed ==
  (waiting_readers > 0 /\ (priority = "READERS" \/ (priority = "N_WAY" /\ N > 0)))
     ~> active_readers > 0

WritersAreServed ==
  (waiting_writers > 0 /\ (priority = "WRITERS" \/ priority = "N_WAY"))
     ~> active_writers > 0

(* README.md of Concurrent Data Structures: "Prevents starvation for both  *)
(* readers and writers", for the whole lock, whatever its policy.          *)
NoStarvation ==
  /\ waiting_readers > 0 ~> active_readers > 0
  /\ waiting_writers > 0 ~> active_writers > 0
=============================================================================

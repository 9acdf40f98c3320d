------------------------------- MODULE RWLock -------------------------------
(***************************************************************************)
(* The reader-writer lock of "Concurrent Data Structures/rwlock.c": one    *)
(* mutex, one condition variable and five counters, under one of three     *)
(* priority policies.                                                      *)
(*                                                                         *)
(* Every field is read and written only with the mutex held, and           *)
(* pthread_cond_wait gives the mutex up and goes to sleep in one step, so  *)
(* the code between two releases of the mutex is one atomic action here.   *)
(* A thread in `condition' sleeps in pthread_cond_wait.  A thread that     *)
(* waits and is not in it has been woken and is about to take the mutex    *)
(* again and re-test its while condition.                                  *)
(***************************************************************************)
EXTENDS Integers, FiniteSets

CONSTANTS Threads,     \* the threads that call the lock
          Priorities,  \* the policies rwlock_new is called with
          Arguments,   \* the values of n rwlock_new is called with
          HalfWord     \* 2^(w-1): an int is -HalfWord .. HalfWord-1

Policies == {"READERS", "WRITERS", "N_WAY"}

ASSUME RWLockAssumption ==
  /\ IsFiniteSet(Threads)
  /\ HalfWord \in Nat
  /\ Cardinality(Threads) < HalfWord      \* fewer threads than INT_MAX
  /\ Priorities \subseteq Policies
  /\ Arguments \subseteq 0 .. (2 * HalfWord - 1)   \* a uint32_t

VARIABLES priority, N, active_readers, active_writers, waiting_readers,
          waiting_writers, readers_since_last_write,
          condition,   \* the threads asleep on the condition variable
          pc           \* where each thread is in its use of the lock

policy == <<priority, N>>
vars   == <<policy, active_readers, active_writers, waiting_readers,
            waiting_writers, readers_since_last_write, condition, pc>>

At(place) == {t \in Threads : pc[t] = place}

\* Slip: the field is as wide as the argument.
ToInt_Unsigned(n) == n

\* `rw->N = n' stores a uint32_t in an int: the upper half becomes negative.
ToInt(n) == IF n < HalfWord THEN n ELSE n - 2 * HalfWord

rwlock_new(p, n) ==
  /\ priority = p
  /\ N = ToInt(n)
  /\ active_readers = 0
  /\ active_writers = 0
  /\ waiting_readers = 0
  /\ waiting_writers = 0
  /\ readers_since_last_write = 0
  /\ condition = {}

Init ==
  /\ \E p \in Priorities, n \in Arguments : rwlock_new(p, n)
  /\ pc = [t \in Threads |-> "idle"]

-----------------------------------------------------------------------------
(* The while conditions of reader_lock and writer_lock.  Neither reads the *)
(* counter the caller itself has just incremented.                         *)

\* Slips: a writer that writes or waits is not looked at; quota + 1 readers.
ReaderMustWait_IgnoresWriter ==
  /\ waiting_writers > 0
  /\ priority = "WRITERS" \/ (priority = "N_WAY" /\ readers_since_last_write >= N)
ReaderMustWait_IgnoresWaiting ==
  \/ active_writers > 0
  \/ waiting_writers > 0 /\ priority = "N_WAY" /\ readers_since_last_write >= N
ReaderMustWait_OneMore ==
  \/ active_writers > 0
  \/ /\ waiting_writers > 0
     /\ priority = "WRITERS" \/ (priority = "N_WAY" /\ readers_since_last_write > N)

ReaderMustWait ==
  \/ active_writers > 0
  \/ /\ waiting_writers > 0
     /\ \/ priority = "WRITERS"
        \/ priority = "N_WAY" /\ readers_since_last_write >= N

\* Slips: readers that read or wait are not looked at; both classes wait when
\* the quota is just used up.
WriterMustWait_IgnoresReaders ==
  \/ active_writers > 0
  \/ /\ waiting_readers > 0
     /\ priority = "READERS" \/ (priority = "N_WAY" /\ readers_since_last_write < N)
WriterMustWait_IgnoresWaiting ==
  \/ active_writers > 0 \/ active_readers > 0
  \/ waiting_readers > 0 /\ priority = "N_WAY" /\ readers_since_last_write < N
WriterMustWait_AtQuota ==
  \/ active_writers > 0 \/ active_readers > 0
  \/ /\ waiting_readers > 0
     /\ priority = "READERS" \/ (priority = "N_WAY" /\ readers_since_last_write <= N)

WriterMustWait ==
  \/ active_writers > 0
  \/ active_readers > 0
  \/ /\ waiting_readers > 0
     /\ \/ priority = "READERS"
        \/ priority = "N_WAY" /\ readers_since_last_write < N

\* Slip: only waiting writers are thought of.
Broadcast_ForWriters ==
  condition' = IF waiting_writers > 0 THEN {} ELSE condition

\* pthread_cond_broadcast, which both unlocks skip when nobody waits.
Broadcast ==
  condition' = IF waiting_readers > 0 \/ waiting_writers > 0 THEN {} ELSE condition

-----------------------------------------------------------------------------
(* reader_lock from its while loop on; `waiting' is the value that         *)
(* waiting_readers has when the loop is reached.                           *)
ReaderSleeps(t, waiting) ==
  /\ ReaderMustWait
  /\ waiting_readers' = waiting
  /\ condition' = condition \cup {t}
  /\ pc' = [pc EXCEPT ![t] = "reader_waiting"]
  /\ UNCHANGED <<active_readers, readers_since_last_write>>

\* Slip: the version commented out at line 77, which charges every reader.
ReaderEnters_AlwaysCharged(t, waiting) ==
  /\ ~ReaderMustWait
  /\ readers_since_last_write' =
       IF priority = "N_WAY" THEN readers_since_last_write + 1
       ELSE readers_since_last_write
  /\ waiting_readers' = waiting - 1
  /\ active_readers' = active_readers + 1
  /\ pc' = [pc EXCEPT ![t] = "reading"]
  /\ UNCHANGED condition

ReaderEnters(t, waiting) ==
  /\ ~ReaderMustWait
  /\ readers_since_last_write' =
       IF priority = "N_WAY" /\ waiting_writers > 0
       THEN readers_since_last_write + 1
       ELSE readers_since_last_write
  /\ waiting_readers' = waiting - 1
  /\ active_readers' = active_readers + 1
  /\ pc' = [pc EXCEPT ![t] = "reading"]
  /\ UNCHANGED condition

ReaderLoop(t, waiting) ==
  /\ ReaderSleeps(t, waiting) \/ ReaderEnters(t, waiting)
  /\ UNCHANGED <<policy, active_writers, waiting_writers>>

reader_lock(t) ==
  /\ pc[t] = "idle"
  /\ ReaderLoop(t, waiting_readers + 1)

ReaderWoken(t) ==               \* pthread_cond_wait returns in reader_lock
  /\ pc[t] = "reader_waiting"
  /\ t \notin condition
  /\ ReaderLoop(t, waiting_readers)

\* Slip: nobody is woken.
reader_unlock_Silent(t) ==
  /\ pc[t] = "reading"
  /\ active_readers' = active_readers - 1
  /\ pc' = [pc EXCEPT ![t] = "idle"]
  /\ UNCHANGED <<policy, active_writers, waiting_readers, waiting_writers,
                 readers_since_last_write, condition>>

reader_unlock(t) ==
  /\ pc[t] = "reading"
  /\ active_readers' = active_readers - 1
  /\ Broadcast
  /\ pc' = [pc EXCEPT ![t] = "idle"]
  /\ UNCHANGED <<policy, active_writers, waiting_readers, waiting_writers,
                 readers_since_last_write>>

-----------------------------------------------------------------------------
WriterSleeps(t, waiting) ==
  /\ WriterMustWait
  /\ waiting_writers' = waiting
  /\ condition' = condition \cup {t}
  /\ pc' = [pc EXCEPT ![t] = "writer_waiting"]
  /\ UNCHANGED active_writers

WriterEnters(t, waiting) ==
  /\ ~WriterMustWait
  /\ waiting_writers' = waiting - 1
  /\ active_writers' = active_writers + 1
  /\ pc' = [pc EXCEPT ![t] = "writing"]
  /\ UNCHANGED condition

WriterLoop(t, waiting) ==
  /\ WriterSleeps(t, waiting) \/ WriterEnters(t, waiting)
  /\ UNCHANGED <<policy, active_readers, waiting_readers, readers_since_last_write>>

writer_lock(t) ==
  /\ pc[t] = "idle"
  /\ WriterLoop(t, waiting_writers + 1)

\* Slip: waiting_writers += 1 inside the loop.
WriterWoken_CountsAgain(t) ==
  /\ pc[t] = "writer_waiting"
  /\ t \notin condition
  /\ WriterLoop(t, waiting_writers + 1)

WriterWoken(t) ==               \* pthread_cond_wait returns in writer_lock
  /\ pc[t] = "writer_waiting"
  /\ t \notin condition
  /\ WriterLoop(t, waiting_writers)

\* Slip: the quota is not renewed.
writer_unlock_KeepsQuota(t) ==
  /\ pc[t] = "writing"
  /\ active_writers' = active_writers - 1
  /\ Broadcast
  /\ pc' = [pc EXCEPT ![t] = "idle"]
  /\ UNCHANGED <<policy, active_readers, waiting_readers, waiting_writers,
                 readers_since_last_write>>

writer_unlock(t) ==
  /\ pc[t] = "writing"
  /\ active_writers' = active_writers - 1
  /\ readers_since_last_write' =
       IF priority = "N_WAY" THEN 0 ELSE readers_since_last_write
  /\ Broadcast
  /\ pc' = [pc EXCEPT ![t] = "idle"]
  /\ UNCHANGED <<policy, active_readers, waiting_readers, waiting_writers>>

-----------------------------------------------------------------------------
\* POSIX lets pthread_cond_wait return without a broadcast.
SpuriousWakeup(t) ==
  /\ t \in condition
  /\ condition' = condition \ {t}
  /\ UNCHANGED <<policy, active_readers, active_writers, waiting_readers,
                 waiting_writers, readers_since_last_write, pc>>

Step(t) ==
  \/ reader_lock(t) \/ ReaderWoken(t) \/ reader_unlock(t)
  \/ writer_lock(t) \/ WriterWoken(t) \/ writer_unlock(t)
  \/ SpuriousWakeup(t)

Next == \E t \in Threads : Step(t)

Spec == Init /\ [][Next]_vars

(***************************************************************************)
(* A thread that was woken gets the mutex in the end, and a thread that    *)
(* holds the lock releases it.  Nobody has to call the lock, and no wakeup *)
(* is spurious unless it happens to be.                                    *)
(***************************************************************************)
Fairness ==
  \A t \in Threads :
    /\ WF_vars(ReaderWoken(t))
    /\ WF_vars(WriterWoken(t))
    /\ WF_vars(reader_unlock(t))
    /\ WF_vars(writer_unlock(t))

FairSpec == Spec /\ Fairness

\* As much as any scheduler could do for a waiting thread: it also gets the
\* mutex at a moment when it can enter, if there are such moments for ever.
StronglyFairSpec ==
  /\ FairSpec
  /\ \A t \in Threads :
       /\ SF_vars(ReaderWoken(t) /\ pc'[t] = "reading")
       /\ SF_vars(WriterWoken(t) /\ pc'[t] = "writing")
=============================================================================

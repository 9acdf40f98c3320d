---------------------------- MODULE RWLockBypass ----------------------------
(***************************************************************************)
(* RWLock with a history variable: how many threads of the other class the *)
(* lock has admitted in a row while a thread waits.  rwlock.h's policies   *)
(* are promises about this number.  The variable only records; Next is the *)
(* lock's own.                                                             *)
(***************************************************************************)
EXTENDS RWLockProperties

CONSTANT Cap        \* the largest number recorded, above every bound stated

ASSUME CapAssumption == Cap \in Nat

VARIABLE passed

Admitted(place) == \E t \in Threads : pc[t] # place /\ pc'[t] = place

Record ==
  LET OneMore(t) == IF passed[t] < Cap THEN passed[t] + 1 ELSE Cap
      After(t) ==
        CASE pc'[t] = "reader_waiting" /\ Admitted("writing") -> OneMore(t)
          [] pc'[t] = "writer_waiting" /\ Admitted("reading") -> OneMore(t)
          [] pc'[t] = "reader_waiting" /\ Admitted("reading") -> 0
          [] pc'[t] = "writer_waiting" /\ Admitted("writing") -> 0
          [] pc'[t] \in {"reader_waiting", "writer_waiting"}
               /\ ~Admitted("reading") /\ ~Admitted("writing") -> passed[t]
          [] OTHER -> 0
  IN  passed' = [t \in Threads |-> After(t)]

HInit == Init /\ passed = [t \in Threads |-> 0]
HNext == Next /\ Record
HSpec == HInit /\ [][HNext]_<<vars, passed>>

\* Fairness of the lock's own steps, which Record neither enables nor disables.
HFairSpec == HSpec /\ Fairness

(* While a thread waits, the lock admits at most this many threads of the  *)
(* other class in a row.  READERS: no writer passes a waiting reader.      *)
(* WRITERS: no reader passes a waiting writer.  N_WAY, "allow `n` readers  *)
(* between writers" (README.md): no more than N readers pass a waiting     *)
(* writer, and with a positive N no two writers pass a waiting reader.     *)
Overtaking ==
  /\ \A t \in At("reader_waiting") :
       passed[t] <= CASE priority = "READERS" -> 0
                      [] priority = "N_WAY" /\ N > 0 -> 1
                      [] OTHER -> Cap
  /\ \A t \in At("writer_waiting") :
       passed[t] <= CASE priority = "WRITERS" -> 0
                      [] priority = "N_WAY" -> IF N > 0 THEN N ELSE 0
                      [] OTHER -> Cap
=============================================================================

------------------------ MODULE ConcurrentStructures ------------------------
(***************************************************************************)
(* The lock and the queue of "Concurrent Data Structures" for one model    *)
(* run: `structure' says which of them is used, the other stays as it was  *)
(* created.                                                                *)
(***************************************************************************)
EXTENDS RWLockBypass, BoundedQueueProperties

VARIABLE structure

\* READERS and WRITERS do not look at N: one value of it is enough for them.
StructuresInit ==
  /\ HInit /\ QueueInit
  /\ \/ structure = "rwlock" /\ size = 1 /\ (priority = "N_WAY" \/ N = 0)
     \/ structure = "queue" /\ priority = "READERS" /\ N = 0

StructuresNext ==
  \/ structure = "rwlock" /\ HNext /\ UNCHANGED <<structure, queueVars>>
  \/ structure = "queue" /\ QueueNext /\ UNCHANGED <<structure, vars, passed>>

\* The fairness of both.  Only the call of queue_pop could be taken from an
\* idle state, so that it alone has to say which structure is used.
StructuresSpec ==
  /\ StructuresInit /\ [][StructuresNext]_<<structure, vars, passed, queueVars>>
  /\ Fairness
  /\ \A p \in Producers : WF_queueVars(PushStep(p))
  /\ \A c \in Consumers :
       WF_queueVars(PopStep(c)) /\ WF_queueVars(structure = "queue" /\ Pop(c))
=============================================================================

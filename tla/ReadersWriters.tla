--------------------------- MODULE ReadersWriters ---------------------------
(***************************************************************************)
(* What a reader-writer lock promises its callers, whatever its policy:    *)
(* a thread that was granted the lock for reading shares it with readers   *)
(* only, a thread that was granted it for writing has it alone.  Who waits,*)
(* and for how long, is left open.  RWLock implements this specification,  *)
(* and JobServer uses the lock only through it.                            *)
(***************************************************************************)

CONSTANT Threads                \* the callers of the lock

VARIABLES readers,              \* the threads that hold it for reading
          writers               \* the threads that hold it for writing

vars == <<readers, writers>>

Init == readers = {} /\ writers = {}

BeginRead(t) ==
  /\ t \notin readers \cup writers
  /\ writers = {}
  /\ readers' = readers \cup {t}
  /\ UNCHANGED writers

EndRead(t) ==
  /\ t \in readers
  /\ readers' = readers \ {t}
  /\ UNCHANGED writers

BeginWrite(t) ==
  /\ readers \cup writers = {}
  /\ writers' = {t}
  /\ UNCHANGED readers

EndWrite(t) ==
  /\ t \in writers
  /\ writers' = writers \ {t}
  /\ UNCHANGED readers

Next == \E t \in Threads : BeginRead(t) \/ EndRead(t) \/ BeginWrite(t) \/ EndWrite(t)

Spec == Init /\ [][Next]_vars
=============================================================================

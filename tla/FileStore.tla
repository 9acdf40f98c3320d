------------------------------ MODULE FileStore ------------------------------
(***************************************************************************)
(* What clients may rely on when requests of the multi-threaded server     *)
(* overlap: every request takes effect at one instant between its arrival  *)
(* and its reply.  A GET reports the file as it is at that instant, and a  *)
(* PUT installs its whole body and learns, at that instant, whether it     *)
(* created or replaced the file.  A request whose call fails changes       *)
(* nothing and is told so, but for Tear: an upload that breaks off is      *)
(* answered 500 and what arrived of it is installed.  Whether the answer   *)
(* that was decided reaches the client is another matter.                  *)
(***************************************************************************)
CONSTANTS Conns, Uris, Faults, None

VARIABLES request,          \* what each connection asks for, None before it arrives
          files,            \* what each URI names: <<kind, the PUT that wrote it>>
          outcome           \* what was decided for each connection, or None

vars == <<request, files, outcome>>

Kind(u) == files[u][1]
Reply(code, content) == [code |-> code, content |-> content]

Init ==
  /\ request = [c \in Conns |-> None]
  /\ files \in [Uris -> {"absent", "dir", "unreadable", "old"} \X {None}]
  /\ outcome = [c \in Conns |-> None]

Asks(c, method) ==
  /\ request[c] # None
  /\ request[c].method = method
  /\ outcome[c] = None

Decide(c, code, content) ==
  /\ outcome' = [outcome EXCEPT ![c] = Reply(code, content)]
  /\ UNCHANGED request

Arrive(c) ==
  /\ request[c] = None
  /\ \E m \in {"GET", "PUT", "MALFORMED", "OTHER"}, u \in Uris :
       request' = [request EXCEPT ![c] = [method |-> m, uri |-> u]]
  /\ UNCHANGED <<files, outcome>>

Refuse(c) ==
  /\ \/ Asks(c, "MALFORMED") /\ Decide(c, 400, None)
     \/ Asks(c, "OTHER") /\ Decide(c, 501, None)
  /\ UNCHANGED files

Get(c) ==
  /\ Asks(c, "GET")
  /\ LET u == request[c].uri IN
       \/ Kind(u) = "absent" /\ Decide(c, 404, None)
       \/ Kind(u) \in {"dir", "unreadable"} /\ Decide(c, 403, None)
       \/ Kind(u) \in {"old", "whole", "torn"}
            /\ \/ Decide(c, 200, files[u])
               \/ "open" \in Faults /\ \E code \in {403, 500} : Decide(c, code, None)
  /\ UNCHANGED files

Put(c) ==
  /\ Asks(c, "PUT")
  /\ LET u == request[c].uri IN
       /\ Kind(u) # "dir"
       /\ Decide(c, IF Kind(u) = "absent" THEN 201 ELSE 200, None)
       /\ files' = [files EXCEPT ![u] = <<"whole", c>>]

Tear(c) ==
  /\ "recv" \in Faults
  /\ Asks(c, "PUT")
  /\ LET u == request[c].uri IN
       /\ Kind(u) # "dir"
       /\ files' = [files EXCEPT ![u] = <<"torn", c>>]
  /\ Decide(c, 500, None)

FailPut(c) ==
  /\ Asks(c, "PUT")
  /\ \/ Kind(request[c].uri) = "dir" /\ Decide(c, 403, None)
     \/ "rename" \in Faults /\ \E code \in {403, 500} : Decide(c, code, None)
     \/ "mkstemp" \in Faults /\ Decide(c, 500, None)
  /\ UNCHANGED files

Next == \E c \in Conns : Arrive(c) \/ Refuse(c) \/ Get(c) \/ Put(c) \/ Tear(c) \/ FailPut(c)

Spec == Init /\ [][Next]_vars
=============================================================================

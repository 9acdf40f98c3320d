------------------------------ MODULE JobServer ------------------------------
(***************************************************************************)
(* The multi-threaded HTTP server of "Multi-Threaded HTTP Server/          *)
(* httpserver.c": main creates the worker threads, then accepts            *)
(* connections and hands them to the workers through a bounded queue.      *)
(* Workers look up the rwlock of a URI in a table with one slot per        *)
(* worker, read or replace the file under it, answer, and write one line   *)
(* of the audit log.                                                       *)
(*                                                                         *)
(* Each section under job_lock or audit_lock is one action: nothing in it  *)
(* blocks.  The rwlocks are used as ReadersWriters specifies them and the  *)
(* queue as Fifo does (the program links other builds of both).  Calls of  *)
(* the file system and of the connection library are steps of their own,   *)
(* which fail only as Faults allows.                                       *)
(***************************************************************************)
EXTENDS Integers, FiniteSets, Sequences

CONSTANTS Workers, Conns, Uris,
          Methods,       \* the kinds of request that clients send
          Kinds,         \* what a URI may name before the server starts
          Faults,        \* the calls that may fail
          Slow,          \* connections whose client may never send its body
          QueueSize,     \* the argument of queue_new
          None

ASSUME ServerAssumption ==
  /\ IsFiniteSet(Workers) /\ Workers # {} /\ QueueSize \in Nat \ {0}
  /\ Methods \subseteq {"GET", "PUT", "MALFORMED", "OTHER"}
  /\ Kinds \subseteq {"absent", "dir", "unreadable", "old"}
  /\ Faults \subseteq {"pthread_create", "mkstemp", "recv", "rename", "open", "send"}
  /\ Slow \subseteq Conns
  /\ None \notin Workers \cup Conns \cup Uris \cup {"whole", "torn"}
  /\ None \notin [method : Methods, uri : Uris]

VARIABLES main,          \* where main is: creating, accepting, or gone
          created,       \* the workers pthread_create has started
          connfd,        \* the connection main has accepted and not pushed yet
          queue,         \* job_queue
          num_working,
          uri_list, uri_count,
          reading, writing,       \* who holds each rwlock of uri_lock
          files,         \* what each URI names: <<kind, the PUT that wrote it>>
          request,       \* what each connection asks for
          reply,         \* what each client has been sent, or is to be
          cut,           \* the clients whose answer broke off: none or a part came
          closed,        \* the connections that are closed
          audit,         \* the lines of the audit log
          pc, local      \* where each worker is, and its variables

table   == <<uri_list, uri_count>>
urilock == <<reading, writing>>
network == <<request, reply, cut, closed>>
process == <<main, created, connfd>>
vars    == <<process, queue, num_working, table, urilock, files, network,
             audit, pc, local>>

\* Slip: one slot too few.
Slots_OneShort == 0 .. (Cardinality(Workers) - 2)

Slots == 0 .. (Cardinality(Workers) - 1)

NoLocals == [conn |-> None, rw |-> None, res |-> None, stat |-> None,
             temp |-> None, existed |-> FALSE]

Init ==
  /\ main = "creating" /\ created = {} /\ connfd = None
  /\ queue = <<>> /\ num_working = 0
  /\ uri_list = [i \in Slots |-> None] /\ uri_count = [i \in Slots |-> 0]
  /\ reading = [i \in Slots |-> {}] /\ writing = [i \in Slots |-> {}]
  /\ files \in [Uris -> Kinds \X {None}]
  /\ request = [c \in Conns |-> None] /\ reply = [c \in Conns |-> None]
  /\ cut = {} /\ closed = {} /\ audit = <<>>
  /\ pc = [w \in Workers |-> "not created"]
  /\ local = [w \in Workers |-> NoLocals]

Running == main \in {"creating", "accepting"}

-----------------------------------------------------------------------------
(* main *)
CreateWorker(w) ==
  /\ main = "creating" /\ w \notin created
  /\ created' = created \cup {w}
  /\ main' = IF created' = Workers THEN "accepting" ELSE main
  /\ pc' = [pc EXCEPT ![w] = "pop"]
  /\ UNCHANGED <<connfd, queue, num_working, table, urilock, files, network,
                 audit, local>>

\* job_delete and return, whatever the workers created so far are doing: what
\* they do with the freed job is undefined, and the model stops here.
CreateFails ==
  /\ "pthread_create" \in Faults
  /\ main = "creating"
  /\ main' = "deleted"
  /\ UNCHANGED <<created, connfd, queue, num_working, table, urilock, files,
                 network, audit, pc, local>>

ls_accept(c) ==
  /\ main = "accepting" /\ connfd = None /\ request[c] = None
  /\ \E m \in Methods, u \in Uris :
       request' = [request EXCEPT ![c] = [method |-> m, uri |-> u]]
  /\ connfd' = c
  /\ UNCHANGED <<main, created, queue, num_working, table, urilock, files,
                 reply, cut, closed, audit, pc, local>>

job_push ==
  /\ main = "accepting" /\ connfd # None
  /\ Len(queue) < QueueSize
  /\ queue' = Append(queue, connfd)
  /\ connfd' = None
  /\ UNCHANGED <<main, created, num_working, table, urilock, files, network,
                 audit, pc, local>>

-----------------------------------------------------------------------------
(* Operators of the worker's steps.                                        *)
GoTo(w, from, to) == Running /\ pc[w] = from /\ pc' = [pc EXCEPT ![w] = to]

Set(w, field, value) == local' = [local EXCEPT ![w][field] = value]

Asked(w) == request[local[w].conn]
Uri(w)   == Asked(w).uri
Kind(u)  == files[u][1]

Reply(code, content) == [code |-> code, content |-> content]

\* conn_send_file too.  Both return NULL whether or not the client took it
\* all, so that the server goes on in one way.
conn_send_response(w, code, content) ==
  /\ reply' = [reply EXCEPT ![local[w].conn] = Reply(code, content)]
  /\ \/ UNCHANGED cut
     \/ "send" \in Faults /\ cut' = cut \cup {local[w].conn}

First(S) == CHOOSE i \in S : \A j \in S : i <= j

job_find_uri(u) == {i \in Slots : uri_list[i] = u}
FreeSlots == {i \in Slots : uri_count[i] = 0}

\* Slip: the URI is not looked up.
job_get_lock_NoLookup(w, u) ==
  LET idx == First(FreeSlots)
  IN  /\ FreeSlots # {}
      /\ uri_list'  = [uri_list EXCEPT ![idx] = u]
      /\ uri_count' = [uri_count EXCEPT ![idx] = @ + 1]
      /\ Set(w, "rw", idx)

\* The body does not say what happens when there is no slot: idx is -1 then.
job_get_lock(w, u) ==
  LET found == job_find_uri(u)
      idx   == First(IF found # {} THEN found ELSE FreeSlots)
  IN  /\ found \cup FreeSlots # {}
      /\ uri_list'  = [uri_list EXCEPT ![idx] = u]
      /\ uri_count' = [uri_count EXCEPT ![idx] = @ + 1]
      /\ Set(w, "rw", idx)

\* Slip: the first to return the slot takes its URI away.
job_return_lock_Clears(u) ==
  LET found == job_find_uri(u)
      idx   == First(found)
  IN  IF found = {} THEN UNCHANGED table
      ELSE /\ uri_count' = [uri_count EXCEPT ![idx] = @ - 1]
           /\ uri_list' = [uri_list EXCEPT ![idx] = None]

job_return_lock(u) ==
  LET found == job_find_uri(u)
      idx   == First(found)
  IN  IF found = {} THEN UNCHANGED table
      ELSE /\ uri_count' = [uri_count EXCEPT ![idx] = @ - 1]
           /\ uri_list' = IF uri_count'[idx] = 0
                          THEN [uri_list EXCEPT ![idx] = None] ELSE uri_list

-----------------------------------------------------------------------------
(* handle_request up to the dispatch.  job->done is never set, so that     *)
(* job_is_done is always false.                                            *)
job_pop(w) ==
  /\ GoTo(w, "pop", "start")
  /\ queue # <<>>
  /\ Set(w, "conn", Head(queue))
  /\ queue' = Tail(queue)
  /\ UNCHANGED <<process, num_working, table, urilock, files, network, audit>>

\* Slip: the worker is not counted.
job_start_NotCounted(w) ==
  /\ GoTo(w, "start", "parse")
  /\ UNCHANGED <<process, queue, num_working, table, urilock, files, network,
                 audit, local>>

job_start(w) ==
  /\ GoTo(w, "start", "parse")
  /\ num_working' = num_working + 1
  /\ UNCHANGED <<process, queue, table, urilock, files, network, audit, local>>

ParseMalformed(w) ==
  /\ GoTo(w, "parse", "audit")
  /\ Asked(w).method = "MALFORMED"
  /\ conn_send_response(w, 400, None)
  /\ Set(w, "res", 400)
  /\ UNCHANGED <<process, queue, num_working, table, urilock, files, request,
                 closed, audit>>

\* `res = conn_send_response(...)': the library returns NULL.
ParseOther(w) ==
  /\ GoTo(w, "parse", "audit")
  /\ Asked(w).method = "OTHER"
  /\ conn_send_response(w, 501, None)
  /\ Set(w, "res", None)
  /\ UNCHANGED <<process, queue, num_working, table, urilock, files, request,
                 closed, audit>>

ParseOk(w) ==
  /\ \/ GoTo(w, "parse", "get_slot") /\ Asked(w).method = "GET"
     \/ GoTo(w, "parse", "mkstemp") /\ Asked(w).method = "PUT"
  /\ UNCHANGED <<process, queue, num_working, table, urilock, files, network,
                 audit, local>>

-----------------------------------------------------------------------------
(* GET: job_reader_lock_uri, handle_get, job_reader_unlock_uri *)
GetSlot(w) ==
  /\ GoTo(w, "get_slot", "get_lock")
  /\ job_get_lock(w, Uri(w))
  /\ UNCHANGED <<process, queue, num_working, urilock, files, network, audit>>

\* Slip: a GET does not wait for a PUT.
reader_lock_Barges(w) ==
  /\ GoTo(w, "get_lock", "stat")
  /\ reading' = [reading EXCEPT ![local[w].rw] = @ \cup {w}]
  /\ UNCHANGED <<process, queue, num_working, table, writing, files, network,
                 audit, local>>

reader_lock(w) ==
  /\ GoTo(w, "get_lock", "stat")
  /\ writing[local[w].rw] = {}
  /\ reading' = [reading EXCEPT ![local[w].rw] = @ \cup {w}]
  /\ UNCHANGED <<process, queue, num_working, table, writing, files, network,
                 audit, local>>

Stat(w) ==
  /\ \/ /\ GoTo(w, "stat", "get_unlock")
        /\ Kind(Uri(w)) = "absent"
        /\ conn_send_response(w, 404, None)
        /\ Set(w, "res", 404)
     \/ /\ GoTo(w, "stat", "get_unlock")
        /\ Kind(Uri(w)) \in {"dir", "unreadable"}
        /\ conn_send_response(w, 403, None)
        /\ Set(w, "res", 403)
     \/ /\ GoTo(w, "stat", "open")
        /\ Kind(Uri(w)) \in {"old", "whole", "torn"}
        /\ Set(w, "stat", files[Uri(w)])
        /\ UNCHANGED <<reply, cut>>
  /\ UNCHANGED <<process, queue, num_working, table, urilock, files, request,
                 closed, audit>>

\* Slip: handle_get returns OK whether or not the file could be opened.
OpenAndSend_ReturnsOk(w) ==
  /\ GoTo(w, "open", "get_unlock")
  /\ Set(w, "res", 200)
  /\ \/ conn_send_response(w, 200, files[Uri(w)])
     \/ "open" \in Faults /\ \E code \in {403, 500} : conn_send_response(w, code, None)
  /\ UNCHANGED <<process, queue, num_working, table, urilock, files, request,
                 closed, audit>>

\* A file is never written after the rename that installs it, so what is
\* sent is fixed when it is opened.  What conn_send_file returns is dropped.
\* open fails with EACCES (403) or otherwise (500).
OpenAndSend(w) ==
  /\ GoTo(w, "open", "get_unlock")
  /\ \/ /\ conn_send_response(w, 200, files[Uri(w)])
        /\ Set(w, "res", 200)
     \/ /\ "open" \in Faults
        /\ \E code \in {403, 500} :
             conn_send_response(w, code, None) /\ Set(w, "res", code)
  /\ UNCHANGED <<process, queue, num_working, table, urilock, files, request,
                 closed, audit>>

\* The rwlock unlocked is the one that job_find_uri finds, before the slot
\* is given back.
job_reader_unlock_uri(w) ==
  /\ GoTo(w, "get_unlock", "audit")
  /\ reading' = [reading EXCEPT ![First(job_find_uri(Uri(w)))] = @ \ {w}]
  /\ job_return_lock(Uri(w))
  /\ UNCHANGED <<process, queue, num_working, writing, files, network, audit, local>>

-----------------------------------------------------------------------------
(* PUT: handle_put *)
MakeTemp(w) ==
  /\ \/ /\ GoTo(w, "mkstemp", "recv")
        /\ UNCHANGED local
     \/ /\ "mkstemp" \in Faults
        /\ GoTo(w, "mkstemp", "respond")
        /\ Set(w, "res", 500)
  /\ UNCHANGED <<process, queue, num_working, table, urilock, files, network, audit>>

conn_recv_file(w) ==
  /\ GoTo(w, "recv", "put_slot")
  /\ \/ Set(w, "temp", "whole")
     \/ /\ "recv" \in Faults
        /\ local' = [local EXCEPT ![w].temp = "torn", ![w].res = 500]
  /\ UNCHANGED <<process, queue, num_working, table, urilock, files, network, audit>>

PutSlot(w) ==
  /\ GoTo(w, "put_slot", "put_lock")
  /\ job_get_lock(w, Uri(w))
  /\ UNCHANGED <<process, queue, num_working, urilock, files, network, audit>>

\* Slip: a PUT takes the lock as a reader.
writer_lock_AsReader(w) ==
  /\ GoTo(w, "put_lock", "access")
  /\ writing[local[w].rw] = {}
  /\ reading' = [reading EXCEPT ![local[w].rw] = @ \cup {w}]
  /\ UNCHANGED <<process, queue, num_working, table, writing, files, network,
                 audit, local>>

writer_lock(w) ==
  /\ GoTo(w, "put_lock", "access")
  /\ reading[local[w].rw] \cup writing[local[w].rw] = {}
  /\ writing' = [writing EXCEPT ![local[w].rw] = {w}]
  /\ UNCHANGED <<process, queue, num_working, table, reading, files, network,
                 audit, local>>

Access(w) ==
  /\ GoTo(w, "access", "rename")
  /\ Set(w, "existed", Kind(Uri(w)) # "absent")
  /\ UNCHANGED <<process, queue, num_working, table, urilock, files, network, audit>>

\* With what follows of the worker's own: res after a rename that worked.
Rename(w) ==
  /\ GoTo(w, "rename", "put_unlock")
  /\ Kind(Uri(w)) # "dir"
  /\ files' = [files EXCEPT ![Uri(w)] = <<local[w].temp, local[w].conn>>]
  /\ Set(w, "res", CASE local[w].res # None -> local[w].res
                     [] local[w].res = None /\ local[w].existed -> 200
                     [] OTHER -> 201)
  /\ UNCHANGED <<process, queue, num_working, table, urilock, network, audit>>

\* EISDIR gives 403; other errors 403 or 500.  unlink removes the temporary.
RenameFails(w) ==
  /\ GoTo(w, "rename", "put_unlock")
  /\ \/ Kind(Uri(w)) = "dir" /\ Set(w, "res", 403)
     \/ "rename" \in Faults /\ \E code \in {403, 500} : Set(w, "res", code)
  /\ UNCHANGED <<process, queue, num_working, table, urilock, files, network, audit>>

\* Slip: the slot is given back and its rwlock kept.
job_writer_unlock_uri_Keeps(w) ==
  /\ GoTo(w, "put_unlock", "respond")
  /\ job_return_lock(Uri(w))
  /\ UNCHANGED <<process, queue, num_working, urilock, files, network, audit, local>>

job_writer_unlock_uri(w) ==
  /\ GoTo(w, "put_unlock", "respond")
  /\ writing' = [writing EXCEPT ![First(job_find_uri(Uri(w)))] = @ \ {w}]
  /\ job_return_lock(Uri(w))
  /\ UNCHANGED <<process, queue, num_working, reading, files, network, audit, local>>

Respond(w) ==
  /\ GoTo(w, "respond", "audit")
  /\ conn_send_response(w, local[w].res, None)
  /\ UNCHANGED <<process, queue, num_working, table, urilock, files, request,
                 closed, audit, local>>

-----------------------------------------------------------------------------
(* The end of handle_request *)
Audit(w) ==
  /\ GoTo(w, "audit", "close")
  /\ local[w].res # None
  /\ audit' = Append(audit, [conn |-> local[w].conn, code |-> local[w].res])
  /\ UNCHANGED <<process, queue, num_working, table, urilock, files, network, local>>

\* response_get_code(NULL) reads through the null pointer.
AuditCrashes(w) ==
  /\ Running /\ pc[w] = "audit"
  /\ local[w].res = None
  /\ main' = "crashed"
  /\ UNCHANGED <<created, connfd, queue, num_working, table, urilock, files,
                 network, audit, pc, local>>

Close(w) ==
  /\ GoTo(w, "close", "end")
  /\ closed' = closed \cup {local[w].conn}
  /\ UNCHANGED <<process, queue, num_working, table, urilock, files, request,
                 reply, cut, audit, local>>

job_end(w) ==
  /\ GoTo(w, "end", "pop")
  /\ num_working' = num_working - 1
  /\ local' = [local EXCEPT ![w] = NoLocals]
  /\ UNCHANGED <<process, queue, table, urilock, files, network, audit>>

-----------------------------------------------------------------------------
WorkerStep(w) ==
  \/ job_pop(w) \/ job_start(w)
  \/ ParseMalformed(w) \/ ParseOther(w) \/ ParseOk(w)
  \/ GetSlot(w) \/ reader_lock(w) \/ Stat(w) \/ OpenAndSend(w)
  \/ job_reader_unlock_uri(w)
  \/ MakeTemp(w) \/ PutSlot(w) \/ writer_lock(w) \/ Access(w) \/ Rename(w)
  \/ RenameFails(w) \/ job_writer_unlock_uri(w) \/ Respond(w)
  \/ Audit(w) \/ AuditCrashes(w) \/ Close(w) \/ job_end(w)

Next ==
  \/ CreateFails \/ job_push
  \/ \E c \in Conns : ls_accept(c)
  \/ \E w \in Workers : CreateWorker(w) \/ WorkerStep(w) \/ conn_recv_file(w)

Spec == Init /\ [][Next]_vars

(***************************************************************************)
(* main and the workers are scheduled; a call into the file system or the  *)
(* network returns, but for the body of a Slow client, which may never     *)
(* come.  Clients need not connect.                                        *)
(***************************************************************************)
Fairness ==
  /\ WF_vars(job_push)
  /\ \A w \in Workers :
       /\ WF_vars(CreateWorker(w))
       /\ WF_vars(WorkerStep(w))
       /\ WF_vars(conn_recv_file(w) /\ local[w].conn \notin Slow)

FairSpec == Spec /\ Fairness
=============================================================================

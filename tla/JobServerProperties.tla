------------------------- MODULE JobServerProperties -------------------------
(***************************************************************************)
(* What makes the multi-threaded server correct.                           *)
(***************************************************************************)
EXTENDS JobServer

UsesSlot == {"get_lock", "stat", "open", "get_unlock",
             "put_lock", "access", "rename", "put_unlock"}
HoldsForReading == {"stat", "open", "get_unlock"}
HoldsForWriting == {"access", "rename", "put_unlock"}

Contents == (Kinds \X {None}) \cup ({"whole", "torn"} \X Conns)
Codes    == {200, 201, 400, 403, 404, 500, 501}

ASSUME NoReplyAssumption ==
  /\ None \notin Codes
  /\ None \notin [code : Codes, content : Contents \cup {None}]

(* The server's variables hold values of their types.                      *)
TypeOK ==
  /\ main \in {"creating", "accepting", "deleted", "crashed"}
  /\ created \subseteq Workers
  /\ connfd \in Conns \cup {None}
  /\ queue \in Seq(Conns) /\ Len(queue) <= QueueSize
  /\ num_working \in Nat
  /\ uri_list \in [Slots -> Uris \cup {None}]
  /\ uri_count \in [Slots -> Nat]
  /\ reading \in [Slots -> SUBSET Workers]
  /\ writing \in [Slots -> SUBSET Workers]
  /\ files \in [Uris -> Contents]
  /\ request \in [Conns -> [method : Methods, uri : Uris] \cup {None}]
  /\ reply \in [Conns -> [code : Codes, content : Contents \cup {None}] \cup {None}]
  /\ cut \subseteq Conns /\ closed \subseteq Conns
  /\ audit \in Seq([conn : Conns, code : Codes])
  /\ local \in [Workers ->
       [conn : Conns \cup {None}, rw : Slots \cup {None}, res : Codes \cup {None},
        stat : Contents \cup {None}, temp : {"whole", "torn", None},
        existed : BOOLEAN]]

(* The lock table: the count of a slot is the number of workers between    *)
(* job_get_lock and job_return_lock with its URI, no URI has two slots,    *)
(* and the slot a worker was given is still the one its URI is found at    *)
(* when it unlocks, however many times slots were recycled in between.     *)
UriTable ==
  /\ \A i \in Slots :
       /\ uri_count[i] = Cardinality({w \in Workers :
                           pc[w] \in UsesSlot /\ local[w].rw = i})
       /\ uri_list[i] = None <=> uri_count[i] = 0
  /\ \A i, j \in Slots : uri_list[i] = uri_list[j] /\ uri_list[i] # None => i = j
  /\ \A w \in Workers : pc[w] \in UsesSlot => uri_list[local[w].rw] = Uri(w)

(* A worker that comes to job_get_lock finds the slot of its URI or a free *)
(* one: as many slots as workers are enough, and idx is never -1.          *)
SlotForEveryUri ==
  \A w \in Workers : pc[w] \in {"get_slot", "put_slot"} =>
    job_find_uri(Uri(w)) \cup FreeSlots # {}

(* While a worker is between the lock and the unlock of a PUT, no other    *)
(* worker is between those of a GET or a PUT of the same URI, whatever     *)
(* slots the two were given.                                               *)
FileExclusion ==
  \A v, w \in Workers :
    /\ v # w
    /\ pc[v] \in HoldsForWriting
    /\ pc[w] \in HoldsForReading \cup HoldsForWriting
    => Uri(v) # Uri(w)

(* A GET sends the file that it took the size of: what stat saw is what    *)
(* open opens, although a PUT of the URI may be on its way.                *)
SizeMatchesFile ==
  \A w \in Workers : pc[w] = "open" => local[w].stat = files[Uri(w)]

(* One line of audit per connection handled, with the code of the answer   *)
(* that the server set out to send, whether or not all of it reached the   *)
(* client (a GET whose conn_send_file fails is logged 200): a closed       *)
(* connection has exactly one line, an open one none before its answer.    *)
AuditMatchesReplies ==
  /\ \A c \in closed : Cardinality({i \in DOMAIN audit : audit[i].conn = c}) = 1
  /\ \A i \in DOMAIN audit :
       /\ reply[audit[i].conn] # None
       /\ reply[audit[i].conn].code = audit[i].code
  /\ \A i, j \in DOMAIN audit : audit[i].conn = audit[j].conn => i = j

-----------------------------------------------------------------------------
\* What is decided for a connection: set out to be sent, or held by the
\* worker that has done all it does to the file.
Decided(w) ==
  \/ pc[w] \in {"put_unlock", "respond"}
  \/ pc[w] \in {"get_unlock", "audit", "close"}

Outcome ==
  [c \in Conns |->
     IF reply[c] # None THEN reply[c]
     ELSE IF \E w \in Workers : local[w].conn = c /\ Decided(w)
     THEN LET w == CHOOSE w \in Workers : local[w].conn = c
          IN  Reply(local[w].res, None)
     ELSE None]

Store == INSTANCE FileStore WITH outcome <- Outcome

(* However the steps of the workers interleave, and whichever calls fail,  *)
(* each request takes effect at one instant: GETs and PUTs of a URI behave *)
(* as if run one at a time, each doing what FileStore says, which for an   *)
(* upload that breaks off is to install what came of it (Tear).            *)
ImplementsFileStore == Store!Spec

(* README.md: the server ensures "Atomic request processing" and "No race  *)
(* conditions or data corruption".  A PUT that is answered 500, failed for *)
(* its client, has stored nothing of its own.                              *)
FailedPutsStoreNothing ==
  \A c \in Conns :
    /\ request[c] # None /\ reply[c] # None
    /\ request[c].method = "PUT" /\ reply[c].code = 500
    => \A u \in Uris : files[u][2] # c

(* Every connection accepted is handled to its end, even though the upload *)
(* of a Slow client never ends: it keeps its worker, but no lock that      *)
(* another request needs.                                                  *)
EveryConnectionCloses ==
  \A c \in Conns \ Slow : request[c] # None ~> (c \in closed \/ ~Running)

-----------------------------------------------------------------------------
(* README.md: the audit log "Defines total ordering (linearization) of     *)
(* requests".  Once every request has its line, the requests, run in the   *)
(* order of the lines, give the codes logged: of a file that was not there *)
(* at first, a GET finds it, and a PUT replaces it, just when an earlier   *)
(* line is a PUT that created it.                                          *)
LogExplains(i) ==
  LET asked == request[audit[i].conn]
      put(j) == /\ request[audit[j].conn] = [method |-> "PUT", uri |-> asked.uri]
                /\ audit[j].code \in {200, 201}
      there == \E j \in 1 .. (i - 1) : put(j)
  IN  audit[i].code = IF there THEN 200
                      ELSE IF asked.method = "PUT" THEN 201 ELSE 404

AuditIsLinearization ==
  {c \in Conns : request[c] # None} = {audit[i].conn : i \in DOMAIN audit}
    => \A i \in DOMAIN audit : LogExplains(i)
=============================================================================

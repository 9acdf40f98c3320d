--------------------------- MODULE JobServerProofs ---------------------------
(***************************************************************************)
(* Proofs about the multi-threaded server of httpserver.c, for any finite  *)
(* set of workers, any connections, URIs, file system and failures.        *)
(*                                                                         *)
(* Why two requests never meet in a file.  A slot of the lock table keeps  *)
(* its URI for as long as its count is not 0, and the count is the number  *)
(* of workers that were given the slot and have not returned it            *)
(* (UriTable).  So the rwlock a worker unlocks is the one it locked, and   *)
(* workers with one URI contend for one rwlock (LocksAreHeld).             *)
(***************************************************************************)
EXTENDS JobServerProperties, FiniteSetTheorems, SequenceTheorems, FunctionTheorems,
        WellFoundedInduction, TLAPS

Idle   == {"not created", "pop"}
Places == Idle \cup UsesSlot \cup
          {"start", "parse", "get_slot", "mkstemp", "recv", "put_slot",
           "respond", "audit", "close", "end"}

HasTemp == {"put_slot", "put_lock", "access", "rename"}
HasCode == {"put_unlock", "respond", "close", "end"}

\* What a worker at q has in its variables l: a connection that was accepted,
\* a slot, an upload, an answer.
Fits(q, l) ==
  /\ q \notin Idle => l.conn \in Conns /\ request[l.conn] # None
  /\ q \in UsesSlot => l.rw \in Slots
  /\ q \in HasTemp => l.temp # None
  /\ q \in HasCode => l.res # None

WorkersAreSound ==
  /\ pc \in [Workers -> Places]
  /\ \A w \in Workers : /\ w \in created <=> pc[w] # "not created"
                        /\ Fits(pc[w], local[w])

\* What waits for a worker was accepted.
QueueIsWaiting ==
  /\ connfd # None => request[connfd] # None
  /\ \A k \in DOMAIN queue : request[queue[k]] # None

\* The workers between job_start and job_end.
Working == {w \in Workers : pc[w] \notin Idle \cup {"start"}}

WorkersAreCounted == num_working = Cardinality(Working)

\* Who is in an rwlock, by the place it is at; writers are alone.
LocksAreHeld ==
  \A i \in Slots :
    /\ reading[i] = {w \in Workers : pc[w] \in HoldsForReading /\ local[w].rw = i}
    /\ writing[i] = {w \in Workers : pc[w] \in HoldsForWriting /\ local[w].rw = i}
    /\ writing[i] # {} => reading[i] = {}
    /\ \A v, w \in writing[i] : v = w

\* Types and the table are inductive together: a count or num_working that
\* went below zero would be out of its type.
TypeInv == TypeOK /\ WorkersAreSound /\ QueueIsWaiting /\ WorkersAreCounted /\ UriTable

IInv == TypeInv /\ LocksAreHeld /\ SizeMatchesFile

-----------------------------------------------------------------------------
(* Slots and the least of them                                             *)
LEMMA SlotsAreFinite ==
  /\ Cardinality(Workers) \in Nat \ {0}
  /\ IsFiniteSet(Slots) /\ Cardinality(Slots) = Cardinality(Workers)
  /\ Slots \subseteq Nat
  <1>1. Cardinality(Workers) \in Nat \ {0}
    BY ServerAssumption, FS_CardinalityType, FS_EmptySet
  <1>2. /\ IsFiniteSet(Slots)
        /\ Cardinality(Slots) = IF 0 > Cardinality(Workers) - 1 THEN 0
                                ELSE Cardinality(Workers) - 1 - 0 + 1
    BY <1>1, FS_Interval, SMTT(30) DEF Slots
  <1>3. QED
    BY <1>1, <1>2 DEF Slots

LEMMA FirstIsThere ==
  ASSUME NEW S, S \subseteq Slots, S # {}
  PROVE  First(S) \in S
  <1>1. S \subseteq Nat
    BY SlotsAreFinite
  <1>2. PICK i \in S : \A j \in S : ~ (<<j, i>> \in OpToRel(<, Nat))
    BY <1>1, NatLessThanWellFounded, WFMin
  <1>3. \A j \in S : i <= j
    <2>1. \A j \in S : ~ (j < i)
      BY <1>1, <1>2 DEF OpToRel
    <2>2. QED
      BY <1>1, <2>1
  <1>4. QED
    BY <1>3 DEF First

LEMMA FirstOfOne ==
  ASSUME NEW i \in Slots
  PROVE  First({i}) = i
  BY FirstIsThere

\* Where a worker's URI is found is the slot the worker was given.
LEMMA SlotIsFound ==
  ASSUME TypeOK, WorkersAreSound, UriTable, NEW w \in Workers, pc[w] \in UsesSlot
  PROVE  /\ job_find_uri(Uri(w)) = {local[w].rw}
         /\ First(job_find_uri(Uri(w))) = local[w].rw
         /\ local[w].rw \in Slots /\ uri_list[local[w].rw] = Uri(w)
         /\ Uri(w) # None /\ Uri(w) \in Uris
  <1>1. local[w].rw \in Slots /\ uri_list[local[w].rw] = Uri(w)
    BY DEF WorkersAreSound, Fits, UriTable
  <1>2. Uri(w) \in Uris /\ Uri(w) # None
    <2>1. local[w].conn \in Conns /\ request[local[w].conn] # None
      BY DEF WorkersAreSound, Fits, UsesSlot, Idle
    <2>2. request[local[w].conn] \in [method : Methods, uri : Uris]
      BY <2>1 DEF TypeOK
    <2>3. QED
      BY <2>2, ServerAssumption DEF Uri, Asked
  <1>3. job_find_uri(Uri(w)) = {local[w].rw}
    BY <1>1, <1>2 DEF UriTable, job_find_uri
  <1>4. QED
    BY <1>1, <1>2, <1>3, FirstOfOne

\* A worker that looks for a slot gets the one that has its URI, or a free one.
Taken(u) == First(IF job_find_uri(u) # {} THEN job_find_uri(u) ELSE FreeSlots)

LEMMA SlotIsTaken ==
  ASSUME NEW u, job_find_uri(u) \cup FreeSlots # {}
  PROVE  /\ Taken(u) \in Slots
         /\ job_find_uri(u) # {} => uri_list[Taken(u)] = u
         /\ job_find_uri(u) = {} => uri_count[Taken(u)] = 0
  <1>1. job_find_uri(u) \subseteq Slots /\ FreeSlots \subseteq Slots
    BY DEF job_find_uri, FreeSlots
  <1>2. CASE job_find_uri(u) # {}
    <2>1. Taken(u) \in job_find_uri(u)
      BY <1>1, <1>2, FirstIsThere DEF Taken
    <2>2. QED
      BY <1>1, <1>2, <2>1 DEF job_find_uri
  <1>3. CASE job_find_uri(u) = {}
    <2>1. Taken(u) \in FreeSlots
      BY <1>1, <1>3, FirstIsThere DEF Taken
    <2>2. QED
      BY <1>1, <1>3, <2>1 DEF FreeSlots
  <1>4. QED
    BY <1>2, <1>3

Locals == [conn : Conns \cup {None}, rw : Slots \cup {None}, res : Codes \cup {None},
           stat : Contents \cup {None}, temp : {"whole", "torn", None},
           existed : BOOLEAN]

LEMMA SlotIsGot ==
  ASSUME TypeOK, NEW w \in Workers, NEW u, job_get_lock(w, u)
  PROVE  /\ Taken(u) \in Slots
         /\ job_find_uri(u) # {} => uri_list[Taken(u)] = u
         /\ job_find_uri(u) = {} => uri_count[Taken(u)] = 0
         /\ uri_list'  = [uri_list EXCEPT ![Taken(u)] = u]
         /\ uri_count' = [uri_count EXCEPT ![Taken(u)] = uri_count[Taken(u)] + 1]
         /\ local' = [local EXCEPT ![w].rw = Taken(u)]
  <1>1. job_find_uri(u) \cup FreeSlots # {}
    BY DEF job_get_lock
  <1>2. local \in [Workers -> Locals]
    BY DEF TypeOK, Locals
  <1>3. Set(w, "rw", Taken(u))
    BY DEF job_get_lock, Taken
  <1>4. local' = [local EXCEPT ![w].rw = Taken(u)]
    BY <1>2, <1>3 DEF Set, Locals
  <1>5. /\ uri_list'  = [uri_list EXCEPT ![Taken(u)] = u]
        /\ uri_count' = [uri_count EXCEPT ![Taken(u)] = @ + 1]
    BY DEF job_get_lock, Taken
  <1>6. QED
    BY <1>1, <1>4, <1>5, SlotIsTaken

-----------------------------------------------------------------------------
(* What a step does to its worker                                          *)
WithConn(l, x)    == [l EXCEPT !.conn = x]
WithSlot(l, x)    == [l EXCEPT !.rw = x]
WithRes(l, x)     == [l EXCEPT !.res = x]
WithStat(l, x)    == [l EXCEPT !.stat = x]
WithTemp(l, x)    == [l EXCEPT !.temp = x]
WithExisted(l, x) == [l EXCEPT !.existed = x]

LEMMA ConnSet ==
  ASSUME NEW l \in Locals, NEW x \in Conns
  PROVE  /\ WithConn(l, x) \in Locals /\ WithConn(l, x).conn = x
         /\ WithConn(l, x).rw = l.rw /\ WithConn(l, x).res = l.res
         /\ WithConn(l, x).stat = l.stat /\ WithConn(l, x).temp = l.temp
         /\ WithConn(l, x).existed = l.existed
  BY DEF WithConn, Locals

LEMMA SlotSet ==
  ASSUME NEW l \in Locals, NEW x \in Slots
  PROVE  /\ WithSlot(l, x) \in Locals /\ WithSlot(l, x).rw = x
         /\ WithSlot(l, x).conn = l.conn /\ WithSlot(l, x).res = l.res
         /\ WithSlot(l, x).stat = l.stat /\ WithSlot(l, x).temp = l.temp
         /\ WithSlot(l, x).existed = l.existed
  BY DEF WithSlot, Locals

LEMMA ResSet ==
  ASSUME NEW l \in Locals, NEW x \in Codes \cup {None}
  PROVE  /\ WithRes(l, x) \in Locals /\ WithRes(l, x).res = x
         /\ WithRes(l, x).conn = l.conn /\ WithRes(l, x).rw = l.rw
         /\ WithRes(l, x).stat = l.stat /\ WithRes(l, x).temp = l.temp
         /\ WithRes(l, x).existed = l.existed
  BY DEF WithRes, Locals

LEMMA StatSet ==
  ASSUME NEW l \in Locals, NEW x \in Contents
  PROVE  /\ WithStat(l, x) \in Locals /\ WithStat(l, x).stat = x
         /\ WithStat(l, x).conn = l.conn /\ WithStat(l, x).rw = l.rw
         /\ WithStat(l, x).res = l.res /\ WithStat(l, x).temp = l.temp
         /\ WithStat(l, x).existed = l.existed
  BY DEF WithStat, Locals

LEMMA TempSet ==
  ASSUME NEW l \in Locals, NEW x \in {"whole", "torn"}
  PROVE  /\ WithTemp(l, x) \in Locals /\ WithTemp(l, x).temp = x
         /\ WithTemp(l, x).conn = l.conn /\ WithTemp(l, x).rw = l.rw
         /\ WithTemp(l, x).res = l.res /\ WithTemp(l, x).stat = l.stat
         /\ WithTemp(l, x).existed = l.existed
  BY DEF WithTemp, Locals

LEMMA ExistedSet ==
  ASSUME NEW l \in Locals, NEW x \in BOOLEAN
  PROVE  /\ WithExisted(l, x) \in Locals /\ WithExisted(l, x).existed = x
         /\ WithExisted(l, x).conn = l.conn /\ WithExisted(l, x).rw = l.rw
         /\ WithExisted(l, x).res = l.res /\ WithExisted(l, x).stat = l.stat
         /\ WithExisted(l, x).temp = l.temp
  BY DEF WithExisted, Locals

LEMMA InitSound == Init => TypeOK /\ WorkersAreSound
  <1> SUFFICES ASSUME Init
               PROVE  TypeOK /\ WorkersAreSound
    OBVIOUS
  <1>1. TypeOK
    <2>1. queue \in Seq(Conns) /\ Len(queue) <= QueueSize
      <3>1. queue = <<>> /\ QueueSize \in Nat
        BY ServerAssumption DEF Init
      <3>2. QED
        BY <3>1
    <2>2. audit \in Seq([conn : Conns, code : Codes])
      <3>1. audit = <<>>
        BY DEF Init
      <3>2. QED
        BY <3>1
    <2>3. files \in [Uris -> Contents]
      BY DEF Init, Contents
    <2>4. QED
      BY <2>1, <2>2, <2>3 DEF Init, TypeOK, NoLocals
  <1>2. WorkersAreSound
    BY DEF Init, WorkersAreSound, Fits, Places, Idle, UsesSlot, HasTemp, HasCode
  <1>3. QED
    BY <1>1, <1>2

Goes(w, p, q, l) ==
  /\ pc[w] = p /\ pc' = [pc EXCEPT ![w] = q]
  /\ local' = [local EXCEPT ![w] = l]

LEMMA GoToIs ==
  ASSUME TypeOK, NEW w \in Workers, NEW p, NEW q, GoTo(w, p, q), NEW x
  PROVE  /\ UNCHANGED local => Goes(w, p, q, local[w])
         /\ Set(w, "conn", x) => Goes(w, p, q, WithConn(local[w], x))
         /\ Set(w, "rw", x) => Goes(w, p, q, WithSlot(local[w], x))
         /\ Set(w, "res", x) => Goes(w, p, q, WithRes(local[w], x))
         /\ Set(w, "stat", x) => Goes(w, p, q, WithStat(local[w], x))
         /\ Set(w, "temp", x) => Goes(w, p, q, WithTemp(local[w], x))
         /\ Set(w, "existed", x) => Goes(w, p, q, WithExisted(local[w], x))
  <1>1. local \in [Workers -> Locals]
    BY DEF TypeOK, Locals
  <1>2. pc[w] = p /\ pc' = [pc EXCEPT ![w] = q]
    BY DEF GoTo
  <1>3. QED
    BY <1>1, <1>2 DEF Set, Goes, Locals, WithConn, WithSlot, WithRes, WithStat,
                      WithTemp, WithExisted

Existed(w) == Kind(Uri(w)) # "absent"

\* The code that a PUT ends with when its rename works.
PutCode(w) == CASE local[w].res # None -> local[w].res
                [] local[w].res = None /\ local[w].existed -> 200
                [] OTHER -> 201

LEMMA DispatchEffects ==
  ASSUME TypeOK, NEW w \in Workers
  PROVE  /\ job_pop(w) => Goes(w, "pop", "start", WithConn(local[w], Head(queue)))
         /\ job_start(w) => Goes(w, "start", "parse", local[w])
         /\ ParseMalformed(w) => Goes(w, "parse", "audit", WithRes(local[w], 400))
         /\ ParseOther(w) => Goes(w, "parse", "audit", WithRes(local[w], None))
         /\ ParseOk(w) =>
             \/ Goes(w, "parse", "get_slot", local[w])
             \/ Goes(w, "parse", "mkstemp", local[w])
  <1>1. ASSUME job_pop(w)
        PROVE  Goes(w, "pop", "start", WithConn(local[w], Head(queue)))
    BY <1>1, GoToIs DEF job_pop
  <1>2. ASSUME job_start(w)
        PROVE  Goes(w, "start", "parse", local[w])
    BY <1>2, GoToIs DEF job_start
  <1>3. ASSUME ParseMalformed(w)
        PROVE  Goes(w, "parse", "audit", WithRes(local[w], 400))
    BY <1>3, GoToIs DEF ParseMalformed
  <1>4. ASSUME ParseOther(w)
        PROVE  Goes(w, "parse", "audit", WithRes(local[w], None))
    BY <1>4, GoToIs DEF ParseOther
  <1>5. ASSUME ParseOk(w)
        PROVE  \/ Goes(w, "parse", "get_slot", local[w])
               \/ Goes(w, "parse", "mkstemp", local[w])
    BY <1>5, GoToIs DEF ParseOk
  <1>6. QED
    BY <1>1, <1>2, <1>3, <1>4, <1>5

LEMMA GetEffects ==
  ASSUME TypeOK, NEW w \in Workers
  PROVE  /\ GetSlot(w) =>
             Goes(w, "get_slot", "get_lock", WithSlot(local[w], Taken(Uri(w))))
         /\ reader_lock(w) => Goes(w, "get_lock", "stat", local[w])
         /\ Stat(w) =>
             \/ Goes(w, "stat", "get_unlock", WithRes(local[w], 404))
             \/ Goes(w, "stat", "get_unlock", WithRes(local[w], 403))
             \/ Goes(w, "stat", "open", WithStat(local[w], files[Uri(w)]))
         /\ OpenAndSend(w) =>
             \E code \in {200, 403, 500} :
               Goes(w, "open", "get_unlock", WithRes(local[w], code))
         /\ job_reader_unlock_uri(w) => Goes(w, "get_unlock", "audit", local[w])
  <1>1. ASSUME GetSlot(w)
        PROVE  Goes(w, "get_slot", "get_lock", WithSlot(local[w], Taken(Uri(w))))
    BY <1>1, GoToIs DEF GetSlot, job_get_lock, Taken
  <1>2. ASSUME reader_lock(w)
        PROVE  Goes(w, "get_lock", "stat", local[w])
    BY <1>2, GoToIs DEF reader_lock
  <1>3. ASSUME Stat(w)
        PROVE  \/ Goes(w, "stat", "get_unlock", WithRes(local[w], 404))
               \/ Goes(w, "stat", "get_unlock", WithRes(local[w], 403))
               \/ Goes(w, "stat", "open", WithStat(local[w], files[Uri(w)]))
    BY <1>3, GoToIs DEF Stat
  <1>4. ASSUME OpenAndSend(w)
        PROVE  \E code \in {200, 403, 500} :
                 Goes(w, "open", "get_unlock", WithRes(local[w], code))
    <2>1. PICK code \in {200, 403, 500} : GoTo(w, "open", "get_unlock") /\ Set(w, "res", code)
      BY <1>4 DEF OpenAndSend
    <2>2. Goes(w, "open", "get_unlock", WithRes(local[w], code))
      BY <2>1, GoToIs
    <2>3. QED
      BY <2>2
  <1>5. ASSUME job_reader_unlock_uri(w)
        PROVE  Goes(w, "get_unlock", "audit", local[w])
    BY <1>5, GoToIs DEF job_reader_unlock_uri
  <1>6. QED
    BY <1>1, <1>2, <1>3, <1>4, <1>5

LEMMA PutEffects ==
  ASSUME TypeOK, NEW w \in Workers
  PROVE  /\ MakeTemp(w) =>
             \/ Goes(w, "mkstemp", "recv", local[w])
             \/ /\ "mkstemp" \in Faults
                /\ Goes(w, "mkstemp", "respond", WithRes(local[w], 500))
         /\ conn_recv_file(w) =>
             \/ Goes(w, "recv", "put_slot", WithTemp(local[w], "whole"))
             \/ /\ "recv" \in Faults
                /\ Goes(w, "recv", "put_slot", WithRes(WithTemp(local[w], "torn"), 500))
         /\ PutSlot(w) =>
             Goes(w, "put_slot", "put_lock", WithSlot(local[w], Taken(Uri(w))))
         /\ writer_lock(w) => Goes(w, "put_lock", "access", local[w])
         /\ Access(w) =>
             Goes(w, "access", "rename", WithExisted(local[w], Existed(w)))
         /\ Rename(w) =>
             Goes(w, "rename", "put_unlock", WithRes(local[w], PutCode(w)))
         /\ RenameFails(w) =>
             \E code \in {403, 500} :
               /\ Goes(w, "rename", "put_unlock", WithRes(local[w], code))
               /\ "rename" \in Faults \/ (Kind(Uri(w)) = "dir" /\ code = 403)
         /\ job_writer_unlock_uri(w) => Goes(w, "put_unlock", "respond", local[w])
         /\ Respond(w) => Goes(w, "respond", "audit", local[w])
  <1>1. ASSUME MakeTemp(w)
        PROVE  \/ Goes(w, "mkstemp", "recv", local[w])
               \/ /\ "mkstemp" \in Faults
                  /\ Goes(w, "mkstemp", "respond", WithRes(local[w], 500))
    <2>1. CASE GoTo(w, "mkstemp", "recv") /\ UNCHANGED local
      BY <2>1, GoToIs
    <2>2. CASE GoTo(w, "mkstemp", "respond") /\ Set(w, "res", 500) /\ "mkstemp" \in Faults
      BY <2>2, GoToIs
    <2>3. QED
      BY <1>1, <2>1, <2>2 DEF MakeTemp
  <1>2. ASSUME conn_recv_file(w)
        PROVE  \/ Goes(w, "recv", "put_slot", WithTemp(local[w], "whole"))
               \/ /\ "recv" \in Faults
                  /\ Goes(w, "recv", "put_slot", WithRes(WithTemp(local[w], "torn"), 500))
    <2>1. GoTo(w, "recv", "put_slot")
      BY <1>2 DEF conn_recv_file
    <2>2. CASE Set(w, "temp", "whole")
      BY <2>1, <2>2, GoToIs
    <2>3. CASE "recv" \in Faults /\ local' = [local EXCEPT ![w].temp = "torn", ![w].res = 500]
      <3>1. local \in [Workers -> Locals]
        BY DEF TypeOK, Locals
      <3>2. local' = [local EXCEPT ![w] = WithRes(WithTemp(local[w], "torn"), 500)]
        BY <2>3, <3>1, ZenonT(60) DEF Locals, WithRes, WithTemp
      <3>3. QED
        BY <2>1, <2>3, <3>2 DEF GoTo, Goes
    <2>4. QED
      BY <1>2, <2>2, <2>3 DEF conn_recv_file
  <1>3. ASSUME PutSlot(w)
        PROVE  Goes(w, "put_slot", "put_lock", WithSlot(local[w], Taken(Uri(w))))
    BY <1>3, GoToIs DEF PutSlot, job_get_lock, Taken
  <1>4. ASSUME writer_lock(w)
        PROVE  Goes(w, "put_lock", "access", local[w])
    BY <1>4, GoToIs DEF writer_lock
  <1>5. ASSUME Access(w)
        PROVE  Goes(w, "access", "rename", WithExisted(local[w], Existed(w)))
    <2>1. GoTo(w, "access", "rename") /\ Set(w, "existed", Existed(w))
      BY <1>5 DEF Access, Existed
    <2>2. QED
      BY <2>1, GoToIs
  <1>6. ASSUME Rename(w)
        PROVE  Goes(w, "rename", "put_unlock", WithRes(local[w], PutCode(w)))
    BY <1>6, GoToIs DEF Rename, PutCode
  <1>7. ASSUME RenameFails(w)
        PROVE  \E code \in {403, 500} :
                 /\ Goes(w, "rename", "put_unlock", WithRes(local[w], code))
                 /\ "rename" \in Faults \/ (Kind(Uri(w)) = "dir" /\ code = 403)
    <2>1. PICK code \in {403, 500} :
            /\ GoTo(w, "rename", "put_unlock") /\ Set(w, "res", code)
            /\ "rename" \in Faults \/ (Kind(Uri(w)) = "dir" /\ code = 403)
      BY <1>7 DEF RenameFails
    <2>2. Goes(w, "rename", "put_unlock", WithRes(local[w], code))
      BY <2>1, GoToIs
    <2>3. QED
      BY <2>1, <2>2
  <1>8. ASSUME job_writer_unlock_uri(w)
        PROVE  Goes(w, "put_unlock", "respond", local[w])
    BY <1>8, GoToIs DEF job_writer_unlock_uri
  <1>9. ASSUME Respond(w)
        PROVE  Goes(w, "respond", "audit", local[w])
    BY <1>9, GoToIs DEF Respond
  <1>10. QED
    BY <1>1, <1>2, <1>3, <1>4, <1>5, <1>6, <1>7, <1>8, <1>9

LEMMA EndEffects ==
  ASSUME TypeOK, NEW w \in Workers
  PROVE  /\ Audit(w) => Goes(w, "audit", "close", local[w])
         /\ Close(w) => Goes(w, "close", "end", local[w])
         /\ job_end(w) => Goes(w, "end", "pop", NoLocals)
  <1>1. ASSUME Audit(w)
        PROVE  Goes(w, "audit", "close", local[w])
    BY <1>1, GoToIs DEF Audit
  <1>2. ASSUME Close(w)
        PROVE  Goes(w, "close", "end", local[w])
    BY <1>2, GoToIs DEF Close
  <1>3. ASSUME job_end(w)
        PROVE  Goes(w, "end", "pop", NoLocals)
    BY <1>3 DEF job_end, GoTo, Goes
  <1>4. QED
    BY <1>1, <1>2, <1>3

-----------------------------------------------------------------------------
(* Workers stay sound                                                      *)

\* A worker goes on with what its next place asks for.
GoesOn(w) ==
  \E p, q \in Places \ {"not created"}, l \in Locals : Goes(w, p, q, l) /\ Fits(q, l)

LEMMA GoesOnIsSound ==
  ASSUME TypeOK, WorkersAreSound, NEW w \in Workers, GoesOn(w),
         request' = request, created' = created
  PROVE  WorkersAreSound' /\ local' \in [Workers -> Locals]
  <1>1. PICK p \in Places \ {"not created"}, q \in Places \ {"not created"}, l \in Locals :
          Goes(w, p, q, l) /\ Fits(q, l)
    BY DEF GoesOn
  <1>2. /\ local' \in [Workers -> Locals]
        /\ local'[w] = l /\ \A v \in Workers \ {w} : local'[v] = local[v]
    <2>1. local \in [Workers -> Locals]
      BY DEF TypeOK, Locals
    <2>2. QED
      BY <1>1, <2>1 DEF Goes
  <1>3. /\ pc' \in [Workers -> Places] /\ pc'[w] = q
        /\ \A v \in Workers \ {w} : pc'[v] = pc[v]
    BY <1>1 DEF WorkersAreSound, Goes
  <1>4. ASSUME NEW v \in Workers
        PROVE  (v \in created <=> pc[v] # "not created")' /\ Fits(pc[v], local[v])'
    <2>1. /\ v \in created <=> pc[v] # "not created"
          /\ Fits(pc[v], local[v])
      BY DEF WorkersAreSound
    <2>2. CASE v = w
      BY <1>1, <1>2, <1>3, <2>1, <2>2 DEF Fits, Goes
    <2>3. CASE v # w
      BY <1>2, <1>3, <2>1, <2>3 DEF Fits
    <2>4. QED
      BY <2>2, <2>3
  <1>5. QED
    BY <1>2, <1>3, <1>4 DEF WorkersAreSound

LEMMA GoesOnFrom ==
  ASSUME WorkersAreSound, NEW w \in Workers,
         NEW p \in Places \ {"not created"}, NEW q \in Places \ {"not created"},
         NEW l \in Locals, Goes(w, p, q, l), Fits(p, local[w]) => Fits(q, l)
  PROVE  GoesOn(w)
  BY DEF GoesOn, WorkersAreSound, Goes

LEMMA UriIsUri ==
  ASSUME TypeOK, WorkersAreSound, NEW w \in Workers, pc[w] \notin Idle
  PROVE  Uri(w) \in Uris /\ Uri(w) # None
  <1>1. local[w].conn \in Conns /\ request[local[w].conn] # None
    BY DEF WorkersAreSound, Fits
  <1>2. request[local[w].conn] \in [method : Methods, uri : Uris]
    BY <1>1 DEF TypeOK
  <1>3. QED
    BY <1>2, ServerAssumption DEF Uri, Asked

LEMMA HeadIsWaiting ==
  ASSUME TypeOK, QueueIsWaiting, queue # <<>>
  PROVE  Head(queue) \in Conns /\ request[Head(queue)] # None
  <1>1. queue \in Seq(Conns)
    BY DEF TypeOK
  <1>2. Head(queue) = queue[1] /\ 1 \in DOMAIN queue
    BY <1>1
  <1>3. QED
    BY <1>1, <1>2 DEF QueueIsWaiting

LEMMA WorkerGoesOn ==
  ASSUME TypeOK, WorkersAreSound, QueueIsWaiting, NEW w \in Workers,
         WorkerStep(w) \/ conn_recv_file(w), ~AuditCrashes(w)
  PROVE  GoesOn(w)
  <1>1. local[w] \in Locals
    BY DEF TypeOK, Locals
  <1> USE DEF Places, Idle, UsesSlot, HasTemp, HasCode
  <1>2. CASE job_pop(w)
    <2>1. Head(queue) \in Conns /\ request[Head(queue)] # None
      BY <1>2, HeadIsWaiting DEF job_pop
    <2>2. /\ WithConn(local[w], Head(queue)) \in Locals
          /\ Fits("pop", local[w]) => Fits("start", WithConn(local[w], Head(queue)))
      BY <1>1, <2>1, ConnSet DEF Fits
    <2>3. Goes(w, "pop", "start", WithConn(local[w], Head(queue)))
      BY <1>2, DispatchEffects
    <2>4. QED
      BY <1>1, <2>2, <2>3, GoesOnFrom
  <1>3. CASE job_start(w)
    <2>1. /\ local[w] \in Locals
          /\ Fits("start", local[w]) => Fits("parse", local[w])
      BY <1>1 DEF Fits
    <2>2. Goes(w, "start", "parse", local[w])
      BY <1>3, DispatchEffects
    <2>3. QED
      BY <1>1, <2>1, <2>2, GoesOnFrom
  <1>4. CASE ParseMalformed(w)
    <2>1. /\ WithRes(local[w], 400) \in Locals
          /\ Fits("parse", local[w]) => Fits("audit", WithRes(local[w], 400))
      BY <1>1, ResSet, NoReplyAssumption DEF Fits, Codes
    <2>2. Goes(w, "parse", "audit", WithRes(local[w], 400))
      BY <1>4, DispatchEffects
    <2>3. QED
      BY <1>1, <2>1, <2>2, GoesOnFrom
  <1>5. CASE ParseOther(w)
    <2>1. /\ WithRes(local[w], None) \in Locals
          /\ Fits("parse", local[w]) => Fits("audit", WithRes(local[w], None))
      BY <1>1, ResSet, NoReplyAssumption DEF Fits, Codes
    <2>2. Goes(w, "parse", "audit", WithRes(local[w], None))
      BY <1>5, DispatchEffects
    <2>3. QED
      BY <1>1, <2>1, <2>2, GoesOnFrom
  <1>6. CASE ParseOk(w)
    <2>1. /\ local[w] \in Locals
          /\ Fits("parse", local[w]) => Fits("get_slot", local[w])
      BY <1>1 DEF Fits
    <2>2. /\ local[w] \in Locals
          /\ Fits("parse", local[w]) => Fits("mkstemp", local[w])
      BY <1>1 DEF Fits
    <2>3. \/ Goes(w, "parse", "get_slot", local[w])
          \/ Goes(w, "parse", "mkstemp", local[w])
      BY <1>6, DispatchEffects
    <2>4. QED
      BY <1>1, <2>1, <2>2, <2>3, GoesOnFrom
  <1>7. CASE GetSlot(w)
    <2>1. Taken(Uri(w)) \in Slots
      BY <1>7, SlotIsGot DEF GetSlot
    <2>2. /\ WithSlot(local[w], Taken(Uri(w))) \in Locals
          /\ Fits("get_slot", local[w]) => Fits("get_lock", WithSlot(local[w], Taken(Uri(w))))
      BY <1>1, <2>1, SlotSet DEF Fits
    <2>3. Goes(w, "get_slot", "get_lock", WithSlot(local[w], Taken(Uri(w))))
      BY <1>7, GetEffects
    <2>4. QED
      BY <1>1, <2>2, <2>3, GoesOnFrom
  <1>8. CASE reader_lock(w)
    <2>1. /\ local[w] \in Locals
          /\ Fits("get_lock", local[w]) => Fits("stat", local[w])
      BY <1>1 DEF Fits
    <2>2. Goes(w, "get_lock", "stat", local[w])
      BY <1>8, GetEffects
    <2>3. QED
      BY <1>1, <2>1, <2>2, GoesOnFrom
  <1>9. CASE Stat(w)
    <2>1. pc[w] = "stat" /\ files[Uri(w)] \in Contents
      BY <1>9, UriIsUri DEF Stat, GoTo, TypeOK, Idle
    <2>2. /\ WithRes(local[w], 404) \in Locals
          /\ Fits("stat", local[w]) => Fits("get_unlock", WithRes(local[w], 404))
      BY <1>1, <2>1, ResSet, NoReplyAssumption DEF Fits, Codes
    <2>3. /\ WithRes(local[w], 403) \in Locals
          /\ Fits("stat", local[w]) => Fits("get_unlock", WithRes(local[w], 403))
      BY <1>1, <2>1, ResSet, NoReplyAssumption DEF Fits, Codes
    <2>4. /\ WithStat(local[w], files[Uri(w)]) \in Locals
          /\ Fits("stat", local[w]) => Fits("open", WithStat(local[w], files[Uri(w)]))
      BY <1>1, <2>1, StatSet DEF Fits
    <2>5. \/ Goes(w, "stat", "get_unlock", WithRes(local[w], 404))
          \/ Goes(w, "stat", "get_unlock", WithRes(local[w], 403))
          \/ Goes(w, "stat", "open", WithStat(local[w], files[Uri(w)]))
      BY <1>9, GetEffects
    <2>6. QED
      BY <1>1, <2>2, <2>3, <2>4, <2>5, GoesOnFrom, ZenonT(60)
  <1>10. CASE OpenAndSend(w)
    <2>1. PICK code \in {200, 403, 500} : Goes(w, "open", "get_unlock", WithRes(local[w], code))
      BY <1>10, GetEffects
    <2>2. code \in Codes /\ code # None
      BY NoReplyAssumption DEF Codes
    <2>3. /\ WithRes(local[w], code) \in Locals
          /\ Fits("open", local[w]) => Fits("get_unlock", WithRes(local[w], code))
      BY <1>1, <2>2, ResSet DEF Fits
    <2>4. QED
      BY <1>1, <2>1, <2>3, GoesOnFrom
  <1>11. CASE job_reader_unlock_uri(w)
    <2>1. /\ local[w] \in Locals
          /\ Fits("get_unlock", local[w]) => Fits("audit", local[w])
      BY <1>1 DEF Fits
    <2>2. Goes(w, "get_unlock", "audit", local[w])
      BY <1>11, GetEffects
    <2>3. QED
      BY <1>1, <2>1, <2>2, GoesOnFrom
  <1>12. CASE MakeTemp(w)
    <2>1. /\ local[w] \in Locals
          /\ Fits("mkstemp", local[w]) => Fits("recv", local[w])
      BY <1>1 DEF Fits
    <2>2. /\ WithRes(local[w], 500) \in Locals
          /\ Fits("mkstemp", local[w]) => Fits("respond", WithRes(local[w], 500))
      BY <1>1, ResSet, NoReplyAssumption DEF Fits, Codes
    <2>3. \/ Goes(w, "mkstemp", "recv", local[w])
          \/ Goes(w, "mkstemp", "respond", WithRes(local[w], 500))
      BY <1>12, PutEffects
    <2>4. QED
      BY <1>1, <2>1, <2>2, <2>3, GoesOnFrom, ZenonT(60)
  <1>13. CASE conn_recv_file(w)
    <2>1. /\ WithTemp(local[w], "whole") \in Locals
          /\ Fits("recv", local[w]) => Fits("put_slot", WithTemp(local[w], "whole"))
      BY <1>1, TempSet, ServerAssumption DEF Fits
    <2>2. /\ WithRes(WithTemp(local[w], "torn"), 500) \in Locals
          /\ Fits("recv", local[w]) => Fits("put_slot", WithRes(WithTemp(local[w], "torn"), 500))
      BY <1>1, ResSet, TempSet, NoReplyAssumption, ServerAssumption DEF Fits, Codes
    <2>3. \/ Goes(w, "recv", "put_slot", WithTemp(local[w], "whole"))
          \/ Goes(w, "recv", "put_slot", WithRes(WithTemp(local[w], "torn"), 500))
      BY <1>13, PutEffects
    <2>4. QED
      BY <1>1, <2>1, <2>2, <2>3, GoesOnFrom, ZenonT(60)
  <1>14. CASE PutSlot(w)
    <2>1. Taken(Uri(w)) \in Slots
      BY <1>14, SlotIsGot DEF PutSlot
    <2>2. /\ WithSlot(local[w], Taken(Uri(w))) \in Locals
          /\ Fits("put_slot", local[w]) => Fits("put_lock", WithSlot(local[w], Taken(Uri(w))))
      BY <1>1, <2>1, SlotSet DEF Fits
    <2>3. Goes(w, "put_slot", "put_lock", WithSlot(local[w], Taken(Uri(w))))
      BY <1>14, PutEffects
    <2>4. QED
      BY <1>1, <2>2, <2>3, GoesOnFrom
  <1>15. CASE writer_lock(w)
    <2>1. /\ local[w] \in Locals
          /\ Fits("put_lock", local[w]) => Fits("access", local[w])
      BY <1>1 DEF Fits
    <2>2. Goes(w, "put_lock", "access", local[w])
      BY <1>15, PutEffects
    <2>3. QED
      BY <1>1, <2>1, <2>2, GoesOnFrom
  <1>16. CASE Access(w)
    <2>1. /\ WithExisted(local[w], Existed(w)) \in Locals
          /\ Fits("access", local[w]) => Fits("rename", WithExisted(local[w], Existed(w)))
      BY <1>1, ExistedSet DEF Fits, Existed
    <2>2. Goes(w, "access", "rename", WithExisted(local[w], Existed(w)))
      BY <1>16, PutEffects
    <2>3. QED
      BY <1>1, <2>1, <2>2, GoesOnFrom
  <1>17. CASE Rename(w)
    <2>1. PutCode(w) \in Codes /\ PutCode(w) # None
      BY <1>1, NoReplyAssumption DEF PutCode, Locals, Codes
    <2>2. /\ WithRes(local[w], PutCode(w)) \in Locals
          /\ Fits("rename", local[w]) => Fits("put_unlock", WithRes(local[w], PutCode(w)))
      BY <1>1, <2>1, ResSet DEF Fits
    <2>3. Goes(w, "rename", "put_unlock", WithRes(local[w], PutCode(w)))
      BY <1>17, PutEffects
    <2>4. QED
      BY <1>1, <2>2, <2>3, GoesOnFrom
  <1>18. CASE RenameFails(w)
    <2>1. /\ WithRes(local[w], 403) \in Locals
          /\ Fits("rename", local[w]) => Fits("put_unlock", WithRes(local[w], 403))
      BY <1>1, ResSet, NoReplyAssumption DEF Fits, Codes
    <2>2. /\ WithRes(local[w], 500) \in Locals
          /\ Fits("rename", local[w]) => Fits("put_unlock", WithRes(local[w], 500))
      BY <1>1, ResSet, NoReplyAssumption DEF Fits, Codes
    <2>3. \/ Goes(w, "rename", "put_unlock", WithRes(local[w], 403))
          \/ Goes(w, "rename", "put_unlock", WithRes(local[w], 500))
      BY <1>18, PutEffects
    <2>4. QED
      BY <1>1, <2>1, <2>2, <2>3, GoesOnFrom, ZenonT(60)
  <1>19. CASE job_writer_unlock_uri(w)
    <2>1. /\ local[w] \in Locals
          /\ Fits("put_unlock", local[w]) => Fits("respond", local[w])
      BY <1>1 DEF Fits
    <2>2. Goes(w, "put_unlock", "respond", local[w])
      BY <1>19, PutEffects
    <2>3. QED
      BY <1>1, <2>1, <2>2, GoesOnFrom
  <1>20. CASE Respond(w)
    <2>1. /\ local[w] \in Locals
          /\ Fits("respond", local[w]) => Fits("audit", local[w])
      BY <1>1 DEF Fits
    <2>2. Goes(w, "respond", "audit", local[w])
      BY <1>20, PutEffects
    <2>3. QED
      BY <1>1, <2>1, <2>2, GoesOnFrom
  <1>21. CASE Audit(w)
    <2>1. local[w].res # None
      BY <1>21 DEF Audit
    <2>2. /\ local[w] \in Locals
          /\ Fits("audit", local[w]) => Fits("close", local[w])
      BY <1>1, <2>1 DEF Fits
    <2>3. Goes(w, "audit", "close", local[w])
      BY <1>21, EndEffects
    <2>4. QED
      BY <1>1, <2>2, <2>3, GoesOnFrom
  <1>22. CASE Close(w)
    <2>1. /\ local[w] \in Locals
          /\ Fits("close", local[w]) => Fits("end", local[w])
      BY <1>1 DEF Fits
    <2>2. Goes(w, "close", "end", local[w])
      BY <1>22, EndEffects
    <2>3. QED
      BY <1>1, <2>1, <2>2, GoesOnFrom
  <1>23. CASE job_end(w)
    <2>1. /\ NoLocals \in Locals
          /\ Fits("end", local[w]) => Fits("pop", NoLocals)
      BY <1>1 DEF Fits, NoLocals, Locals
    <2>2. Goes(w, "end", "pop", NoLocals)
      BY <1>23, EndEffects
    <2>3. QED
      BY <1>1, <2>1, <2>2, GoesOnFrom
  <1>24. QED
    BY <1>2, <1>3, <1>4, <1>5, <1>6, <1>7, <1>8, <1>9, <1>10, <1>11, <1>12, <1>13, <1>14, <1>15, <1>16, <1>17, <1>18, <1>19, <1>20, <1>21, <1>22, <1>23 DEF WorkerStep

\* No worker accepts connections.
LEMMA WorkersDoNotAccept ==
  ASSUME NEW w \in Workers, WorkerStep(w) \/ conn_recv_file(w)
  PROVE  created' = created /\ connfd' = connfd /\ request' = request
  BY DEF WorkerStep, conn_recv_file, process, network, job_pop, job_start, ParseMalformed, ParseOther, ParseOk, GetSlot, reader_lock, Stat,
         OpenAndSend, job_reader_unlock_uri, MakeTemp, PutSlot, writer_lock, Access, Rename,
         RenameFails, job_writer_unlock_uri, Respond, Audit, AuditCrashes, Close, job_end

LEMMA NextSound ==
  ASSUME TypeOK, WorkersAreSound, QueueIsWaiting, [Next]_vars
  PROVE  WorkersAreSound' /\ local' \in [Workers -> Locals]
  <1>1. local \in [Workers -> Locals]
    BY DEF TypeOK, Locals
  <1>2. ASSUME UNCHANGED <<pc, local, created>>,
               \A c \in Conns : request[c] # None => request'[c] # None
        PROVE  WorkersAreSound' /\ local' \in [Workers -> Locals]
    <2>1. ASSUME NEW w \in Workers
          PROVE  (w \in created <=> pc[w] # "not created")' /\ Fits(pc[w], local[w])'
      <3>1. (w \in created <=> pc[w] # "not created") /\ Fits(pc[w], local[w])
        BY DEF WorkersAreSound
      <3>2. QED
        BY <1>2, <3>1 DEF Fits
    <2>2. QED
      BY <1>1, <1>2, <2>1 DEF WorkersAreSound
  <1>3. ASSUME NEW w \in Workers, WorkerStep(w) \/ conn_recv_file(w), ~AuditCrashes(w)
        PROVE  WorkersAreSound' /\ local' \in [Workers -> Locals]
    BY <1>3, WorkerGoesOn, WorkersDoNotAccept, GoesOnIsSound
  <1>4. ASSUME NEW w \in Workers, AuditCrashes(w)
        PROVE  WorkersAreSound' /\ local' \in [Workers -> Locals]
    BY <1>2, <1>4 DEF AuditCrashes, network
  <1>5. ASSUME NEW w \in Workers, CreateWorker(w)
        PROVE  WorkersAreSound' /\ local' \in [Workers -> Locals]
    <2>1. ASSUME NEW v \in Workers
          PROVE  (v \in created <=> pc[v] # "not created")' /\ Fits(pc[v], local[v])'
      <3>1. (v \in created <=> pc[v] # "not created") /\ Fits(pc[v], local[v])
        BY DEF WorkersAreSound
      <3>2. /\ pc' = [pc EXCEPT ![w] = "pop"] /\ pc \in [Workers -> Places]
            /\ created' = created \cup {w} /\ UNCHANGED <<local, request>>
        BY <1>5 DEF CreateWorker, WorkersAreSound, network
      <3>3. QED
        BY <3>1, <3>2 DEF Fits, Idle, UsesSlot, HasTemp, HasCode
    <2>2. pc' \in [Workers -> Places] /\ local' = local
      BY <1>5 DEF CreateWorker, WorkersAreSound, Places, Idle
    <2>3. QED
      BY <1>1, <2>1, <2>2 DEF WorkersAreSound
  <1>6. ASSUME NEW c \in Conns, ls_accept(c)
        PROVE  WorkersAreSound' /\ local' \in [Workers -> Locals]
    <2>1. UNCHANGED <<pc, local, created>>
      BY <1>6 DEF ls_accept
    <2>2. PICK m \in Methods, u \in Uris :
            request' = [request EXCEPT ![c] = [method |-> m, uri |-> u]]
      BY <1>6 DEF ls_accept
    <2>3. [method |-> m, uri |-> u] # None
      BY ServerAssumption
    <2>4. \A d \in Conns : request[d] # None => request'[d] # None
      BY <2>2, <2>3 DEF TypeOK
    <2>5. QED
      BY <1>2, <2>1, <2>4
  <1>7. CASE job_push \/ CreateFails \/ UNCHANGED vars
    BY <1>2, <1>7 DEF job_push, CreateFails, vars, process, network
  <1>8. QED
    BY <1>3, <1>4, <1>5, <1>6, <1>7 DEF Next, WorkerStep

-----------------------------------------------------------------------------
(* The workers under way are counted                                       *)
LEMMA WorkingIsFinite == IsFiniteSet(Working) /\ Cardinality(Working) \in Nat
  <1>1. Working \subseteq Workers
    BY DEF Working
  <1>2. QED
    BY <1>1, ServerAssumption, FS_Subset, FS_CardinalityType

LEMMA NextCounted ==
  ASSUME TypeOK, WorkersAreSound, WorkersAreCounted, [Next]_vars
  PROVE  WorkersAreCounted' /\ num_working' \in Nat
  <1> USE WorkingIsFinite
  <1>1. ASSUME Working' = Working, num_working' = num_working
        PROVE  WorkersAreCounted' /\ num_working' \in Nat
    <2>1. Cardinality(Working') = Cardinality(Working)
      BY <1>1, Zenon
    <2>2. QED
      BY <1>1, <2>1 DEF WorkersAreCounted
  <1>2. ASSUME NEW w \in Workers, job_start(w)
        PROVE  WorkersAreCounted' /\ num_working' \in Nat
    <2>1. pc[w] = "start" /\ pc' = [pc EXCEPT ![w] = "parse"] /\ pc \in [Workers -> Places]
      BY <1>2 DEF job_start, GoTo, WorkersAreSound
    <2>2. Working' = Working \cup {w} /\ w \notin Working
      BY <2>1 DEF Working, Idle
    <2>3. Cardinality(Working') = Cardinality(Working) + 1
      BY <2>2, FS_AddElement
    <2>4. QED
      BY <1>2, <2>3 DEF WorkersAreCounted, job_start
  <1>3. ASSUME NEW w \in Workers, job_end(w)
        PROVE  WorkersAreCounted' /\ num_working' \in Nat
    <2>1. pc[w] = "end" /\ pc' = [pc EXCEPT ![w] = "pop"] /\ pc \in [Workers -> Places]
      BY <1>3 DEF job_end, GoTo, WorkersAreSound
    <2>2. Working' = Working \ {w} /\ w \in Working
      BY <2>1 DEF Working, Idle
    <2>3. Cardinality(Working') = Cardinality(Working) - 1 /\ Cardinality(Working) # 0
      BY <2>2, FS_RemoveElement, FS_EmptySet
    <2>4. QED
      BY <1>3, <2>3 DEF WorkersAreCounted, job_end
  <1>4. ASSUME NEW w \in Workers, WorkerStep(w) \/ conn_recv_file(w),
               ~job_start(w), ~job_end(w)
        PROVE  WorkersAreCounted' /\ num_working' \in Nat
    <2>1. num_working' = num_working
      BY <1>4 DEF WorkerStep, conn_recv_file, process, network, job_pop, job_start, ParseMalformed, ParseOther, ParseOk, GetSlot, reader_lock, Stat,
              OpenAndSend, job_reader_unlock_uri, MakeTemp, PutSlot, writer_lock, Access, Rename,
              RenameFails, job_writer_unlock_uri, Respond, Audit, AuditCrashes, Close, job_end
    <2>2. CASE AuditCrashes(w)
      BY <1>1, <2>1, <2>2 DEF AuditCrashes, Working
    <2>3. ASSUME NEW p \in Places, NEW q \in Places, pc[w] = p, pc' = [pc EXCEPT ![w] = q],
                 p \in Idle \cup {"start"} <=> q \in Idle \cup {"start"}
          PROVE  Working' = Working
      BY <2>3 DEF Working, WorkersAreSound
    <2>4. CASE ~AuditCrashes(w)
      <3>0. OpenAndSend(w) => GoTo(w, "open", "get_unlock")
        BY DEF OpenAndSend
      <3>1. Working' = Working
        BY <1>4, <2>3, <2>4, <3>0, ZenonT(90)
        DEF WorkerStep, conn_recv_file, GoTo, Idle, Places, UsesSlot,
            job_pop, ParseMalformed, ParseOther, ParseOk, GetSlot, reader_lock, Stat,
            job_reader_unlock_uri, MakeTemp, PutSlot, writer_lock, Access,
            Rename, RenameFails, job_writer_unlock_uri, Respond, Audit, Close
      <3>2. QED
        BY <1>1, <2>1, <3>1, SMTT(30)
    <2>5. QED
      BY <2>2, <2>4
  <1>5. ASSUME NEW w \in Workers, CreateWorker(w)
        PROVE  WorkersAreCounted' /\ num_working' \in Nat
    <2>1. pc[w] = "not created"
      BY <1>5 DEF CreateWorker, WorkersAreSound
    <2>2. Working' = Working
      BY <1>5, <2>1 DEF CreateWorker, Working, Idle, WorkersAreSound
    <2>3. QED
      BY <1>1, <1>5, <2>2 DEF CreateWorker
  <1>6. ASSUME UNCHANGED <<pc, num_working>>
        PROVE  WorkersAreCounted' /\ num_working' \in Nat
    BY <1>1, <1>6 DEF Working
  <1>7. CASE CreateFails \/ job_push \/ UNCHANGED vars \/ \E c \in Conns : ls_accept(c)
    BY <1>6, <1>7 DEF CreateFails, job_push, vars, ls_accept
  <1>8. QED
    BY <1>2, <1>3, <1>4, <1>5, <1>7 DEF Next

-----------------------------------------------------------------------------
(* The lock table                                                          *)
Users(i) == {w \in Workers : pc[w] \in UsesSlot /\ local[w].rw = i}

\* Nobody gets or returns a slot, nobody enters or leaves an rwlock.
KeepsPhases ==
  \A v \in Workers :
    /\ pc'[v] \in UsesSlot <=> pc[v] \in UsesSlot
    /\ pc'[v] \in HoldsForReading <=> pc[v] \in HoldsForReading
    /\ pc'[v] \in HoldsForWriting <=> pc[v] \in HoldsForWriting
    /\ pc[v] \in UsesSlot => /\ local'[v].rw = local[v].rw
                             /\ local'[v].conn = local[v].conn

SamePhase(p, q) ==
  /\ q \in UsesSlot <=> p \in UsesSlot
  /\ q \in HoldsForReading <=> p \in HoldsForReading
  /\ q \in HoldsForWriting <=> p \in HoldsForWriting

LEMMA PhasesAreKept ==
  ASSUME TypeOK, WorkersAreSound, NEW w \in Workers, NEW p, NEW q, NEW l, Goes(w, p, q, l),
         SamePhase(p, q), p \in UsesSlot => l.rw = local[w].rw /\ l.conn = local[w].conn
  PROVE  KeepsPhases
  <1>1. /\ pc[w] = p /\ pc'[w] = q /\ \A v \in Workers \ {w} : pc'[v] = pc[v]
        /\ local'[w] = l /\ \A v \in Workers \ {w} : local'[v] = local[v]
    BY DEF Goes, TypeOK, WorkersAreSound
  <1>2. QED
    BY <1>1 DEF KeepsPhases, SamePhase

\* The steps of a worker that change the lock table or hold of an rwlock.
Locking(w) ==
  \/ GetSlot(w) \/ reader_lock(w) \/ job_reader_unlock_uri(w)
  \/ PutSlot(w) \/ writer_lock(w) \/ job_writer_unlock_uri(w)

LEMMA OtherStepsKeepPhases ==
  ASSUME TypeOK, WorkersAreSound, NEW w \in Workers,
         WorkerStep(w) \/ conn_recv_file(w), ~Locking(w)
  PROVE  KeepsPhases /\ UNCHANGED <<uri_list, uri_count, reading, writing>>
  <1> USE DEF SamePhase, UsesSlot, HoldsForReading, HoldsForWriting
  <1>1. local[w] \in Locals
    BY DEF TypeOK, Locals
  <1>2. CASE job_pop(w)
    BY <1>2, DispatchEffects, PhasesAreKept DEF job_pop, table, urilock
  <1>3. CASE job_start(w)
    BY <1>3, DispatchEffects, PhasesAreKept DEF job_start, table, urilock
  <1>4. CASE ParseMalformed(w)
    BY <1>4, DispatchEffects, PhasesAreKept DEF ParseMalformed, table, urilock
  <1>5. CASE ParseOther(w)
    BY <1>5, DispatchEffects, PhasesAreKept DEF ParseOther, table, urilock
  <1>6. CASE ParseOk(w)
    BY <1>6, DispatchEffects, PhasesAreKept DEF ParseOk, table, urilock
  <1>7. CASE Stat(w)
    <2>1. /\ WithRes(local[w], 404).rw = local[w].rw
          /\ WithRes(local[w], 404).conn = local[w].conn
      BY <1>1, ResSet DEF Codes, Existed
    <2>2. /\ WithRes(local[w], 403).rw = local[w].rw
          /\ WithRes(local[w], 403).conn = local[w].conn
      BY <1>1, ResSet DEF Codes, Existed
    <2>3. files[Uri(w)] \in Contents
      BY <1>7, UriIsUri DEF Stat, GoTo, TypeOK, Idle
    <2>4. /\ WithStat(local[w], files[Uri(w)]).rw = local[w].rw
          /\ WithStat(local[w], files[Uri(w)]).conn = local[w].conn
      BY <1>1, <2>3, StatSet DEF Codes, Existed
    <2>5. KeepsPhases
      BY <1>7, <2>1, <2>2, <2>4, GetEffects, PhasesAreKept
    <2>6. QED
      BY <1>7, <2>5 DEF Stat, table, urilock
  <1>8. CASE OpenAndSend(w)
    <2>1. PICK code \in {200, 403, 500} : Goes(w, "open", "get_unlock", WithRes(local[w], code))
      BY <1>1, <1>8, GetEffects
    <2>2. /\ WithRes(local[w], code).rw = local[w].rw
          /\ WithRes(local[w], code).conn = local[w].conn
      BY <1>1, ResSet DEF Codes
    <2>3. KeepsPhases
      BY <2>1, <2>2, PhasesAreKept
    <2>4. QED
      BY <1>8, <2>3 DEF OpenAndSend, table, urilock
  <1>9. CASE MakeTemp(w)
    BY <1>9, PutEffects, PhasesAreKept DEF MakeTemp, table, urilock
  <1>10. CASE conn_recv_file(w)
    BY <1>10, PutEffects, PhasesAreKept DEF conn_recv_file, table, urilock
  <1>11. CASE Access(w)
    <2>1. /\ WithExisted(local[w], Existed(w)).rw = local[w].rw
          /\ WithExisted(local[w], Existed(w)).conn = local[w].conn
      BY <1>1, ExistedSet DEF Codes, Existed
    <2>2. KeepsPhases
      BY <1>11, <2>1, PutEffects, PhasesAreKept
    <2>3. QED
      BY <1>11, <2>2 DEF Access, table, urilock
  <1>12. CASE Rename(w)
    <2>1. PutCode(w) \in Codes
      BY <1>1 DEF PutCode, Locals, Codes
    <2>2. /\ WithRes(local[w], PutCode(w)).rw = local[w].rw
          /\ WithRes(local[w], PutCode(w)).conn = local[w].conn
      BY <1>1, <2>1, ResSet DEF Codes, Existed
    <2>3. KeepsPhases
      BY <1>12, <2>2, PutEffects, PhasesAreKept
    <2>4. QED
      BY <1>12, <2>3 DEF Rename, table, urilock
  <1>13. CASE RenameFails(w)
    <2>1. /\ WithRes(local[w], 403).rw = local[w].rw
          /\ WithRes(local[w], 403).conn = local[w].conn
      BY <1>1, ResSet DEF Codes, Existed
    <2>2. /\ WithRes(local[w], 500).rw = local[w].rw
          /\ WithRes(local[w], 500).conn = local[w].conn
      BY <1>1, ResSet DEF Codes, Existed
    <2>3. KeepsPhases
      BY <1>13, <2>1, <2>2, PutEffects, PhasesAreKept
    <2>4. QED
      BY <1>13, <2>3 DEF RenameFails, table, urilock
  <1>14. CASE Respond(w)
    BY <1>14, PutEffects, PhasesAreKept DEF Respond, table, urilock
  <1>15. CASE Audit(w)
    BY <1>15, EndEffects, PhasesAreKept DEF Audit, table, urilock
  <1>16. CASE Close(w)
    BY <1>16, EndEffects, PhasesAreKept DEF Close, table, urilock
  <1>17. CASE job_end(w)
    BY <1>17, EndEffects, PhasesAreKept DEF job_end, table, urilock
  <1>18. CASE AuditCrashes(w)
    BY <1>18 DEF AuditCrashes, KeepsPhases, table, urilock
  <1>19. QED
    BY <1>2, <1>3, <1>4, <1>5, <1>6, <1>7, <1>8, <1>9, <1>10, <1>11, <1>12, <1>13, <1>14, <1>15, <1>16, <1>17, <1>18 DEF WorkerStep, Locking

LEMMA UsersAreFinite ==
  /\ \A i : IsFiniteSet(Users(i)) /\ Cardinality(Users(i)) \in Nat
  /\ \A i : Users(i) = {} <=> Cardinality(Users(i)) = 0
  <1>1. \A i : Users(i) \subseteq Workers
    BY DEF Users
  <1>2. \A i : IsFiniteSet(Users(i))
    BY <1>1, ServerAssumption, FS_Subset
  <1>3. QED
    BY <1>2, FS_CardinalityType, FS_EmptySet

\* The invariant in terms of Users.
LEMMA TableIs ==
  UriTable <=>
    /\ \A i \in Slots : /\ uri_count[i] = Cardinality(Users(i))
                        /\ uri_list[i] = None <=> uri_count[i] = 0
    /\ \A i, j \in Slots : uri_list[i] = uri_list[j] /\ uri_list[i] # None => i = j
    /\ \A w \in Workers : pc[w] \in UsesSlot => uri_list[local[w].rw] = Uri(w)
  BY DEF UriTable, Users

KeepsRequests == \A c \in Conns : request[c] # None => request'[c] = request[c]

LEMMA TableIsKept ==
  ASSUME TypeOK, WorkersAreSound, UriTable, KeepsPhases, KeepsRequests,
         UNCHANGED <<uri_list, uri_count>>
  PROVE  UriTable'
  <1>1. ASSUME NEW v \in Workers, pc[v] \in UsesSlot
        PROVE  Uri(v)' = Uri(v)
    <2>1. local[v].conn \in Conns /\ request[local[v].conn] # None
      BY <1>1 DEF WorkersAreSound, Fits, UsesSlot, Idle
    <2>2. local'[v].conn = local[v].conn
      BY <1>1 DEF KeepsPhases
    <2>3. QED
      BY <2>1, <2>2 DEF Uri, Asked, KeepsRequests
  <1>2. ASSUME NEW i \in Slots
        PROVE  Cardinality(Users(i)') = Cardinality(Users(i))
    <2>1. Users(i)' = Users(i)
      BY DEF Users, KeepsPhases
    <2>2. QED
      BY <2>1, Zenon
  <1>3. \A i \in Slots : /\ uri_count'[i] = Cardinality(Users(i)')
                         /\ uri_list'[i] = None <=> uri_count'[i] = 0
    BY <1>2, TableIs
  <1>4. \A i, j \in Slots : uri_list'[i] = uri_list'[j] /\ uri_list'[i] # None => i = j
    BY DEF UriTable
  <1>5. \A v \in Workers : pc'[v] \in UsesSlot => uri_list'[local'[v].rw] = Uri(v)'
    BY <1>1 DEF UriTable, KeepsPhases
  <1>6. QED
    BY <1>3, <1>4, <1>5 DEF UriTable, Users

LEMMA GettingKeepsTable ==
  ASSUME TypeOK, WorkersAreSound, UriTable, NEW w \in Workers, GetSlot(w) \/ PutSlot(w)
  PROVE  UriTable' /\ uri_list' \in [Slots -> Uris \cup {None}] /\ uri_count' \in [Slots -> Nat]
  <1> DEFINE u == Uri(w)
             i == Taken(u)
  <1>1. /\ job_get_lock(w, u) /\ request' = request
        /\ pc[w] \in {"get_slot", "put_slot"}
        /\ pc' \in [Workers -> Places] /\ pc'[w] \in UsesSlot
        /\ \A v \in Workers \ {w} : pc'[v] = pc[v]
    BY DEF GetSlot, PutSlot, GoTo, UsesSlot, WorkersAreSound, Places, network
  <1>2. /\ i \in Slots
        /\ job_find_uri(u) # {} => uri_list[i] = u
        /\ job_find_uri(u) = {} => uri_count[i] = 0
        /\ uri_list'  = [uri_list EXCEPT ![i] = u]
        /\ uri_count' = [uri_count EXCEPT ![i] = uri_count[i] + 1]
        /\ local' = [local EXCEPT ![w].rw = i]
    BY <1>1, SlotIsGot
  <1>3. u \in Uris /\ u # None
    BY <1>1, UriIsUri DEF Idle
  <1>4. /\ uri_list \in [Slots -> Uris \cup {None}] /\ uri_count \in [Slots -> Nat]
        /\ local \in [Workers -> Locals]
    BY DEF TypeOK, Locals
  <1> HIDE DEF u, i
  <1>5. /\ uri_list' \in [Slots -> Uris \cup {None}] /\ uri_count' \in [Slots -> Nat]
        /\ uri_list'[i] = u /\ uri_count'[i] = uri_count[i] + 1
        /\ \A j \in Slots \ {i} : uri_list'[j] = uri_list[j] /\ uri_count'[j] = uri_count[j]
    BY <1>2, <1>3, <1>4
  <1>6. /\ local'[w].rw = i /\ local'[w].conn = local[w].conn
        /\ \A v \in Workers \ {w} : local'[v] = local[v]
    BY <1>2, <1>4 DEF Locals
  <1>7. pc[w] \notin UsesSlot
    BY <1>1 DEF UsesSlot
  <1>8. ASSUME NEW j \in Slots
        PROVE  uri_count'[j] = Cardinality(Users(j)')
    <2>1. uri_count[j] = Cardinality(Users(j))
      BY TableIs
    <2>2. CASE j = i
      <3>1. Users(j)' = Users(j) \cup {w} /\ w \notin Users(j)
        BY <1>1, <1>6, <1>7, <2>2 DEF Users
      <3>2. Cardinality(Users(j)') = Cardinality(Users(j)) + 1
        BY <3>1, UsersAreFinite, FS_AddElement
      <3>3. QED
        BY <1>5, <2>1, <2>2, <3>2
    <2>3. CASE j # i
      <3>1. Users(j)' = Users(j)
        BY <1>1, <1>6, <1>7, <2>3 DEF Users
      <3>2. Cardinality(Users(j)') = Cardinality(Users(j))
        BY <3>1, Zenon
      <3>3. QED
        BY <1>5, <2>1, <2>3, <3>2
    <2>4. QED
      BY <2>2, <2>3
  <1>9. ASSUME NEW j \in Slots
        PROVE  uri_list'[j] = None <=> uri_count'[j] = 0
    <2>1. uri_count[i] \in Nat /\ uri_count'[i] # 0
      BY <1>2, <1>4, <1>5
    <2>2. uri_list[j] = None <=> uri_count[j] = 0
      BY TableIs
    <2>3. QED
      BY <1>3, <1>5, <2>1, <2>2
  <1>10. ASSUME NEW j \in Slots, NEW k \in Slots,
                uri_list'[j] = uri_list'[k], uri_list'[j] # None
         PROVE  j = k
    <2>1. ASSUME NEW m \in Slots, uri_list[m] = u
          PROVE  m = i
      <3>1. uri_list[i] = u
        BY <1>2, <2>1 DEF job_find_uri
      <3>2. QED
        BY <1>2, <1>3, <2>1, <3>1 DEF UriTable
    <2>2. QED
      BY <1>5, <1>10, <2>1 DEF UriTable
  <1>11. ASSUME NEW v \in Workers, pc'[v] \in UsesSlot
         PROVE  uri_list'[local'[v].rw] = Uri(v)'
    <2>1. CASE v = w
      BY <1>1, <1>5, <1>6, <2>1 DEF u, Uri, Asked
    <2>2. CASE v # w
      <3>1. pc[v] \in UsesSlot /\ local'[v] = local[v] /\ Uri(v)' = Uri(v)
        BY <1>1, <1>6, <1>11, <2>2 DEF Uri, Asked
      <3>2. local[v].rw \in Slots /\ uri_list[local[v].rw] = Uri(v) /\ Uri(v) # None
        BY <3>1, SlotIsFound
      <3>3. uri_count[local[v].rw] # 0
        BY <3>2 DEF UriTable
      <3>4. local[v].rw = i => uri_list[i] = u
        BY <1>2, <3>3
      <3>5. QED
        BY <1>5, <3>1, <3>2, <3>4
    <2>3. QED
      BY <2>1, <2>2
  <1>12. QED
    BY <1>5, <1>8, <1>9, <1>10, <1>11 DEF UriTable, Users

LEMMA ReturningKeepsTable ==
  ASSUME TypeOK, WorkersAreSound, UriTable, NEW w \in Workers,
         job_reader_unlock_uri(w) \/ job_writer_unlock_uri(w)
  PROVE  UriTable' /\ uri_list' \in [Slots -> Uris \cup {None}] /\ uri_count' \in [Slots -> Nat]
  <1> DEFINE u == Uri(w)
  <1> PICK i : i = local[w].rw
    OBVIOUS
  <1>1. /\ job_return_lock(u) /\ request' = request /\ local' = local
        /\ pc[w] \in UsesSlot
        /\ pc'[w] \notin UsesSlot
        /\ \A v \in Workers \ {w} : pc'[v] = pc[v]
    BY DEF job_reader_unlock_uri, job_writer_unlock_uri, GoTo, UsesSlot, WorkersAreSound, network
  <1>2. /\ i \in Slots /\ uri_list[i] = u /\ u # None
        /\ job_find_uri(u) = {i} /\ First(job_find_uri(u)) = i
    BY <1>1, SlotIsFound
  <1>3. uri_list \in [Slots -> Uris \cup {None}] /\ uri_count \in [Slots -> Nat]
    BY DEF TypeOK
  <1>4. /\ uri_count[i] = Cardinality(Users(i)) /\ w \in Users(i)
        /\ uri_count[i] # 0
    BY <1>1, <1>2, TableIs DEF Users
  <1> HIDE DEF u
  <1>5. /\ uri_count' = [uri_count EXCEPT ![i] = uri_count[i] - 1]
        /\ uri_list' = IF uri_count'[i] = 0 THEN [uri_list EXCEPT ![i] = None] ELSE uri_list
    BY <1>1, <1>2 DEF job_return_lock
  <1>6. /\ uri_count' \in [Slots -> Nat] /\ uri_count'[i] = uri_count[i] - 1
        /\ \A j \in Slots \ {i} : uri_count'[j] = uri_count[j]
    BY <1>2, <1>3, <1>4, <1>5
  <1>7. /\ uri_list' \in [Slots -> Uris \cup {None}]
        /\ uri_list'[i] = IF uri_count'[i] = 0 THEN None ELSE uri_list[i]
        /\ \A j \in Slots \ {i} : uri_list'[j] = uri_list[j]
    BY <1>2, <1>3, <1>5
  <1>8. Users(i)' = Users(i) \ {w} /\ \A j \in Slots \ {i} : Users(j)' = Users(j)
    BY <1>1 DEF Users
  <1>9. ASSUME NEW j \in Slots
        PROVE  /\ uri_count'[j] = Cardinality(Users(j)')
               /\ uri_list'[j] = None <=> uri_count'[j] = 0
    <2>1. /\ uri_count[j] = Cardinality(Users(j))
          /\ uri_list[j] = None <=> uri_count[j] = 0
      BY TableIs
    <2>2. CASE j = i
      <3>1. Cardinality(Users(i)') = Cardinality(Users(i)) - 1
        BY <1>4, <1>8, UsersAreFinite, FS_RemoveElement, ZenonT(60)
      <3>2. QED
        <4>1. uri_count'[j] = Cardinality(Users(i)')
          BY <1>4, <1>6, <2>2, <3>1
        <4>2. QED
          BY <1>2, <1>7, <2>2, <4>1
    <2>3. CASE j # i
      <3>1. Users(j)' = Users(j)
        BY <1>8, <2>3
      <3>2. Cardinality(Users(j)') = Cardinality(Users(j))
        BY <3>1, Zenon
      <3>3. QED
        BY <1>6, <1>7, <2>1, <2>3, <3>2
    <2>4. QED
      BY <2>2, <2>3
  <1>10. ASSUME NEW j \in Slots, NEW k \in Slots,
                uri_list'[j] = uri_list'[k], uri_list'[j] # None
         PROVE  j = k
    BY <1>2, <1>7, <1>10 DEF UriTable
  <1>11. ASSUME NEW v \in Workers, pc'[v] \in UsesSlot
         PROVE  uri_list'[local'[v].rw] = Uri(v)'
    <2>1. v # w /\ pc[v] \in UsesSlot /\ Uri(v)' = Uri(v)
      BY <1>1, <1>11 DEF Uri, Asked
    <2>2. local[v].rw \in Slots /\ uri_list[local[v].rw] = Uri(v)
      BY <2>1, SlotIsFound
    <2>3. CASE local[v].rw # i
      BY <1>1, <1>7, <2>1, <2>2, <2>3
    <2>4. CASE local[v].rw = i
      <3>1. v \in Users(i)'
        BY <1>1, <1>11, <2>4 DEF Users
      <3>2. uri_count'[i] # 0
        <4>1. IsFiniteSet(Users(i)')
          BY <1>8, UsersAreFinite, FS_Subset
        <4>2. QED
          BY <1>2, <1>9, <3>1, <4>1, FS_EmptySet
      <3>3. QED
        BY <1>1, <1>7, <2>1, <2>2, <2>4, <3>2
    <2>5. QED
      BY <2>3, <2>4
  <1>12. QED
    BY <1>6, <1>7, <1>9, <1>10, <1>11 DEF UriTable, Users

-----------------------------------------------------------------------------
(* The rest of the types                                                   *)
LEMMA RequestsAreKept ==
  ASSUME TypeOK, WorkersAreSound, [Next]_vars
  PROVE  KeepsRequests
  <1>1. ASSUME NEW w \in Workers, WorkerStep(w) \/ conn_recv_file(w)
        PROVE  KeepsRequests
    BY <1>1, WorkersDoNotAccept DEF KeepsRequests
  <1>2. ASSUME NEW w \in Workers, CreateWorker(w)
        PROVE  KeepsRequests
    BY <1>2 DEF CreateWorker, network, KeepsRequests
  <1>3. ASSUME NEW c \in Conns, ls_accept(c)
        PROVE  KeepsRequests
    BY <1>3 DEF ls_accept, KeepsRequests, TypeOK
  <1>4. CASE job_push \/ CreateFails \/ UNCHANGED vars
    BY <1>4 DEF job_push, CreateFails, vars, network, KeepsRequests
  <1>5. QED
    BY <1>1, <1>2, <1>3, <1>4 DEF Next

LEMMA NextTable ==
  ASSUME TypeOK, WorkersAreSound, UriTable, [Next]_vars
  PROVE  UriTable' /\ uri_list' \in [Slots -> Uris \cup {None}] /\ uri_count' \in [Slots -> Nat]
  <1>1. KeepsRequests /\ uri_list \in [Slots -> Uris \cup {None}] /\ uri_count \in [Slots -> Nat]
    BY RequestsAreKept DEF TypeOK
  <1>2. ASSUME KeepsPhases, UNCHANGED <<uri_list, uri_count>>
        PROVE  UriTable' /\ uri_list' \in [Slots -> Uris \cup {None}]
                         /\ uri_count' \in [Slots -> Nat]
    BY <1>1, <1>2, TableIsKept
  <1>3. ASSUME NEW w \in Workers, WorkerStep(w) \/ conn_recv_file(w), ~Locking(w)
        PROVE  UriTable' /\ uri_list' \in [Slots -> Uris \cup {None}]
                         /\ uri_count' \in [Slots -> Nat]
    BY <1>2, <1>3, OtherStepsKeepPhases
  <1>4. ASSUME NEW w \in Workers, GetSlot(w) \/ PutSlot(w)
        PROVE  UriTable' /\ uri_list' \in [Slots -> Uris \cup {None}]
                         /\ uri_count' \in [Slots -> Nat]
    BY <1>4, GettingKeepsTable
  <1>5. ASSUME NEW w \in Workers, job_reader_unlock_uri(w) \/ job_writer_unlock_uri(w)
        PROVE  UriTable' /\ uri_list' \in [Slots -> Uris \cup {None}]
                         /\ uri_count' \in [Slots -> Nat]
    BY <1>5, ReturningKeepsTable
  <1>6. ASSUME NEW w \in Workers, reader_lock(w) \/ writer_lock(w)
        PROVE  UriTable' /\ uri_list' \in [Slots -> Uris \cup {None}]
                         /\ uri_count' \in [Slots -> Nat]
    <2>1. UNCHANGED <<uri_list, uri_count, local, request>>
      BY <1>6 DEF reader_lock, writer_lock, table, network
    <2>2. \A v \in Workers : pc'[v] \in UsesSlot <=> pc[v] \in UsesSlot
      BY <1>6 DEF reader_lock, writer_lock, GoTo, UsesSlot, WorkersAreSound
    <2>3. ASSUME NEW i \in Slots
          PROVE  Cardinality(Users(i)') = Cardinality(Users(i))
      <3>1. Users(i)' = Users(i)
        BY <2>1, <2>2 DEF Users
      <3>2. QED
        BY <3>1, Zenon
    <2>4. /\ \A i \in Slots : /\ uri_count'[i] = Cardinality(Users(i)')
                              /\ uri_list'[i] = None <=> uri_count'[i] = 0
          /\ \A v \in Workers : pc'[v] \in UsesSlot => uri_list'[local'[v].rw] = Uri(v)'
      BY <2>1, <2>2, <2>3, TableIs DEF Uri, Asked
    <2>5. QED
      BY <1>1, <2>1, <2>4 DEF UriTable, Users
  <1>7. ASSUME NEW w \in Workers, CreateWorker(w)
        PROVE  UriTable' /\ uri_list' \in [Slots -> Uris \cup {None}]
                         /\ uri_count' \in [Slots -> Nat]
    <2>1. pc[w] = "not created"
      BY <1>7 DEF CreateWorker, WorkersAreSound
    <2>2. KeepsPhases /\ UNCHANGED <<uri_list, uri_count>>
      BY <1>7, <2>1 DEF CreateWorker, KeepsPhases, WorkersAreSound, table,
                        UsesSlot, HoldsForReading, HoldsForWriting
    <2>3. QED
      BY <1>2, <2>2
  <1>8. CASE CreateFails \/ job_push \/ UNCHANGED vars \/ \E c \in Conns : ls_accept(c)
    <2>1. KeepsPhases /\ UNCHANGED <<uri_list, uri_count>>
      BY <1>8 DEF CreateFails, job_push, vars, ls_accept, table, KeepsPhases
    <2>2. QED
      BY <1>2, <2>1
  <1>9. QED
    BY <1>3, <1>4, <1>5, <1>6, <1>7, <1>8 DEF Next, Locking

LEMMA NextQueue ==
  ASSUME TypeOK, WorkersAreSound, QueueIsWaiting, [Next]_vars
  PROVE  /\ QueueIsWaiting'
         /\ queue' \in Seq(Conns) /\ Len(queue') <= QueueSize
         /\ connfd' \in Conns \cup {None}
  <1> DEFINE Goal == /\ QueueIsWaiting'
                     /\ queue' \in Seq(Conns) /\ Len(queue') <= QueueSize
                     /\ connfd' \in Conns \cup {None}
  <1>1. /\ queue \in Seq(Conns) /\ Len(queue) \in Nat /\ Len(queue) <= QueueSize
        /\ connfd \in Conns \cup {None} /\ QueueSize \in Nat \ {0}
    BY ServerAssumption DEF TypeOK
  <1>2. \A c \in Conns : request[c] # None => request'[c] = request[c]
    BY RequestsAreKept DEF KeepsRequests
  <1>3. \A k \in DOMAIN queue : queue[k] \in Conns /\ request'[queue[k]] # None
    BY <1>1, <1>2 DEF QueueIsWaiting
  <1>4. CASE queue' = queue /\ connfd' = connfd
    BY <1>1, <1>2, <1>3, <1>4 DEF QueueIsWaiting
  <1>5. ASSUME NEW w \in Workers, job_pop(w)
        PROVE  Goal
    <2>1. queue # <<>> /\ queue' = Tail(queue) /\ connfd' = connfd
      BY <1>5 DEF job_pop, process
    <2>2. /\ queue' \in Seq(Conns) /\ Len(queue') = Len(queue) - 1
          /\ \A k \in 1 .. Len(queue') : queue'[k] = queue[k + 1]
      BY <1>1, <2>1, HeadTailProperties
    <2>3. \A k \in DOMAIN queue' : request'[queue'[k]] # None
      <3>1. DOMAIN queue' = 1 .. Len(queue') /\ DOMAIN queue = 1 .. Len(queue)
        BY <1>1, <2>2, LenProperties
      <3>2. \A k \in 1 .. Len(queue') : k + 1 \in DOMAIN queue
        BY <1>1, <2>2, <3>1
      <3>3. QED
        BY <1>3, <2>2, <3>1, <3>2
    <2>4. QED
      BY <1>1, <1>2, <2>1, <2>2, <2>3 DEF QueueIsWaiting
  <1>6. ASSUME NEW w \in Workers, WorkerStep(w) \/ conn_recv_file(w), ~job_pop(w)
        PROVE  Goal
    <2>1. queue' = queue
      BY <1>6 DEF WorkerStep, conn_recv_file,
        job_start, ParseMalformed, ParseOther, ParseOk, GetSlot, reader_lock, Stat,
        OpenAndSend, job_reader_unlock_uri, MakeTemp, PutSlot, writer_lock, Access,
        Rename, RenameFails, job_writer_unlock_uri, Respond, Audit, AuditCrashes,
        Close, job_end
    <2>2. QED
      BY <1>4, <1>6, <2>1, WorkersDoNotAccept
  <1>7. CASE job_push
    <2>1. /\ Len(queue) < QueueSize /\ queue' = Append(queue, connfd) /\ connfd' = None
          /\ connfd \in Conns /\ request'[connfd] # None
      BY <1>1, <1>2, <1>7 DEF job_push, QueueIsWaiting
    <2>2. /\ queue' \in Seq(Conns) /\ Len(queue') = Len(queue) + 1
          /\ DOMAIN queue' = 1 .. Len(queue') /\ DOMAIN queue = 1 .. Len(queue)
          /\ \A k \in 1 .. Len(queue) : queue'[k] = queue[k]
          /\ queue'[Len(queue) + 1] = connfd
      BY <1>1, <2>1, AppendProperties, LenProperties
    <2>3. \A k \in DOMAIN queue' : k \in DOMAIN queue \/ k = Len(queue) + 1
      BY <1>1, <2>2
    <2>4. \A k \in DOMAIN queue' : request'[queue'[k]] # None
      BY <1>3, <2>1, <2>2, <2>3
    <2>5. Len(queue') <= QueueSize
      BY <1>1, <2>1, <2>2
    <2>6. QED
      BY <2>1, <2>2, <2>4, <2>5 DEF QueueIsWaiting
  <1>8. ASSUME NEW c \in Conns, ls_accept(c)
        PROVE  Goal
    <2>1. /\ queue' = queue /\ connfd' = c
          /\ \E m \in Methods, u \in Uris :
               request' = [request EXCEPT ![c] = [method |-> m, uri |-> u]]
      BY <1>8 DEF ls_accept
    <2>2. request'[c] # None
      BY <2>1, ServerAssumption DEF TypeOK
    <2>3. QED
      BY <1>1, <1>3, <2>1, <2>2 DEF QueueIsWaiting
  <1>9. CASE CreateFails \/ UNCHANGED vars \/ \E w \in Workers : CreateWorker(w)
    BY <1>4, <1>9 DEF CreateFails, vars, CreateWorker, process
  <1>10. QED
    BY <1>5, <1>6, <1>7, <1>8, <1>9 DEF Next

\* What the other lemmas leave of TypeOK.
Rest ==
  /\ main \in {"creating", "accepting", "deleted", "crashed"}
  /\ created \subseteq Workers
  /\ reading \in [Slots -> SUBSET Workers]
  /\ writing \in [Slots -> SUBSET Workers]
  /\ files \in [Uris -> Contents]
  /\ request \in [Conns -> [method : Methods, uri : Uris] \cup {None}]
  /\ reply \in [Conns -> [code : Codes, content : Contents \cup {None}] \cup {None}]
  /\ cut \subseteq Conns /\ closed \subseteq Conns
  /\ audit \in Seq([conn : Conns, code : Codes])

LEMMA Responding ==
  ASSUME TypeOK, WorkersAreSound, NEW w \in Workers, pc[w] \notin Idle,
         NEW code \in Codes, NEW content \in Contents \cup {None},
         conn_send_response(w, code, content)
  PROVE  /\ reply' \in [Conns -> [code : Codes, content : Contents \cup {None}] \cup {None}]
         /\ cut' \subseteq Conns
  <1>1. local[w].conn \in Conns
    BY DEF WorkersAreSound, Fits
  <1>2. Reply(code, content) \in [code : Codes, content : Contents \cup {None}]
    BY DEF Reply
  <1>3. /\ reply \in [Conns -> [code : Codes, content : Contents \cup {None}] \cup {None}]
        /\ cut \subseteq Conns
    BY DEF TypeOK
  <1>4. QED
    BY <1>1, <1>2, <1>3 DEF conn_send_response

LEMMA NextRest ==
  ASSUME TypeOK, WorkersAreSound, UriTable, [Next]_vars
  PROVE  Rest'
  <1>1. Rest
    BY DEF TypeOK, Rest
  <1>2. ASSUME UNCHANGED <<main, created, reading, writing, files, network, audit>>
        PROVE  Rest'
    BY <1>1, <1>2 DEF Rest, network
  <1>3. ASSUME NEW w \in Workers, job_pop(w) \/ job_start(w) \/ ParseOk(w) \/ GetSlot(w)
                 \/ MakeTemp(w) \/ conn_recv_file(w) \/ PutSlot(w) \/ Access(w)
                 \/ RenameFails(w) \/ job_end(w)
        PROVE  Rest'
    BY <1>2, <1>3 DEF job_pop, job_start, ParseOk, GetSlot, MakeTemp, conn_recv_file, PutSlot,
                      Access, RenameFails, job_end, process, urilock, network
  <1>4. ASSUME NEW w \in Workers, NEW code \in Codes, NEW content \in Contents \cup {None},
               pc[w] \notin Idle, conn_send_response(w, code, content),
               UNCHANGED <<main, created, reading, writing, files, request, closed, audit>>
        PROVE  Rest'
    BY <1>1, <1>4, Responding DEF Rest
  <1>5. ASSUME NEW w \in Workers, ParseMalformed(w) \/ ParseOther(w) \/ Stat(w)
                 \/ OpenAndSend(w) \/ Respond(w)
        PROVE  Rest'
    <2>1. /\ UNCHANGED <<main, created, reading, writing, files, request, closed, audit>>
          /\ pc[w] \notin Idle
      BY <1>5, ZenonT(60) DEF ParseMalformed, ParseOther, Stat, OpenAndSend, Respond, GoTo, Idle,
                  process, urilock
    <2>2. \/ reply' = reply /\ cut' = cut
          \/ \E code \in Codes, content \in Contents \cup {None} :
               conn_send_response(w, code, content)
      <3>1. CASE ParseMalformed(w) \/ ParseOther(w)
        BY <3>1 DEF ParseMalformed, ParseOther, Codes
      <3>2. CASE Stat(w)
        BY <3>2 DEF Stat, Codes
      <3>3. CASE OpenAndSend(w)
        <4>1. files[Uri(w)] \in Contents
          BY <2>1, UriIsUri DEF TypeOK
        <4>2. QED
          BY <3>3, <4>1 DEF OpenAndSend, Codes
      <3>4. CASE Respond(w)
        <4>1. local[w].res \in Codes
          <5>1. pc[w] = "respond"
            BY <3>4 DEF Respond, GoTo
          <5>2. local[w].res # None
            BY <5>1 DEF WorkersAreSound, Fits, HasCode
          <5>3. QED
            BY <5>2 DEF TypeOK
        <4>2. QED
          BY <3>4, <4>1 DEF Respond
      <3>5. QED
        BY <1>5, <3>1, <3>2, <3>3, <3>4
    <2>3. QED
      BY <1>1, <1>4, <2>1, <2>2 DEF Rest
  <1>6. ASSUME NEW w \in Workers, reader_lock(w) \/ job_reader_unlock_uri(w)
                 \/ writer_lock(w) \/ job_writer_unlock_uri(w)
        PROVE  Rest'
    <2>1. UNCHANGED <<main, created, files, request, reply, cut, closed, audit>>
      BY <1>6 DEF reader_lock, job_reader_unlock_uri, writer_lock, job_writer_unlock_uri,
                  process, network
    <2>2. /\ reading' \in [Slots -> SUBSET Workers]
          /\ writing' \in [Slots -> SUBSET Workers]
      BY <1>1, <1>6 DEF Rest, reader_lock, job_reader_unlock_uri, writer_lock,
                        job_writer_unlock_uri
    <2>3. QED
      BY <1>1, <2>1, <2>2 DEF Rest
  <1>7. ASSUME NEW w \in Workers, Rename(w)
        PROVE  Rest'
    <2>1. UNCHANGED <<main, created, reading, writing, request, reply, cut, closed, audit>>
      BY <1>7 DEF Rename, process, network, urilock
    <2>2. <<local[w].temp, local[w].conn>> \in Contents
      <3>1. pc[w] = "rename"
        BY <1>7 DEF Rename, GoTo
      <3>2. local[w].temp # None /\ local[w].conn \in Conns
        BY <3>1 DEF WorkersAreSound, Fits, HasTemp, Idle
      <3>3. local[w].temp \in {"whole", "torn"}
        BY <3>2 DEF TypeOK
      <3>4. QED
        BY <3>2, <3>3 DEF Contents
    <2>3. files' \in [Uris -> Contents]
      BY <1>1, <1>7, <2>2 DEF Rename, Rest
    <2>4. QED
      BY <1>1, <2>1, <2>3 DEF Rest
  <1>8. ASSUME NEW w \in Workers, Audit(w)
        PROVE  Rest'
    <2>1. UNCHANGED <<main, created, reading, writing, files, request, reply, cut, closed>>
      BY <1>8 DEF Audit, process, network, urilock
    <2>2. [conn |-> local[w].conn, code |-> local[w].res] \in [conn : Conns, code : Codes]
      <3>1. pc[w] = "audit"
        BY <1>8 DEF Audit, GoTo
      <3>2. local[w].conn \in Conns
        BY <3>1 DEF WorkersAreSound, Fits, Idle
      <3>3. local[w].res \in Codes
        BY <1>8 DEF Audit, TypeOK
      <3>4. QED
        BY <3>2, <3>3
    <2>3. audit' \in Seq([conn : Conns, code : Codes])
      BY <1>1, <1>8, <2>2, AppendProperties DEF Audit, Rest
    <2>4. QED
      BY <1>1, <2>1, <2>3 DEF Rest
  <1>9. ASSUME NEW w \in Workers, Close(w)
        PROVE  Rest'
    <2>1. local[w].conn \in Conns
      BY <1>9 DEF Close, GoTo, WorkersAreSound, Fits, Idle
    <2>2. QED
      BY <1>1, <1>9, <2>1 DEF Close, Rest, process, urilock
  <1>10. ASSUME NEW w \in Workers, AuditCrashes(w) \/ CreateWorker(w)
         PROVE  Rest'
    BY <1>1, <1>10 DEF AuditCrashes, CreateWorker, Rest, network, urilock
  <1>11. ASSUME NEW c \in Conns, ls_accept(c)
         PROVE  Rest'
    BY <1>1, <1>11 DEF ls_accept, Rest, urilock
  <1>12. CASE CreateFails \/ job_push \/ UNCHANGED vars
    BY <1>1, <1>12 DEF CreateFails, job_push, vars, Rest, network, urilock, process
  <1>13. QED
    BY <1>3, <1>5, <1>6, <1>7, <1>8, <1>9, <1>10, <1>11, <1>12 DEF Next, WorkerStep

LEMMA InitTypeInv == Init => TypeInv
  <1> SUFFICES ASSUME Init
               PROVE  TypeInv
    OBVIOUS
  <1>1. TypeOK /\ WorkersAreSound
    BY InitSound
  <1>2. QueueIsWaiting
    <2>1. queue = <<>> /\ connfd = None
      BY DEF Init
    <2>2. DOMAIN queue = {}
      BY <2>1
    <2>3. QED
      BY <2>1, <2>2 DEF QueueIsWaiting
  <1>3. WorkersAreCounted
    <2>1. Working = {}
      BY DEF Init, Working, Idle
    <2>2. QED
      BY <2>1, FS_EmptySet DEF Init, WorkersAreCounted
  <1>4. UriTable
    <2>1. \A w \in Workers : pc[w] \notin UsesSlot
      BY DEF Init, UsesSlot
    <2>2. ASSUME NEW i \in Slots
          PROVE  Cardinality(Users(i)) = 0
      <3>1. Users(i) = {}
        BY <2>1 DEF Users
      <3>2. QED
        BY <3>1, FS_EmptySet
    <2>3. QED
      BY <2>1, <2>2, TableIs DEF Init
  <1>5. QED
    BY <1>1, <1>2, <1>3, <1>4 DEF TypeInv

LEMMA NextTypeInv == TypeInv /\ [Next]_vars => TypeInv'
  <1> SUFFICES ASSUME TypeInv, [Next]_vars
               PROVE  TypeInv'
    OBVIOUS
  <1>1. TypeOK /\ WorkersAreSound /\ QueueIsWaiting /\ WorkersAreCounted /\ UriTable
    BY DEF TypeInv
  <1>2. WorkersAreSound' /\ local' \in [Workers -> Locals]
    BY <1>1, NextSound
  <1>3. WorkersAreCounted' /\ num_working' \in Nat
    BY <1>1, NextCounted
  <1>4. UriTable' /\ uri_list' \in [Slots -> Uris \cup {None}] /\ uri_count' \in [Slots -> Nat]
    BY <1>1, NextTable
  <1>5. /\ QueueIsWaiting'
        /\ queue' \in Seq(Conns) /\ Len(queue') <= QueueSize
        /\ connfd' \in Conns \cup {None}
    BY <1>1, NextQueue
  <1>6. TypeOK'
    BY <1>1, <1>2, <1>3, <1>4, <1>5, NextRest DEF Rest, TypeOK, Locals
  <1>7. QED
    BY <1>2, <1>3, <1>4, <1>5, <1>6 DEF TypeInv

LEMMA TypeInvHolds == Spec => []TypeInv
  BY InitTypeInv, NextTypeInv, PTL DEF Spec

(***************************************************************************)
(* The server's variables keep their types; in particular no count of the  *)
(* lock table goes below zero, whatever the workers do in between.         *)
(***************************************************************************)
THEOREM TypeCorrect == Spec => []TypeOK
  <1>1. TypeInv => TypeOK
    BY DEF TypeInv
  <1>2. QED
    BY <1>1, TypeInvHolds, PTL

(***************************************************************************)
(* job_get_lock and job_return_lock: counts are right, no URI has two      *)
(* slots, and a worker unlocks the slot it locked.                         *)
(***************************************************************************)
THEOREM TableIsRight == Spec => []UriTable
  <1>1. TypeInv => UriTable
    BY DEF TypeInv
  <1>2. QED
    BY <1>1, TypeInvHolds, PTL

-----------------------------------------------------------------------------
(* Slots are enough                                                        *)

\* If no slot were free or had the URI, each would have a user other than the
\* worker that looks for one: more workers than there are.
LEMMA SlotsAreEnough == TypeInv => SlotForEveryUri
  <1> SUFFICES ASSUME TypeInv, NEW w \in Workers, pc[w] \in {"get_slot", "put_slot"},
                      FreeSlots = {}
               PROVE  FALSE
    BY DEF SlotForEveryUri
  <1>1. TypeOK /\ UriTable
    BY DEF TypeInv
  <1>2. ASSUME NEW i \in Slots
        PROVE  Users(i) # {}
    <2>1. uri_count[i] # 0
      BY DEF FreeSlots
    <2>2. QED
      BY <1>1, <2>1, TableIs, UsersAreFinite
  <1>3. \A i \in Slots : Users(i) \subseteq Workers \ {w}
    BY DEF Users, UsesSlot
  <1> DEFINE f == [i \in Slots |-> CHOOSE v \in Users(i) : TRUE]
  <1>4. \A i \in Slots : f[i] \in Users(i)
    BY <1>2
  <1>5. f \in [Slots -> Workers \ {w}]
    BY <1>3, <1>4
  <1>6. \A i, j \in Slots : f[i] = f[j] => i = j
    BY <1>4 DEF Users
  <1>7. f \in Injection(Slots, Workers \ {w})
    BY <1>5, <1>6, Fun_IsInj
  <1>8. /\ IsFiniteSet(Workers \ {w})
        /\ Cardinality(Workers \ {w}) = Cardinality(Workers) - 1
    BY ServerAssumption, FS_RemoveElement
  <1>9. Cardinality(Slots) <= Cardinality(Workers \ {w})
    BY <1>7, <1>8, FS_Injection
  <1>10. QED
    BY <1>8, <1>9, SlotsAreFinite

(***************************************************************************)
(* job_get_lock always has a slot: idx is not -1 when the count is raised. *)
(***************************************************************************)
THEOREM SlotsSuffice == Spec => []SlotForEveryUri
  BY TypeInvHolds, SlotsAreEnough, PTL

-----------------------------------------------------------------------------
(* The rwlocks of the slots                                                *)
ReadsAt(i)  == {w \in Workers : pc[w] \in HoldsForReading /\ local[w].rw = i}
WritesAt(i) == {w \in Workers : pc[w] \in HoldsForWriting /\ local[w].rw = i}

LEMMA LocksAre ==
  LocksAreHeld <=> \A i \in Slots : /\ reading[i] = ReadsAt(i) /\ writing[i] = WritesAt(i)
                                    /\ writing[i] # {} => reading[i] = {}
                                    /\ \A v, w \in writing[i] : v = w
  BY DEF LocksAreHeld, ReadsAt, WritesAt

LEMMA HoldersAreKept ==
  ASSUME LocksAreHeld, UNCHANGED <<reading, writing>>,
         \A v \in Workers :
           /\ pc'[v] \in HoldsForReading <=> pc[v] \in HoldsForReading
           /\ pc'[v] \in HoldsForWriting <=> pc[v] \in HoldsForWriting
           /\ pc[v] \in HoldsForReading \cup HoldsForWriting => local'[v].rw = local[v].rw
  PROVE  LocksAreHeld'
  <1>1. \A i \in Slots : ReadsAt(i)' = ReadsAt(i) /\ WritesAt(i)' = WritesAt(i)
    BY DEF ReadsAt, WritesAt
  <1>2. QED
    BY <1>1 DEF LocksAreHeld, ReadsAt, WritesAt

LEMMA LockingKeepsLocks ==
  ASSUME TypeInv, LocksAreHeld, NEW w \in Workers, Locking(w)
  PROVE  LocksAreHeld'
  <1>1. /\ TypeOK /\ WorkersAreSound /\ UriTable
        /\ pc \in [Workers -> Places]
        /\ reading \in [Slots -> SUBSET Workers] /\ writing \in [Slots -> SUBSET Workers]
    BY DEF TypeInv, TypeOK, WorkersAreSound
  <1>2. CASE GetSlot(w) \/ PutSlot(w)
    <2>1. /\ UNCHANGED <<reading, writing>>
          /\ pc'[w] \notin HoldsForReading \cup HoldsForWriting
          /\ pc[w] \notin HoldsForReading \cup HoldsForWriting
          /\ \A v \in Workers \ {w} : pc'[v] = pc[v]
      BY <1>1, <1>2 DEF GetSlot, PutSlot, GoTo, urilock, HoldsForReading, HoldsForWriting
    <2>2. \A v \in Workers \ {w} : local'[v] = local[v]
      BY <1>2 DEF GetSlot, PutSlot, job_get_lock, Set, TypeInv, TypeOK
    <2>3. QED
      BY <2>1, <2>2, HoldersAreKept
  <1>3. PICK i : i = local[w].rw
    OBVIOUS
  <1>4. CASE reader_lock(w)
    <2>1. /\ i \in Slots /\ local' = local /\ writing' = writing /\ writing[i] = {}
          /\ pc[w] = "get_lock" /\ pc' = [pc EXCEPT ![w] = "stat"]
          /\ reading' = [reading EXCEPT ![i] = reading[i] \cup {w}]
      BY <1>1, <1>3, <1>4 DEF reader_lock, GoTo, WorkersAreSound, Fits, UsesSlot
    <2>2. \A j \in Slots : /\ WritesAt(j)' = WritesAt(j)
                           /\ ReadsAt(j)' = IF j = i THEN ReadsAt(j) \cup {w} ELSE ReadsAt(j)
      BY <1>1, <1>3, <2>1 DEF ReadsAt, WritesAt, HoldsForReading, HoldsForWriting
    <2>3. \A j \in Slots : reading'[j] = IF j = i THEN reading[j] \cup {w} ELSE reading[j]
      BY <1>1, <2>1
    <2>4. \A j \in Slots : reading'[j] = ReadsAt(j)' /\ writing'[j] = WritesAt(j)'
      BY <2>1, <2>2, <2>3, LocksAre
    <2>5. \A j \in Slots : /\ writing'[j] # {} => reading'[j] = {}
                           /\ \A u, v \in writing'[j] : u = v
      BY <2>1, <2>3, LocksAre
    <2>6. QED
      BY <2>4, <2>5 DEF LocksAreHeld, ReadsAt, WritesAt
  <1>5. CASE writer_lock(w)
    <2>1. /\ i \in Slots /\ local' = local /\ reading' = reading
          /\ writing[i] = {} /\ reading[i] = {}
          /\ pc[w] = "put_lock" /\ pc' = [pc EXCEPT ![w] = "access"]
          /\ writing' = [writing EXCEPT ![i] = {w}]
      BY <1>1, <1>3, <1>5 DEF writer_lock, GoTo, WorkersAreSound, Fits, UsesSlot
    <2>2. \A j \in Slots : /\ ReadsAt(j)' = ReadsAt(j)
                           /\ WritesAt(j)' = IF j = i THEN WritesAt(j) \cup {w} ELSE WritesAt(j)
      BY <1>1, <1>3, <2>1 DEF ReadsAt, WritesAt, HoldsForReading, HoldsForWriting
    <2>3. \A j \in Slots : writing'[j] = IF j = i THEN {w} ELSE writing[j]
      BY <1>1, <2>1
    <2>4. QED
      BY <2>1, <2>2, <2>3, LocksAre DEF LocksAreHeld, ReadsAt, WritesAt
  <1>6. CASE job_reader_unlock_uri(w)
    <2>1. pc[w] = "get_unlock" /\ pc' = [pc EXCEPT ![w] = "audit"]
      BY <1>6 DEF job_reader_unlock_uri, GoTo
    <2>2. i \in Slots /\ First(job_find_uri(Uri(w))) = i
      BY <1>1, <1>3, <2>1, SlotIsFound DEF UsesSlot
    <2>3. /\ local' = local /\ writing' = writing
          /\ reading' = [reading EXCEPT ![i] = reading[i] \ {w}]
      BY <1>6, <2>2 DEF job_reader_unlock_uri
    <2>4. \A j \in Slots : /\ WritesAt(j)' = WritesAt(j)
                           /\ ReadsAt(j)' = IF j = i THEN ReadsAt(j) \ {w} ELSE ReadsAt(j)
      BY <1>1, <1>3, <2>1, <2>3 DEF ReadsAt, WritesAt, HoldsForReading, HoldsForWriting
    <2>5. \A j \in Slots : reading'[j] = IF j = i THEN reading[j] \ {w} ELSE reading[j]
      BY <1>1, <2>3
    <2>6. QED
      BY <2>3, <2>4, <2>5, LocksAre, SMTT(30) DEF LocksAreHeld, ReadsAt, WritesAt
  <1>7. CASE job_writer_unlock_uri(w)
    <2>1. pc[w] = "put_unlock" /\ pc' = [pc EXCEPT ![w] = "respond"]
      BY <1>7 DEF job_writer_unlock_uri, GoTo
    <2>2. i \in Slots /\ First(job_find_uri(Uri(w))) = i
      BY <1>1, <1>3, <2>1, SlotIsFound DEF UsesSlot
    <2>3. /\ local' = local /\ reading' = reading
          /\ writing' = [writing EXCEPT ![i] = writing[i] \ {w}]
      BY <1>7, <2>2 DEF job_writer_unlock_uri
    <2>4. \A j \in Slots : /\ ReadsAt(j)' = ReadsAt(j)
                           /\ WritesAt(j)' = IF j = i THEN WritesAt(j) \ {w} ELSE WritesAt(j)
      BY <1>1, <1>3, <2>1, <2>3 DEF ReadsAt, WritesAt, HoldsForReading, HoldsForWriting
    <2>5. \A j \in Slots : writing'[j] = IF j = i THEN writing[j] \ {w} ELSE writing[j]
      BY <1>1, <2>3
    <2>6. \A j \in Slots : reading'[j] = ReadsAt(j)' /\ writing'[j] = WritesAt(j)'
      BY <2>3, <2>4, <2>5, LocksAre
    <2>7. \A j \in Slots : /\ writing'[j] # {} => reading'[j] = {}
                           /\ \A u, v \in writing'[j] : u = v
      BY <2>3, <2>5, LocksAre
    <2>8. QED
      BY <2>6, <2>7 DEF LocksAreHeld, ReadsAt, WritesAt
  <1>8. QED
    BY <1>2, <1>4, <1>5, <1>6, <1>7 DEF Locking

LEMMA NextLocks == TypeInv /\ LocksAreHeld /\ [Next]_vars => LocksAreHeld'
  <1> SUFFICES ASSUME TypeInv, LocksAreHeld, [Next]_vars
               PROVE  LocksAreHeld'
    OBVIOUS
  <1>1. TypeOK /\ WorkersAreSound
    BY DEF TypeInv
  <1>2. ASSUME KeepsPhases, UNCHANGED <<reading, writing>>
        PROVE  LocksAreHeld'
    <2>1. HoldsForReading \cup HoldsForWriting \subseteq UsesSlot
      BY DEF HoldsForReading, HoldsForWriting, UsesSlot
    <2>2. QED
      BY <1>2, <2>1, HoldersAreKept DEF KeepsPhases
  <1>3. ASSUME NEW w \in Workers, WorkerStep(w) \/ conn_recv_file(w), ~Locking(w)
        PROVE  LocksAreHeld'
    BY <1>1, <1>2, <1>3, OtherStepsKeepPhases
  <1>4. ASSUME NEW w \in Workers, CreateWorker(w)
        PROVE  LocksAreHeld'
    <2>1. pc[w] = "not created"
      BY <1>1, <1>4 DEF CreateWorker, WorkersAreSound
    <2>2. KeepsPhases /\ UNCHANGED <<reading, writing>>
      BY <1>1, <1>4, <2>1 DEF CreateWorker, KeepsPhases, WorkersAreSound, urilock,
                              UsesSlot, HoldsForReading, HoldsForWriting
    <2>3. QED
      BY <1>2, <2>2
  <1>5. CASE CreateFails \/ job_push \/ UNCHANGED vars \/ \E c \in Conns : ls_accept(c)
    <2>1. KeepsPhases /\ UNCHANGED <<reading, writing>>
      BY <1>5 DEF CreateFails, job_push, vars, ls_accept, urilock, KeepsPhases
    <2>2. QED
      BY <1>2, <2>1
  <1>6. QED
    BY <1>3, <1>4, <1>5, LockingKeepsLocks DEF Next

LEMMA HoldersAreApart == TypeInv /\ LocksAreHeld => FileExclusion
  <1> SUFFICES ASSUME TypeInv, LocksAreHeld, NEW v \in Workers, NEW w \in Workers, v # w,
                      pc[v] \in HoldsForWriting,
                      pc[w] \in HoldsForReading \cup HoldsForWriting, Uri(v) = Uri(w)
               PROVE  FALSE
    BY DEF FileExclusion
  <1>1. TypeOK /\ WorkersAreSound /\ UriTable
    BY DEF TypeInv
  <1>2. pc[v] \in UsesSlot /\ pc[w] \in UsesSlot
    BY DEF UsesSlot, HoldsForReading, HoldsForWriting
  <1>3. local[v].rw \in Slots /\ local[v].rw = local[w].rw
    <2>1. /\ local[v].rw \in Slots /\ uri_list[local[v].rw] = Uri(v)
          /\ local[w].rw \in Slots /\ uri_list[local[w].rw] = Uri(w) /\ Uri(w) # None
      BY <1>1, <1>2, SlotIsFound
    <2>2. QED
      BY <1>1, <2>1 DEF UriTable
  <1>4. QED
    BY <1>3 DEF LocksAreHeld

LEMMA InitLocks == Init => LocksAreHeld /\ SizeMatchesFile
  BY DEF Init, LocksAreHeld, SizeMatchesFile, HoldsForReading, HoldsForWriting

LEMMA OthersStay ==
  ASSUME TypeInv, NEW w \in Workers, WorkerStep(w) \/ conn_recv_file(w), ~AuditCrashes(w)
  PROVE  \A v \in Workers \ {w} : pc'[v] = pc[v] /\ local'[v] = local[v]
  <1>1. GoesOn(w) /\ TypeOK /\ WorkersAreSound
    BY WorkerGoesOn DEF TypeInv
  <1>2. QED
    BY <1>1 DEF GoesOn, Goes, TypeOK, WorkersAreSound

LEMMA NextSize == TypeInv /\ LocksAreHeld /\ SizeMatchesFile /\ [Next]_vars => SizeMatchesFile'
  <1> SUFFICES ASSUME TypeInv, LocksAreHeld, SizeMatchesFile, [Next]_vars
               PROVE  SizeMatchesFile'
    OBVIOUS
  <1>1. /\ TypeOK /\ WorkersAreSound /\ KeepsRequests
        /\ pc \in [Workers -> Places] /\ files \in [Uris -> Contents]
    BY RequestsAreKept DEF TypeInv, TypeOK, WorkersAreSound
  \* A reader keeps its URI, and what it knows is right if the file is the same.
  <1>2. ASSUME NEW v \in Workers, pc[v] = "open", local'[v] = local[v],
               files'[Uri(v)] = files[Uri(v)]
        PROVE  local'[v].stat = files'[Uri(v)']
    <2>1. local[v].conn \in Conns /\ request[local[v].conn] # None
      BY <1>1, <1>2 DEF WorkersAreSound, Fits, Idle
    <2>2. Uri(v)' = Uri(v)
      BY <1>1, <1>2, <2>1 DEF KeepsRequests, Uri, Asked
    <2>3. QED
      BY <1>2, <2>2 DEF SizeMatchesFile
  <1>3. ASSUME NEW w \in Workers, Stat(w)
        PROVE  SizeMatchesFile'
    <2>1. ~AuditCrashes(w) /\ files' = files /\ request' = request
      BY <1>3 DEF Stat, GoTo, AuditCrashes
    <2>2. \A v \in Workers \ {w} : pc'[v] = pc[v] /\ local'[v] = local[v]
      BY <1>3, <2>1, OthersStay DEF WorkerStep
    <2>3. pc'[w] = "open" => local'[w].stat = files'[Uri(w)']
      <3>1. CASE Goes(w, "stat", "open", WithStat(local[w], files[Uri(w)]))
        <4>1. local[w] \in Locals /\ files[Uri(w)] \in Contents
          BY <1>1, <3>1, UriIsUri DEF TypeOK, Locals, Goes, Idle
        <4>2. /\ local'[w].stat = files[Uri(w)]
              /\ local'[w].conn = local[w].conn
          BY <1>1, <3>1, <4>1, StatSet DEF Goes, TypeOK
        <4>3. QED
          BY <2>1, <4>2 DEF Uri, Asked
      <3>2. CASE pc'[w] # "open"
        BY <3>2
      <3>3. QED
        BY <1>1, <1>3, <3>1, <3>2, GetEffects DEF Goes
    <2>4. QED
      BY <1>2, <2>1, <2>2, <2>3 DEF SizeMatchesFile
  <1>4. ASSUME NEW w \in Workers, Rename(w)
        PROVE  SizeMatchesFile'
    <2>1. /\ pc[w] = "rename" /\ pc'[w] = "put_unlock" /\ ~AuditCrashes(w)
          /\ files' = [files EXCEPT ![Uri(w)] = <<local[w].temp, local[w].conn>>]
      BY <1>1, <1>4 DEF Rename, GoTo, AuditCrashes
    <2>2. \A v \in Workers \ {w} : pc'[v] = pc[v] /\ local'[v] = local[v]
      BY <1>4, <2>1, OthersStay DEF WorkerStep
    <2>3. ASSUME NEW v \in Workers, pc'[v] = "open"
          PROVE  local'[v].stat = files'[Uri(v)']
      <3>1. v # w /\ pc[v] = "open" /\ local'[v] = local[v]
        BY <2>1, <2>2, <2>3
      <3>2. Uri(v) # Uri(w) /\ Uri(v) \in Uris
        BY <1>1, <2>1, <3>1, HoldersAreApart, UriIsUri
        DEF FileExclusion, HoldsForReading, HoldsForWriting, Idle
      <3>3. files'[Uri(v)] = files[Uri(v)]
        BY <1>1, <2>1, <3>2
      <3>4. QED
        BY <1>2, <3>1, <3>3
    <2>4. QED
      BY <2>3 DEF SizeMatchesFile
  <1>5. ASSUME files' = files,
               \A v \in Workers : pc'[v] = "open" => pc[v] = "open" /\ local'[v] = local[v]
        PROVE  SizeMatchesFile'
    BY <1>2, <1>5 DEF SizeMatchesFile
  <1>6. ASSUME NEW w \in Workers, WorkerStep(w) \/ conn_recv_file(w), ~Stat(w), ~Rename(w)
        PROVE  SizeMatchesFile'
    <2>1. files' = files
      BY <1>6 DEF WorkerStep, conn_recv_file, job_pop, job_start, ParseMalformed, ParseOther,
                  ParseOk, GetSlot, reader_lock, OpenAndSend, job_reader_unlock_uri,
                  MakeTemp, PutSlot, writer_lock, Access, RenameFails,
                  job_writer_unlock_uri, Respond, Audit, AuditCrashes, Close, job_end
    <2>2. CASE AuditCrashes(w)
      BY <1>5, <2>1, <2>2 DEF AuditCrashes
    <2>3. CASE ~AuditCrashes(w)
      <3>1. pc'[w] # "open"
        BY <1>1, <1>6, <2>3
        DEF WorkerStep, conn_recv_file, GoTo, job_pop, job_start, ParseMalformed,
            ParseOther, ParseOk, GetSlot, reader_lock, OpenAndSend, job_reader_unlock_uri,
            MakeTemp, PutSlot, writer_lock, Access, RenameFails, job_writer_unlock_uri,
            Respond, Audit, Close, job_end
      <3>2. QED
        BY <1>5, <1>6, <2>1, <2>3, <3>1, OthersStay
    <2>4. QED
      BY <2>2, <2>3
  <1>7. ASSUME NEW w \in Workers, CreateWorker(w)
        PROVE  SizeMatchesFile'
    BY <1>1, <1>5, <1>7 DEF CreateWorker
  <1>8. CASE CreateFails \/ job_push \/ UNCHANGED vars \/ \E c \in Conns : ls_accept(c)
    BY <1>5, <1>8 DEF CreateFails, job_push, vars, ls_accept
  <1>9. QED
    BY <1>3, <1>4, <1>6, <1>7, <1>8 DEF Next

LEMMA InvHolds == Spec => []IInv
  <1>1. Init => IInv
    BY InitTypeInv, InitLocks DEF IInv
  <1>2. IInv /\ [Next]_vars => IInv'
    BY NextTypeInv, NextLocks, NextSize DEF IInv
  <1>3. QED
    BY <1>1, <1>2, PTL DEF Spec

(***************************************************************************)
(* A worker between the lock and the unlock of a PUT is the only one with  *)
(* its URI between a lock and an unlock, for any number of workers and     *)
(* URIs and however slots were recycled.                                   *)
(***************************************************************************)
THEOREM FilesAreExclusive == Spec => []FileExclusion
  <1>1. IInv => FileExclusion
    BY HoldersAreApart DEF IInv
  <1>2. QED
    BY <1>1, InvHolds, PTL

(***************************************************************************)
(* handle_get sends the file that fstat measured.                          *)
(***************************************************************************)
THEOREM SizesMatch == Spec => []SizeMatchesFile
  <1>1. IInv => SizeMatchesFile
    BY DEF IInv
  <1>2. QED
    BY <1>1, InvHolds, PTL


-----------------------------------------------------------------------------
(***************************************************************************)
(* The audit log.  A line is written once for a connection and agrees with *)
(* the reply because, from accept to close, a connection is in one pair of *)
(* hands (EachIsHeldOnce): no other worker can answer or log it.           *)
(***************************************************************************)
\* A connection is in one pair of hands: main's, the queue's or one worker's.
EachIsHeldOnce ==
  /\ \A v, w \in Workers :
       pc[v] \notin Idle /\ pc[w] \notin Idle /\ local[v].conn = local[w].conn => v = w
  /\ \A k \in DOMAIN queue :
       /\ queue[k] # connfd
       /\ \A j \in DOMAIN queue : queue[j] = queue[k] => j = k
       /\ \A w \in Workers : pc[w] \notin Idle => local[w].conn # queue[k]
  /\ \A w \in Workers : pc[w] \notin Idle => local[w].conn # connfd

Logged(c) == \E i \in DOMAIN audit : audit[i].conn = c

Answered == {"get_unlock", "audit", "close", "end"}

\* A line is written for a connection that has its reply, when its worker
\* comes to the end, and never again.
LogIsRight ==
  /\ \A i \in DOMAIN audit : /\ request[audit[i].conn] # None
                             /\ reply[audit[i].conn] # None
                             /\ reply[audit[i].conn].code = audit[i].code
  /\ \A i, j \in DOMAIN audit : audit[i].conn = audit[j].conn => i = j
  /\ \A c \in closed : Logged(c)
  /\ ~Logged(connfd) /\ \A k \in DOMAIN queue : ~Logged(queue[k])
  /\ \A w \in Workers :
       /\ pc[w] \notin Idle => (Logged(local[w].conn) <=> pc[w] \in {"close", "end"})
       /\ pc[w] \in Answered =>
            /\ reply[local[w].conn] # None
            /\ local[w].res # None => reply[local[w].conn].code = local[w].res

LogInv == EachIsHeldOnce /\ LogIsRight

-----------------------------------------------------------------------------
(* What a step leaves of a worker's connection                             *)
LEMMA ConnIsKept ==
  ASSUME TypeInv, NEW w \in Workers, WorkerStep(w) \/ conn_recv_file(w),
         ~job_pop(w), ~job_end(w), ~AuditCrashes(w)
  PROVE  /\ pc[w] \notin Idle /\ pc'[w] \notin Idle
         /\ local'[w].conn = local[w].conn
         /\ queue' = queue
  <1>1. TypeOK /\ WorkersAreSound /\ pc \in [Workers -> Places] /\ local[w] \in Locals
    BY DEF TypeInv, TypeOK, WorkersAreSound, Locals
  <1>0. OpenAndSend(w) => GoTo(w, "open", "get_unlock")
    BY DEF OpenAndSend
  <1>2. pc[w] \notin Idle /\ pc'[w] \notin Idle
    BY <1>0, <1>1, ZenonT(90) DEF WorkerStep, conn_recv_file, GoTo, Idle, job_start,
      ParseMalformed, ParseOther, ParseOk, GetSlot, reader_lock, Stat, job_reader_unlock_uri, MakeTemp, PutSlot, writer_lock, Access, Rename,
      RenameFails, job_writer_unlock_uri, Respond, Audit, Close
  <1>3. queue' = queue
    BY DEF WorkerStep, conn_recv_file, job_start, ParseMalformed,
      ParseOther, ParseOk, GetSlot, reader_lock, Stat, OpenAndSend,
      job_reader_unlock_uri, MakeTemp, PutSlot, writer_lock, Access, Rename,
      RenameFails, job_writer_unlock_uri, Respond, Audit, Close
  <1>4. CASE GetSlot(w) \/ PutSlot(w)
    <2>1. local' = [local EXCEPT ![w].rw = Taken(Uri(w))]
      BY <1>1, <1>4, SlotIsGot DEF GetSlot, PutSlot
    <2>2. QED
      BY <1>1, <1>2, <1>3, <2>1 DEF TypeOK, Locals
  <1>5. CASE \/ job_start(w) \/ ParseOk(w) \/ reader_lock(w) \/ job_reader_unlock_uri(w)
             \/ writer_lock(w) \/ job_writer_unlock_uri(w) \/ Respond(w) \/ Audit(w)
             \/ Close(w)
    BY <1>2, <1>3, <1>5 DEF job_start, ParseOk, reader_lock, job_reader_unlock_uri,
      writer_lock, job_writer_unlock_uri, Respond, Audit, Close
  <1>6. ASSUME NEW x, \/ Set(w, "res", x) \/ Set(w, "stat", x) \/ Set(w, "temp", x)
                      \/ Set(w, "existed", x)
        PROVE  local'[w].conn = local[w].conn
    BY <1>1, <1>6 DEF Set, TypeOK, Locals
  <1>7. CASE \/ ParseMalformed(w) \/ ParseOther(w) \/ Stat(w) \/ OpenAndSend(w)
             \/ MakeTemp(w) \/ Access(w) \/ Rename(w) \/ RenameFails(w)
    BY <1>2, <1>3, <1>6, <1>7 DEF ParseMalformed, ParseOther, Stat, OpenAndSend, MakeTemp,
      Access, Rename, RenameFails
  <1>8. CASE conn_recv_file(w)
    BY <1>1, <1>2, <1>3, <1>6, <1>8 DEF conn_recv_file, TypeOK, Locals
  <1>9. QED
    BY <1>2, <1>3, <1>4, <1>5, <1>7, <1>8 DEF WorkerStep

-----------------------------------------------------------------------------
(* One pair of hands                                                       *)
LEMMA PoppingKeepsCustody ==
  ASSUME TypeInv, EachIsHeldOnce, NEW w \in Workers, job_pop(w)
  PROVE  EachIsHeldOnce'
  <1>1. /\ TypeOK /\ WorkersAreSound /\ QueueIsWaiting /\ queue \in Seq(Conns)
        /\ queue # <<>> /\ queue' = Tail(queue) /\ connfd' = connfd
    BY WorkersDoNotAccept DEF TypeInv, TypeOK, job_pop, WorkerStep
  <1>2. /\ Head(queue) = queue[1] /\ 1 \in DOMAIN queue
        /\ \A k \in DOMAIN queue' : k + 1 \in DOMAIN queue /\ queue'[k] = queue[k + 1]
        /\ DOMAIN queue' \subseteq Nat \ {0}
    BY <1>1
  <1>3. ~AuditCrashes(w) /\ WorkerStep(w)
    BY DEF job_pop, AuditCrashes, GoTo, WorkerStep
  <1>4. \A v \in Workers \ {w} : pc'[v] = pc[v] /\ local'[v] = local[v]
    BY <1>3, OthersStay
  <1>5. pc[w] = "pop" /\ pc'[w] = "start" /\ local'[w].conn = Head(queue)
    <2>1. Goes(w, "pop", "start", WithConn(local[w], Head(queue)))
      BY <1>1, DispatchEffects
    <2>2. local \in [Workers -> Locals] /\ pc \in [Workers -> Places]
      BY <1>1 DEF TypeOK, Locals, WorkersAreSound
    <2>3. WithConn(local[w], Head(queue)).conn = Head(queue)
      BY <1>1, <2>2, HeadIsWaiting, ConnSet
    <2>4. QED
      BY <2>1, <2>2, <2>3 DEF Goes
  <1>6. \A v, u \in Workers :
          pc'[v] \notin Idle /\ pc'[u] \notin Idle /\ local'[v].conn = local'[u].conn => v = u
    BY <1>2, <1>4, <1>5 DEF EachIsHeldOnce
  <1>7. ASSUME NEW k \in DOMAIN queue'
        PROVE  /\ queue'[k] # connfd'
               /\ \A j \in DOMAIN queue' : queue'[j] = queue'[k] => j = k
               /\ \A v \in Workers : pc'[v] \notin Idle => local'[v].conn # queue'[k]
    <2>1. k + 1 \in DOMAIN queue /\ queue'[k] = queue[k + 1] /\ k \in Nat /\ k + 1 # 1
      BY <1>2
    <2>2. queue'[k] # connfd'
      BY <1>1, <2>1 DEF EachIsHeldOnce
    <2>3. ASSUME NEW j \in DOMAIN queue', queue'[j] = queue'[k]
          PROVE  j = k
      <3>1. j + 1 \in DOMAIN queue /\ queue'[j] = queue[j + 1] /\ j \in Nat
        BY <1>2
      <3>2. j + 1 = k + 1
        BY <2>1, <2>3, <3>1 DEF EachIsHeldOnce
      <3>3. QED
        BY <2>1, <3>1, <3>2
    <2>4. queue[1] # queue[k + 1]
      BY <1>2, <2>1 DEF EachIsHeldOnce
    <2>5. QED
      BY <1>2, <1>4, <1>5, <2>1, <2>2, <2>3, <2>4 DEF EachIsHeldOnce
  <1>8. \A v \in Workers : pc'[v] \notin Idle => local'[v].conn # connfd'
    BY <1>1, <1>2, <1>4, <1>5 DEF EachIsHeldOnce
  <1>9. QED
    BY <1>6, <1>7, <1>8 DEF EachIsHeldOnce

LEMMA PushingKeepsCustody ==
  ASSUME TypeInv, EachIsHeldOnce, job_push
  PROVE  EachIsHeldOnce'
  <1>1. /\ queue \in Seq(Conns) /\ connfd \in Conns /\ connfd' = None
        /\ queue' = Append(queue, connfd) /\ pc' = pc /\ local' = local
    BY DEF TypeInv, TypeOK, job_push
  <1>2. /\ Len(queue) \in Nat /\ DOMAIN queue = 1 .. Len(queue)
        /\ DOMAIN queue' = 1 .. Len(queue) + 1
        /\ \A k \in DOMAIN queue : queue'[k] = queue[k]
        /\ queue'[Len(queue) + 1] = connfd
    BY <1>1, AppendProperties
  <1>3. \A k \in DOMAIN queue' : \/ k \in DOMAIN queue /\ queue'[k] = queue[k]
                                 \/ k = Len(queue) + 1 /\ queue'[k] = connfd
    BY <1>2
  <1>4. \A k \in DOMAIN queue' : queue'[k] \in Conns
    BY <1>1, <1>3
  <1>5. \A j, k \in DOMAIN queue' : queue'[j] = queue'[k] => j = k
    BY <1>3 DEF EachIsHeldOnce
  <1>6. \A k \in DOMAIN queue', v \in Workers : pc'[v] \notin Idle => local'[v].conn # queue'[k]
    BY <1>1, <1>3 DEF EachIsHeldOnce
  <1>7. None \notin Conns
    BY ServerAssumption
  <1>8. \A v \in Workers : pc'[v] \notin Idle => local'[v].conn # connfd'
    BY <1>1, <1>7 DEF TypeInv, WorkersAreSound, Fits
  <1>9. QED
    BY <1>1, <1>4, <1>5, <1>6, <1>7, <1>8 DEF EachIsHeldOnce

LEMMA NextCustody == TypeInv /\ EachIsHeldOnce /\ [Next]_vars => EachIsHeldOnce'
  <1> SUFFICES ASSUME TypeInv, EachIsHeldOnce, [Next]_vars
               PROVE  EachIsHeldOnce'
    OBVIOUS
  <1>1. /\ TypeOK /\ WorkersAreSound /\ QueueIsWaiting /\ queue \in Seq(Conns)
        /\ pc \in [Workers -> Places] /\ local \in [Workers -> Locals]
    BY DEF TypeInv, TypeOK, WorkersAreSound, Locals
  <1>2. ASSUME NEW w \in Workers, WorkerStep(w) \/ conn_recv_file(w),
               ~job_pop(w), ~job_end(w), ~AuditCrashes(w)
        PROVE  EachIsHeldOnce'
    <2>1. /\ pc[w] \notin Idle /\ pc'[w] \notin Idle /\ local'[w].conn = local[w].conn
          /\ queue' = queue /\ connfd' = connfd
      BY <1>2, ConnIsKept, WorkersDoNotAccept
    <2>2. \A v \in Workers \ {w} : pc'[v] = pc[v] /\ local'[v] = local[v]
      BY <1>2, OthersStay
    <2>3. \A v \in Workers : local'[v].conn = local[v].conn /\ (pc'[v] \in Idle <=> pc[v] \in Idle)
      BY <2>1, <2>2
    <2>4. QED
      BY <2>1, <2>3 DEF EachIsHeldOnce
  <1>3. ASSUME NEW w \in Workers, job_end(w)
        PROVE  EachIsHeldOnce'
    <2>1. ~AuditCrashes(w) /\ WorkerStep(w)
      BY <1>3 DEF job_end, AuditCrashes, GoTo, WorkerStep
    <2>2. \A v \in Workers \ {w} : pc'[v] = pc[v] /\ local'[v] = local[v]
      BY <2>1, OthersStay
    <2>3. pc'[w] \in Idle
      BY <1>1, <1>3 DEF job_end, GoTo, Idle
    <2>4. queue' = queue /\ connfd' = connfd
      BY <1>3 DEF job_end, process
    <2>5. QED
      BY <2>2, <2>3, <2>4 DEF EachIsHeldOnce
  <1>4. ASSUME NEW w \in Workers, AuditCrashes(w)
        PROVE  EachIsHeldOnce'
    BY <1>4 DEF AuditCrashes, EachIsHeldOnce
  <1>5. ASSUME NEW w \in Workers, CreateWorker(w)
        PROVE  EachIsHeldOnce'
    <2>1. pc[w] \in Idle /\ pc'[w] \in Idle /\ \A v \in Workers \ {w} : pc'[v] = pc[v]
      BY <1>1, <1>5 DEF CreateWorker, WorkersAreSound, Idle
    <2>2. \A v \in Workers : pc'[v] \in Idle <=> pc[v] \in Idle
      BY <2>1
    <2>3. UNCHANGED <<connfd, queue, local>>
      BY <1>5 DEF CreateWorker
    <2>4. QED
      BY <2>2, <2>3 DEF EachIsHeldOnce
  <1>6. ASSUME NEW c \in Conns, ls_accept(c)
        PROVE  EachIsHeldOnce'
    <2>1. connfd' = c /\ request[c] = None /\ UNCHANGED <<queue, pc, local>>
      BY <1>6 DEF ls_accept
    <2>2. \A k \in DOMAIN queue : queue[k] # c
      BY <1>1, <2>1 DEF QueueIsWaiting
    <2>3. \A v \in Workers : pc[v] \notin Idle => local[v].conn # c
      BY <1>1, <2>1 DEF WorkersAreSound, Fits
    <2>4. QED
      BY <2>1, <2>2, <2>3 DEF EachIsHeldOnce
  <1>7. CASE CreateFails \/ UNCHANGED vars
    BY <1>7 DEF CreateFails, vars, process, EachIsHeldOnce
  <1>8. QED
    BY <1>2, <1>3, <1>4, <1>5, <1>6, <1>7, PoppingKeepsCustody, PushingKeepsCustody
    DEF Next

-----------------------------------------------------------------------------
(* What is logged agrees with what is sent                                 *)
LEMMA Answering ==
  ASSUME TypeOK, NEW w \in Workers, local[w].conn \in Conns,
         NEW x \in Codes, NEW y \in Contents \cup {None}, conn_send_response(w, x, y)
  PROVE  /\ \A c \in Conns : c # local[w].conn => reply'[c] = reply[c]
         /\ reply'[local[w].conn] # None /\ reply'[local[w].conn].code = x
  <1>1. reply' = [reply EXCEPT ![local[w].conn] = Reply(x, y)]
    BY DEF conn_send_response
  <1>2. Reply(x, y) \in [code : Codes, content : Contents \cup {None}] /\ Reply(x, y).code = x
    BY DEF Reply
  <1>3. Reply(x, y) # None
    BY <1>2, NoReplyAssumption
  <1>4. QED
    BY <1>1, <1>2, <1>3 DEF TypeOK

\* What a step that answers, or is not at the end yet, makes of the reply.
AnswersOwn(w) ==
  /\ \A c \in Conns : c # local[w].conn => reply'[c] = reply[c]
  /\ \/ /\ reply' = reply
        /\ pc'[w] \notin Answered \/ (pc[w] \in Answered /\ local'[w].res = local[w].res)
     \/ /\ reply'[local[w].conn] # None
        /\ reply'[local[w].conn].code = local'[w].res \/ local'[w].res = None

LEMMA AnswersAreOwn ==
  ASSUME TypeInv, NEW w \in Workers, WorkerStep(w) \/ conn_recv_file(w),
         ~job_pop(w), ~job_end(w), ~AuditCrashes(w), ~Audit(w), ~Close(w)
  PROVE  /\ audit' = audit /\ closed' = closed
         /\ pc[w] \notin {"close", "end"} /\ pc'[w] \notin {"close", "end"}
         /\ AnswersOwn(w)
  <1>1. TypeOK /\ WorkersAreSound /\ pc \in [Workers -> Places] /\ local \in [Workers -> Locals]
    BY DEF TypeInv, TypeOK, WorkersAreSound, Locals
  <1>2. /\ audit' = audit /\ closed' = closed
        /\ pc[w] \notin {"close", "end"} /\ pc'[w] \notin {"close", "end"}
    BY <1>1 DEF WorkerStep, conn_recv_file, GoTo, network, job_start, ParseMalformed,
      ParseOther, ParseOk, GetSlot, reader_lock, Stat, OpenAndSend,
      job_reader_unlock_uri, MakeTemp, PutSlot, writer_lock, Access, Rename,
      RenameFails, job_writer_unlock_uri, Respond
  <1> SUFFICES AnswersOwn(w)
    BY <1>2
  <1>3. local[w].conn \in Conns /\ local[w] \in Locals
    <2>1. pc[w] \notin Idle
      BY ConnIsKept
    <2>2. QED
      BY <1>1, <2>1 DEF WorkersAreSound, Fits
  <1>4. ASSUME NEW x \in Codes, NEW y \in Contents \cup {None}, conn_send_response(w, x, y),
               local'[w].res \in {x, None}
        PROVE  AnswersOwn(w)
    BY <1>1, <1>3, <1>4, Answering DEF AnswersOwn
  <1>5. ASSUME NEW x, Set(w, "res", x)
        PROVE  local'[w].res = x
    BY <1>1, <1>5 DEF Set, Locals
  <1>6. CASE ParseMalformed(w)
    <2>1. conn_send_response(w, 400, None) /\ local'[w].res = 400
      BY <1>5, <1>6 DEF ParseMalformed
    <2>2. QED
      BY <1>4, <2>1 DEF Codes
  <1>7. CASE ParseOther(w)
    <2>1. conn_send_response(w, 501, None) /\ local'[w].res = None
      BY <1>5, <1>7 DEF ParseOther
    <2>2. QED
      BY <1>4, <2>1 DEF Codes
  <1>8. CASE Stat(w)
    <2>1. CASE conn_send_response(w, 404, None) /\ Set(w, "res", 404)
      BY <1>4, <1>5, <2>1 DEF Codes
    <2>2. CASE conn_send_response(w, 403, None) /\ Set(w, "res", 403)
      BY <1>4, <1>5, <2>2 DEF Codes
    <2>3. CASE GoTo(w, "stat", "open") /\ reply' = reply
      BY <1>1, <2>3 DEF GoTo, AnswersOwn, Answered
    <2>4. QED
      BY <1>8, <2>1, <2>2, <2>3 DEF Stat
  <1>9. CASE OpenAndSend(w)
    <2>1. files[Uri(w)] \in Contents
      <3>1. pc[w] \notin Idle
        BY ConnIsKept
      <3>2. QED
        BY <1>1, <3>1, UriIsUri DEF TypeOK
    <2>2. CASE conn_send_response(w, 200, files[Uri(w)]) /\ Set(w, "res", 200)
      BY <1>4, <1>5, <2>1, <2>2 DEF Codes
    <2>3. ASSUME NEW code \in {403, 500}, conn_send_response(w, code, None),
                 Set(w, "res", code)
          PROVE  AnswersOwn(w)
      BY <1>4, <1>5, <2>3 DEF Codes
    <2>4. QED
      BY <1>9, <2>2, <2>3 DEF OpenAndSend
  <1>10. CASE Respond(w)
    <2>1. conn_send_response(w, local[w].res, None) /\ local'[w].res = local[w].res
      BY <1>10 DEF Respond
    <2>2. local[w].res \in Codes
      BY <1>1, <1>3, <1>10 DEF Respond, GoTo, WorkersAreSound, Fits, HasCode, Locals
    <2>3. QED
      BY <1>4, <2>1, <2>2
  <1>11. CASE job_reader_unlock_uri(w)
    BY <1>11 DEF job_reader_unlock_uri, GoTo, network, AnswersOwn, Answered
  <1>12. CASE \/ job_start(w) \/ ParseOk(w) \/ GetSlot(w) \/ reader_lock(w) \/ MakeTemp(w)
              \/ conn_recv_file(w) \/ PutSlot(w) \/ writer_lock(w) \/ Access(w) \/ Rename(w)
              \/ RenameFails(w) \/ job_writer_unlock_uri(w)
    <2>1. reply' = reply
      BY <1>12 DEF network, job_start, ParseOk, GetSlot, reader_lock, MakeTemp, conn_recv_file,
        PutSlot, writer_lock, Access, Rename, RenameFails, job_writer_unlock_uri
    <2>2. pc'[w] \notin Answered
      BY <1>1, <1>12 DEF Answered, GoTo, job_start, ParseOk, GetSlot, reader_lock, MakeTemp,
        conn_recv_file, PutSlot, writer_lock, Access, Rename, RenameFails,
        job_writer_unlock_uri
    <2>3. QED
      BY <2>1, <2>2 DEF AnswersOwn
  <1>13. QED
    BY <1>6, <1>7, <1>8, <1>9, <1>10, <1>11, <1>12 DEF WorkerStep

\* Only who holds a connection can log it or answer it.
LEMMA AnsweringKeepsLog ==
  ASSUME TypeInv, LogInv, NEW w \in Workers, WorkerStep(w) \/ conn_recv_file(w),
         ~job_pop(w), ~job_end(w), ~AuditCrashes(w), ~Audit(w), ~Close(w)
  PROVE  LogIsRight'
  <1>1. /\ audit' = audit /\ closed' = closed /\ queue' = queue /\ connfd' = connfd
        /\ request' = request /\ local'[w].conn = local[w].conn
        /\ pc[w] \notin {"close", "end"} /\ pc'[w] \notin {"close", "end"}
        /\ pc[w] \notin Idle /\ AnswersOwn(w)
    BY AnswersAreOwn, ConnIsKept, WorkersDoNotAccept
  <1>2. \A v \in Workers \ {w} : pc'[v] = pc[v] /\ local'[v] = local[v]
    BY OthersStay
  <1>3. /\ audit \in Seq([conn : Conns, code : Codes])
        /\ \A i \in DOMAIN audit : audit[i].conn \in Conns
        /\ \A v \in Workers : pc[v] \notin Idle => local[v].conn \in Conns
    <2>1. audit \in Seq([conn : Conns, code : Codes])
      BY DEF TypeInv, TypeOK
    <2>2. \A i \in DOMAIN audit : audit[i] \in [conn : Conns, code : Codes]
      BY <2>1, ElementOfSeq, LenProperties
    <2>3. \A v \in Workers : pc[v] \notin Idle => local[v].conn \in Conns
      BY DEF TypeInv, WorkersAreSound, Fits
    <2>4. QED
      BY <2>1, <2>2, <2>3
  <1>4. \A c : (Logged(c))' <=> Logged(c)
    BY <1>1 DEF Logged
  <1>5. ~Logged(local[w].conn) /\ LogIsRight /\ EachIsHeldOnce
    BY <1>1 DEF LogInv, LogIsRight
  <1>6. \A i \in DOMAIN audit : reply'[audit[i].conn] = reply[audit[i].conn]
    <2>1. \A i \in DOMAIN audit : audit[i].conn # local[w].conn
      BY <1>5 DEF Logged
    <2>2. QED
      BY <1>1, <1>3, <2>1 DEF AnswersOwn
  <1>7. ASSUME NEW v \in Workers
        PROVE  /\ pc'[v] \notin Idle =>
                    ((Logged(local[v].conn))' <=> pc'[v] \in {"close", "end"})
               /\ pc'[v] \in Answered =>
                    /\ reply'[local'[v].conn] # None
                    /\ local'[v].res # None => reply'[local'[v].conn].code = local'[v].res
    <2>1. CASE v = w
      <3>1. (Logged(local[v].conn))' <=> Logged(local[v].conn)
        BY <1>1, <2>1 DEF Logged
      <3>2. pc[w] \in Answered =>
              /\ reply[local[w].conn] # None
              /\ local[w].res # None => reply[local[w].conn].code = local[w].res
        BY <1>5 DEF LogIsRight
      <3>3. QED
        BY <1>1, <1>5, <2>1, <3>1, <3>2 DEF AnswersOwn
    <2>2. CASE v # w
      <3>1. pc'[v] = pc[v] /\ local'[v] = local[v]
        BY <1>2, <2>2
      <3>2. (Logged(local[v].conn))' <=> Logged(local[v].conn)
        BY <1>1, <3>1 DEF Logged
      <3>3. pc[v] \notin Idle => reply'[local[v].conn] = reply[local[v].conn]
        <4>1. pc[v] \notin Idle => local[v].conn # local[w].conn
          BY <1>1, <1>5, <2>2 DEF EachIsHeldOnce
        <4>2. QED
          BY <1>1, <1>3, <4>1 DEF AnswersOwn
      <3>4. pc[v] \in Answered => pc[v] \notin Idle
        BY DEF Answered, Idle
      <3>5. QED
        BY <1>5, <3>1, <3>2, <3>3, <3>4 DEF LogIsRight
    <2>3. QED
      BY <2>1, <2>2
  <1>8. (~Logged(connfd))' /\ \A k \in DOMAIN queue' : (~Logged(queue[k]))'
    BY <1>1, <1>5 DEF LogIsRight, Logged
  <1>9. QED
    BY <1>1, <1>4, <1>5, <1>6, <1>7, <1>8 DEF LogIsRight, Logged

LEMMA LoggingKeepsLog ==
  ASSUME TypeInv, LogInv, NEW w \in Workers, Audit(w)
  PROVE  LogIsRight'
  <1> DEFINE line == [conn |-> local[w].conn, code |-> local[w].res]
  <1>1. /\ closed' = closed /\ queue' = queue /\ connfd' = connfd
        /\ request' = request /\ reply' = reply /\ local' = local
        /\ pc[w] = "audit" /\ pc' = [pc EXCEPT ![w] = "close"]
        /\ local[w].res # None /\ audit' = Append(audit, line)
    BY DEF Audit, process, network, GoTo
  <1>2. LogIsRight /\ EachIsHeldOnce /\ pc \in [Workers -> Places]
    BY DEF TypeInv, WorkersAreSound, LogInv
  <1>3. /\ audit \in Seq([conn : Conns, code : Codes])
        /\ line \in [conn : Conns, code : Codes]
        /\ request[local[w].conn] # None
    <2>1. /\ audit \in Seq([conn : Conns, code : Codes])
          /\ local \in [Workers -> Locals]
      BY DEF TypeInv, TypeOK, Locals
    <2>2. local[w].conn \in Conns /\ request[local[w].conn] # None
      BY <1>1 DEF TypeInv, WorkersAreSound, Fits, Idle
    <2>3. QED
      BY <1>1, <2>1, <2>2 DEF Locals
  <1>4. /\ Len(audit) \in Nat /\ DOMAIN audit = 1 .. Len(audit)
        /\ DOMAIN audit' = 1 .. Len(audit) + 1
        /\ \A i \in DOMAIN audit : audit'[i] = audit[i]
        /\ audit'[Len(audit) + 1] = line
    BY <1>1, <1>3, AppendProperties
  <1>5. /\ \A i \in DOMAIN audit' : \/ i \in DOMAIN audit /\ audit'[i] = audit[i]
                                    \/ i = Len(audit) + 1 /\ audit'[i] = line
        /\ DOMAIN audit \subseteq DOMAIN audit' /\ Len(audit) + 1 \in DOMAIN audit'
    BY <1>4
  <1>6. line.conn = local[w].conn /\ line.code = local[w].res
    OBVIOUS
  <1> HIDE DEF line
  <1>7. ASSUME NEW c
        PROVE  (\E i \in DOMAIN audit' : audit'[i].conn = c) <=> Logged(c) \/ c = local[w].conn
    BY <1>4, <1>5, <1>6 DEF Logged
  <1>8. pc[w] \notin Idle /\ ~Logged(local[w].conn)
    BY <1>1, <1>2 DEF LogIsRight, Idle
  <1>9. /\ reply[local[w].conn] # None
        /\ reply[local[w].conn].code = local[w].res
    BY <1>1, <1>2 DEF LogIsRight, Answered
  <1>10. \A i \in DOMAIN audit' : /\ request[audit'[i].conn] # None
                                  /\ reply[audit'[i].conn] # None
                                  /\ reply[audit'[i].conn].code = audit'[i].code
    BY <1>2, <1>3, <1>5, <1>6, <1>9 DEF LogIsRight
  <1>11. \A i, j \in DOMAIN audit' : audit'[i].conn = audit'[j].conn => i = j
    <2>1. \A i \in DOMAIN audit : audit[i].conn # local[w].conn
      BY <1>8 DEF Logged
    <2>2. \A i, j \in DOMAIN audit : audit[i].conn = audit[j].conn => i = j
      BY <1>2 DEF LogIsRight
    <2>3. QED
      BY <1>5, <1>6, <2>1, <2>2
  <1>12. \A c \in closed : Logged(c)
    BY <1>2 DEF LogIsRight
  <1>13. /\ ~Logged(connfd) /\ connfd # local[w].conn
         /\ \A k \in DOMAIN queue : ~Logged(queue[k]) /\ queue[k] # local[w].conn
    BY <1>2, <1>8 DEF LogIsRight, EachIsHeldOnce
  <1>14. ASSUME NEW v \in Workers
         PROVE  /\ pc'[v] \notin Idle =>
                    (Logged(local[v].conn) \/ local[v].conn = local[w].conn
                       <=> pc'[v] \in {"close", "end"})
                /\ pc'[v] \in Answered =>
                     /\ reply[local[v].conn] # None
                     /\ local[v].res # None => reply[local[v].conn].code = local[v].res
    <2>1. CASE v = w
      BY <1>1, <1>2, <1>9, <2>1
    <2>2. CASE v # w
      <3>1. pc'[v] = pc[v]
        BY <1>1, <1>2, <2>2
      <3>2. pc[v] \notin Idle => local[v].conn # local[w].conn
        BY <1>2, <1>8, <2>2 DEF EachIsHeldOnce
      <3>3. QED
        BY <1>2, <3>1, <3>2 DEF LogIsRight
    <2>3. QED
      BY <2>1, <2>2
  <1>15. /\ \A c \in closed' : \E i \in DOMAIN audit' : audit'[i].conn = c
         /\ ~ \E i \in DOMAIN audit' : audit'[i].conn = connfd'
         /\ \A k \in DOMAIN queue' : ~ \E i \in DOMAIN audit' : audit'[i].conn = queue'[k]
    BY <1>1, <1>7, <1>12, <1>13
  <1>16. ASSUME NEW v \in Workers
         PROVE  /\ pc'[v] \notin Idle =>
                     ((\E i \in DOMAIN audit' : audit'[i].conn = local'[v].conn)
                        <=> pc'[v] \in {"close", "end"})
                /\ pc'[v] \in Answered =>
                     /\ reply'[local'[v].conn] # None
                     /\ local'[v].res # None => reply'[local'[v].conn].code = local'[v].res
    BY <1>1, <1>7, <1>14
  <1>17. \A i \in DOMAIN audit' : /\ request'[audit'[i].conn] # None
                                  /\ reply'[audit'[i].conn] # None
                                  /\ reply'[audit'[i].conn].code = audit'[i].code
    BY <1>1, <1>10
  <1>18. QED
    BY <1>11, <1>15, <1>16, <1>17 DEF LogIsRight, Logged

\* The steps of no worker, or of one that logs and answers nothing: it is
\* enough to look at connections that are taken, handed on or dropped.
LEMMA LogIsKept ==
  ASSUME LogIsRight, audit' = audit, reply' = reply,
         \A i \in DOMAIN audit : request'[audit[i].conn] # None,
         \A c \in closed' : Logged(c),
         ~Logged(connfd'), \A k \in DOMAIN queue' : ~Logged(queue'[k]),
         \A v \in Workers :
           \/ pc'[v] = pc[v] /\ local'[v] = local[v]
           \/ pc'[v] \in Idle
           \/ pc'[v] = "start" /\ ~Logged(local'[v].conn)
           \/ pc[v] = "close" /\ pc'[v] = "end" /\ local'[v] = local[v]
  PROVE  LogIsRight'
  <1>1. /\ \A i \in DOMAIN audit' : /\ request'[audit'[i].conn] # None
                                    /\ reply'[audit'[i].conn] # None
                                    /\ reply'[audit'[i].conn].code = audit'[i].code
        /\ \A i, j \in DOMAIN audit' : audit'[i].conn = audit'[j].conn => i = j
        /\ \A c \in closed' : (Logged(c))'
    BY DEF LogIsRight, Logged
  <1>2. (~Logged(connfd))' /\ \A k \in DOMAIN queue' : (~Logged(queue[k]))'
    BY DEF Logged
  <1>3. ASSUME NEW v \in Workers
        PROVE  (/\ pc[v] \notin Idle => (Logged(local[v].conn) <=> pc[v] \in {"close", "end"})
                /\ pc[v] \in Answered =>
                     /\ reply[local[v].conn] # None
                     /\ local[v].res # None => reply[local[v].conn].code = local[v].res)'
    <2>1. /\ pc[v] \notin Idle => (Logged(local[v].conn) <=> pc[v] \in {"close", "end"})
          /\ pc[v] \in Answered =>
               /\ reply[local[v].conn] # None
               /\ local[v].res # None => reply[local[v].conn].code = local[v].res
      BY DEF LogIsRight
    <2>2. CASE \/ pc'[v] = pc[v] /\ local'[v] = local[v]
               \/ pc[v] = "close" /\ pc'[v] = "end" /\ local'[v] = local[v]
      BY <2>1, <2>2 DEF Logged, Idle, Answered
    <2>3. CASE pc'[v] \in Idle \/ (pc'[v] = "start" /\ ~Logged(local'[v].conn))
      BY <2>3 DEF Logged, Idle, Answered
    <2>4. QED
      BY <2>2, <2>3
  <1>4. QED
    BY <1>1, <1>2, <1>3 DEF LogIsRight

LEMMA NextLog == TypeInv /\ LogInv /\ [Next]_vars => LogIsRight'
  <1> SUFFICES ASSUME TypeInv, LogInv, [Next]_vars
               PROVE  LogIsRight'
    OBVIOUS
  <1>1. /\ TypeOK /\ WorkersAreSound /\ QueueIsWaiting /\ LogIsRight
        /\ queue \in Seq(Conns) /\ pc \in [Workers -> Places] /\ local \in [Workers -> Locals]
    BY DEF TypeInv, TypeOK, WorkersAreSound, Locals, LogInv
  <1>2. \A i \in DOMAIN audit : audit[i].conn \in Conns
    <2>1. audit \in Seq([conn : Conns, code : Codes])
      BY <1>1 DEF TypeOK
    <2>2. \A i \in DOMAIN audit : audit[i] \in [conn : Conns, code : Codes]
      BY <2>1, ElementOfSeq, LenProperties
    <2>3. QED
      BY <2>2
  <1>3. \A i \in DOMAIN audit : request'[audit[i].conn] # None
    BY <1>1, <1>2, RequestsAreKept DEF KeepsRequests, LogIsRight
  <1>4. ~Logged(None)
    BY <1>2, ServerAssumption DEF Logged
  <1>5. ASSUME NEW w \in Workers, job_pop(w) \/ job_end(w) \/ Close(w)
        PROVE  LogIsRight'
    <2>1. WorkerStep(w) /\ ~AuditCrashes(w)
      BY <1>5 DEF WorkerStep, AuditCrashes, job_pop, job_end, Close, GoTo
    <2>2. /\ \A v \in Workers \ {w} : pc'[v] = pc[v] /\ local'[v] = local[v]
          /\ connfd' = connfd /\ audit' = audit /\ reply' = reply
      BY <1>5, <2>1, OthersStay DEF job_pop, job_end, Close, process, network
    <2>3. CASE job_pop(w)
      <3>1. /\ closed' = closed /\ queue # <<>> /\ queue' = Tail(queue)
            /\ pc'[w] = "start"
        BY <1>1, <2>3 DEF job_pop, network, GoTo
      <3>2. /\ Head(queue) = queue[1] /\ 1 \in DOMAIN queue
            /\ \A k \in DOMAIN queue' : k + 1 \in DOMAIN queue /\ queue'[k] = queue[k + 1]
        BY <1>1, <3>1
      <3>3. local'[w].conn = Head(queue)
        <4>1. Goes(w, "pop", "start", WithConn(local[w], Head(queue)))
          BY <1>1, <2>3, DispatchEffects
        <4>2. WithConn(local[w], Head(queue)).conn = Head(queue)
          BY <1>1, <3>1, HeadIsWaiting, ConnSet
        <4>3. QED
          BY <1>1, <4>1, <4>2 DEF Goes
      <3>4. ~Logged(local'[w].conn) /\ \A k \in DOMAIN queue' : ~Logged(queue'[k])
        BY <1>1, <3>2, <3>3 DEF LogIsRight
      <3>5. (\A c \in closed' : Logged(c)) /\ ~Logged(connfd')
        BY <1>1, <2>2, <3>1 DEF LogIsRight
      <3>6. QED
        BY <1>1, <1>3, <2>2, <3>1, <3>4, <3>5, LogIsKept
    <2>4. CASE job_end(w)
      <3>1. closed' = closed /\ queue' = queue /\ pc'[w] \in Idle
        BY <1>1, <2>4 DEF job_end, network, GoTo, Idle
      <3>2. /\ \A c \in closed' : Logged(c)
            /\ ~Logged(connfd') /\ \A k \in DOMAIN queue' : ~Logged(queue'[k])
        BY <1>1, <2>2, <3>1 DEF LogIsRight
      <3>3. QED
        BY <1>1, <1>3, <2>2, <3>1, <3>2, LogIsKept
    <2>5. CASE Close(w)
      <3>1. /\ closed' = closed \cup {local[w].conn} /\ queue' = queue /\ local' = local
            /\ pc[w] = "close" /\ pc'[w] = "end"
        BY <1>1, <2>5 DEF Close, GoTo
      <3>2. /\ \A c \in closed' : Logged(c)
            /\ ~Logged(connfd') /\ \A k \in DOMAIN queue' : ~Logged(queue'[k])
        BY <1>1, <2>2, <3>1 DEF LogIsRight, Idle
      <3>3. QED
        BY <1>1, <1>3, <2>2, <3>1, <3>2, LogIsKept
    <2>6. QED
      BY <1>5, <2>3, <2>4, <2>5
  <1>6. ASSUME NEW w \in Workers, AuditCrashes(w)
        PROVE  LogIsRight'
    BY <1>6 DEF AuditCrashes, network, LogInv, LogIsRight, Logged
  <1>7. ASSUME NEW w \in Workers, CreateWorker(w)
        PROVE  LogIsRight'
    <2>1. /\ \A v \in Workers \ {w} : pc'[v] = pc[v]
          /\ pc'[w] \in Idle /\ local' = local
          /\ UNCHANGED <<connfd, queue, reply, closed, audit>>
      BY <1>1, <1>7 DEF CreateWorker, network, Idle
    <2>2. /\ \A c \in closed' : Logged(c)
          /\ ~Logged(connfd') /\ \A k \in DOMAIN queue' : ~Logged(queue'[k])
      BY <1>1, <2>1 DEF LogIsRight
    <2>3. QED
      BY <1>1, <1>3, <2>1, <2>2, LogIsKept
  <1>8. ASSUME NEW c \in Conns, ls_accept(c)
        PROVE  LogIsRight'
    <2>1. /\ connfd' = c /\ request[c] = None
          /\ UNCHANGED <<queue, reply, closed, audit, pc, local>>
      BY <1>8 DEF ls_accept
    <2>2. /\ \A d \in closed' : Logged(d)
          /\ ~Logged(connfd') /\ \A k \in DOMAIN queue' : ~Logged(queue'[k])
      BY <1>1, <2>1 DEF LogIsRight, Logged
    <2>3. QED
      BY <1>1, <1>3, <2>1, <2>2, LogIsKept
  <1>9. CASE job_push
    <2>1. /\ connfd' = None /\ connfd \in Conns /\ queue' = Append(queue, connfd)
          /\ UNCHANGED <<reply, closed, audit, pc, local>>
      BY <1>1, <1>9 DEF job_push, network, TypeOK
    <2>2. \A k \in DOMAIN queue' : \/ k \in DOMAIN queue /\ queue'[k] = queue[k]
                                   \/ queue'[k] = connfd
      <3>1. /\ Len(queue) \in Nat /\ DOMAIN queue = 1 .. Len(queue)
            /\ DOMAIN queue' = 1 .. Len(queue) + 1
            /\ \A k \in DOMAIN queue : queue'[k] = queue[k]
            /\ queue'[Len(queue) + 1] = connfd
        BY <1>1, <2>1, AppendProperties
      <3>2. QED
        BY <3>1
    <2>3. /\ \A d \in closed' : Logged(d)
          /\ ~Logged(connfd') /\ \A k \in DOMAIN queue' : ~Logged(queue'[k])
      BY <1>1, <1>4, <2>1, <2>2 DEF LogIsRight
    <2>4. QED
      BY <1>1, <1>3, <2>1, <2>3, LogIsKept
  <1>10. CASE CreateFails \/ UNCHANGED vars
    BY <1>1, <1>10 DEF CreateFails, vars, process, network, LogIsRight, Logged
  <1>11. ASSUME NEW w \in Workers, WorkerStep(w) \/ conn_recv_file(w)
         PROVE  LogIsRight'
    BY <1>5, <1>6, <1>11, AnsweringKeepsLog, LoggingKeepsLog
  <1>12. QED
    BY <1>7, <1>8, <1>9, <1>10, <1>11 DEF Next

LEMMA InitLog == Init => LogInv
  <1> SUFFICES ASSUME Init
               PROVE  LogInv
    OBVIOUS
  <1>1. queue = <<>> /\ audit = <<>> /\ closed = {}
    BY DEF Init
  <1>2. DOMAIN queue = {} /\ DOMAIN audit = {}
    BY <1>1
  <1>3. \A w \in Workers : pc[w] \in Idle /\ pc[w] \notin Answered
    BY DEF Init, Idle, Answered
  <1>4. QED
    BY <1>1, <1>2, <1>3 DEF LogInv, EachIsHeldOnce, LogIsRight, Logged

(***************************************************************************)
(* A closed connection has one line in the audit log, no connection has    *)
(* two, and every line gives the code of the answer that the server set    *)
(* out to send its client, however the workers interleave between sending, *)
(* logging and closing, and whether or not the sending failed.             *)
(***************************************************************************)
THEOREM LogAgreesWithReplies == Spec => []AuditMatchesReplies
  <1>1. LogIsRight => AuditMatchesReplies
    <2> SUFFICES ASSUME LogIsRight
                 PROVE  AuditMatchesReplies
      OBVIOUS
    <2>1. ASSUME NEW c \in closed
          PROVE  Cardinality({i \in DOMAIN audit : audit[i].conn = c}) = 1
      <3>1. PICK k \in DOMAIN audit : audit[k].conn = c
        BY <2>1 DEF LogIsRight, Logged
      <3>2. {i \in DOMAIN audit : audit[i].conn = c} = {k}
        BY <3>1 DEF LogIsRight
      <3>3. QED
        BY <3>2, FS_Singleton
    <2>2. QED
      BY <2>1 DEF LogIsRight, AuditMatchesReplies
  <1>2. TypeInv /\ LogInv /\ [Next]_vars => (TypeInv /\ LogInv)'
    BY NextTypeInv, NextCustody, NextLog DEF LogInv
  <1>3. Init => TypeInv /\ LogInv
    BY InitTypeInv, InitLog
  <1>4. TypeInv /\ LogInv => AuditMatchesReplies
    BY <1>1 DEF LogInv
  <1>5. QED
    BY <1>2, <1>3, <1>4, PTL DEF Spec

-----------------------------------------------------------------------------
(***************************************************************************)
(* The multi-threaded server implements FileStore: each request takes      *)
(* effect at one of the steps of its worker, for any number of workers,    *)
(* connections and URIs.  A GET takes effect when it is answered, a PUT    *)
(* when the rename is done; until then nobody was sent anything, and what  *)
(* the worker found of the file when it took the lock is still so.         *)
(***************************************************************************)
ForGet == {"get_slot", "get_lock", "stat", "open", "get_unlock"}
ForPut == {"mkstemp", "recv", "put_unlock", "respond"} \cup HasTemp
NoCode == {"start", "parse", "mkstemp", "recv"}

Readable == {"old", "whole", "torn"}

\* What a worker at q has in its variables l, besides what fits q.
Knows(q, l) ==
  /\ q \in Idle => l.conn = None /\ l.res = None
  /\ q \in NoCode => l.res = None
  /\ q \in HasTemp => \/ l.temp = "whole" /\ l.res = None
                      \/ l.temp = "torn" /\ l.res = 500 /\ "recv" \in Faults
  /\ q = "open" => l.stat[1] \in Readable
  /\ q \in ForGet => request[l.conn].method = "GET"
  /\ q \in ForPut => request[l.conn].method = "PUT"

\* Nobody is answered before the request is taken up.
NoEarlyReply ==
  /\ \A c \in Conns : request[c] = None => reply[c] = None
  /\ connfd # None => reply[connfd] = None
  /\ \A k \in DOMAIN queue : reply[queue[k]] = None
  /\ \A w \in Workers : pc[w] \notin Idle \cup Answered => reply[local[w].conn] = None

\* What access found is still so when rename is called.
ExistedIsRight ==
  \A w \in Workers : pc[w] = "rename" => (local[w].existed <=> Existed(w))

AllKnow == \A w \in Workers : Knows(pc[w], local[w])

StoreInv == AllKnow /\ NoEarlyReply /\ ExistedIsRight

-----------------------------------------------------------------------------
(* What a worker knows                                                     *)
LEMMA WorkerIsKnown ==
  ASSUME TypeInv, NEW w \in Workers
  PROVE  /\ TypeOK /\ WorkersAreSound /\ local[w] \in Locals
         /\ pc \in [Workers -> Places] /\ local \in [Workers -> Locals]
         /\ pc[w] \notin Idle => local[w].conn \in Conns /\ request[local[w].conn] # None
  <1>1. TypeOK /\ WorkersAreSound
    BY DEF TypeInv
  <1>2. pc \in [Workers -> Places] /\ local \in [Workers -> Locals]
    BY <1>1 DEF TypeOK, WorkersAreSound, Locals
  <1>3. pc[w] \notin Idle => local[w].conn \in Conns /\ request[local[w].conn] # None
    BY <1>1 DEF WorkersAreSound, Fits
  <1>4. QED
    BY <1>1, <1>2, <1>3

LEMMA Gone ==
  ASSUME TypeInv, NEW w \in Workers, NEW p, NEW q, NEW l, Goes(w, p, q, l)
  PROVE  pc'[w] = q /\ local'[w] = l
  BY WorkerIsKnown DEF Goes

LEMMA NextPlaceIsKnown ==
  ASSUME TypeInv, NEW w \in Workers, Knows(pc[w], local[w]),
         WorkerStep(w) \/ conn_recv_file(w), ~AuditCrashes(w)
  PROVE  Knows(pc'[w], local'[w])
  <1> DEFINE l == local[w]
  <1>1. TypeOK /\ QueueIsWaiting /\ l \in Locals
    BY WorkerIsKnown DEF TypeInv
  <1>2. ASSUME NEW p, NEW q, NEW m, Goes(w, p, q, m), Knows(p, l) => Knows(q, m)
        PROVE  Knows(pc'[w], local'[w])
    BY <1>2, Gone DEF Goes
  <1> USE DEF Idle, NoCode, HasTemp, ForGet, ForPut
  <1>3. CASE job_pop(w)
    <2>1. Head(queue) \in Conns
      BY <1>1, <1>3, HeadIsWaiting DEF job_pop
    <2>2. WithConn(l, Head(queue)).res = l.res
      BY <1>1, <2>1, ConnSet
    <2>3. Knows("pop", l) => Knows("start", WithConn(l, Head(queue)))
      BY <2>2 DEF Knows
    <2>4. QED
      BY <1>1, <1>2, <1>3, <2>3, DispatchEffects
  <1>4. CASE job_start(w)
    <2>1. Knows("start", l) => Knows("parse", l)
      BY DEF Knows
    <2>2. QED
      BY <1>1, <1>2, <1>4, <2>1, DispatchEffects
  <1>5. CASE ParseMalformed(w) \/ ParseOther(w)
    <2>1. \A m : Knows("audit", m)
      BY DEF Knows
    <2>2. QED
      BY <1>1, <1>2, <1>5, <2>1, DispatchEffects
  <1>6. CASE ParseOk(w)
    <2>1. CASE GoTo(w, "parse", "get_slot") /\ Asked(w).method = "GET"
      <3>1. Knows("parse", l) => Knows("get_slot", l)
        BY <2>1 DEF Knows, Asked
      <3>2. Goes(w, "parse", "get_slot", l)
        BY <1>1, <1>6, <2>1, GoToIs DEF ParseOk
      <3>3. QED
        BY <1>2, <3>1, <3>2
    <2>2. CASE GoTo(w, "parse", "mkstemp") /\ Asked(w).method = "PUT"
      <3>1. Knows("parse", l) => Knows("mkstemp", l)
        BY <2>2 DEF Knows, Asked
      <3>2. Goes(w, "parse", "mkstemp", l)
        BY <1>1, <1>6, <2>2, GoToIs DEF ParseOk
      <3>3. QED
        BY <1>2, <3>1, <3>2
    <2>3. QED
      BY <1>6, <2>1, <2>2 DEF ParseOk
  <1>7. CASE GetSlot(w)
    <2>1. Taken(Uri(w)) \in Slots
      BY <1>1, <1>7, SlotIsGot DEF GetSlot
    <2>2. WithSlot(l, Taken(Uri(w))).conn = l.conn
      BY <1>1, <2>1, SlotSet
    <2>3. Knows("get_slot", l) => Knows("get_lock", WithSlot(l, Taken(Uri(w))))
      BY <2>2 DEF Knows
    <2>4. QED
      BY <1>1, <1>2, <1>7, <2>3, GetEffects
  <1>8. CASE reader_lock(w)
    <2>1. Knows("get_lock", l) => Knows("stat", l)
      BY DEF Knows
    <2>2. QED
      BY <1>1, <1>2, <1>8, <2>1, GetEffects
  <1>9. ASSUME NEW p \in ForGet, NEW code \in Codes, Goes(w, p, "get_unlock", WithRes(l, code))
        PROVE  Knows(pc'[w], local'[w])
    <2>1. WithRes(l, code).conn = l.conn
      BY <1>1, ResSet
    <2>2. Knows(p, l) => Knows("get_unlock", WithRes(l, code))
      BY <2>1 DEF Knows
    <2>3. QED
      BY <1>2, <1>9, <2>2
  <1>10. CASE Stat(w)
    <2>1. CASE GoTo(w, "stat", "open") /\ Kind(Uri(w)) \in Readable /\ Set(w, "stat", files[Uri(w)])
      <3>1. files[Uri(w)] \in Contents
        BY <1>1, <2>1, UriIsUri DEF TypeInv, TypeOK, GoTo
      <3>2. /\ WithStat(l, files[Uri(w)]).stat = files[Uri(w)]
            /\ WithStat(l, files[Uri(w)]).conn = l.conn
        BY <1>1, <3>1, StatSet
      <3>3. Knows("stat", l) => Knows("open", WithStat(l, files[Uri(w)]))
        BY <2>1, <3>2 DEF Knows, Kind
      <3>4. QED
        BY <1>1, <1>2, <2>1, <3>3, GoToIs
    <2>2. CASE GoTo(w, "stat", "get_unlock") /\ \E code \in {403, 404} : Set(w, "res", code)
      BY <1>1, <1>9, <2>2, GoToIs DEF Codes
    <2>3. QED
      BY <1>10, <2>1, <2>2 DEF Stat, Readable
  <1>11. CASE OpenAndSend(w)
    BY <1>1, <1>9, <1>11, GetEffects DEF Codes
  <1>12. CASE job_reader_unlock_uri(w)
    <2>1. Knows("audit", l)
      BY DEF Knows
    <2>2. QED
      BY <1>1, <1>2, <1>12, <2>1, GetEffects
  <1>13. CASE MakeTemp(w)
    <2>1. Knows("mkstemp", l) => Knows("recv", l)
      BY DEF Knows
    <2>2. WithRes(l, 500).conn = l.conn
      BY <1>1, ResSet DEF Codes
    <2>3. Knows("mkstemp", l) => Knows("respond", WithRes(l, 500))
      BY <2>2, ZenonT(60) DEF Knows
    <2>4. QED
      BY <1>1, <1>2, <1>13, <2>1, <2>3, PutEffects
  <1>14. CASE conn_recv_file(w)
    <2>1. /\ WithTemp(l, "whole").conn = l.conn /\ WithTemp(l, "whole").temp = "whole"
          /\ WithTemp(l, "whole").res = l.res
      BY <1>1, TempSet
    <2>2. WithTemp(l, "torn") \in Locals /\ WithTemp(l, "torn").conn = l.conn
          /\ WithTemp(l, "torn").temp = "torn"
      BY <1>1, TempSet
    <2>3. /\ WithRes(WithTemp(l, "torn"), 500).conn = l.conn
          /\ WithRes(WithTemp(l, "torn"), 500).temp = "torn"
          /\ WithRes(WithTemp(l, "torn"), 500).res = 500
      BY <2>2, ResSet DEF Codes
    <2>4. Knows("recv", l) => Knows("put_slot", WithTemp(l, "whole"))
      BY <2>1, ZenonT(60) DEF Knows
    <2>5. ASSUME "recv" \in Faults
          PROVE  Knows("recv", l) => Knows("put_slot", WithRes(WithTemp(l, "torn"), 500))
      BY <2>3, <2>5, ZenonT(60) DEF Knows
    <2>6. \/ Goes(w, "recv", "put_slot", WithTemp(l, "whole"))
          \/ /\ "recv" \in Faults
             /\ Goes(w, "recv", "put_slot", WithRes(WithTemp(l, "torn"), 500))
      BY <1>1, <1>14, PutEffects
    <2>7. QED
      BY <1>2, <2>4, <2>5, <2>6
  <1>15. CASE PutSlot(w)
    <2>1. Taken(Uri(w)) \in Slots
      BY <1>1, <1>15, SlotIsGot DEF PutSlot
    <2>2. /\ WithSlot(l, Taken(Uri(w))).conn = l.conn /\ WithSlot(l, Taken(Uri(w))).res = l.res
          /\ WithSlot(l, Taken(Uri(w))).temp = l.temp
      BY <1>1, <2>1, SlotSet
    <2>3. Knows("put_slot", l) => Knows("put_lock", WithSlot(l, Taken(Uri(w))))
      BY <2>2, ZenonT(60) DEF Knows
    <2>4. QED
      BY <1>1, <1>2, <1>15, <2>3, PutEffects
  <1>16. CASE writer_lock(w)
    <2>1. Knows("put_lock", l) => Knows("access", l)
      BY DEF Knows
    <2>2. QED
      BY <1>1, <1>2, <1>16, <2>1, PutEffects
  <1>17. CASE Access(w)
    <2>1. Existed(w) \in BOOLEAN
      BY DEF Existed
    <2>2. /\ WithExisted(l, Existed(w)).conn = l.conn /\ WithExisted(l, Existed(w)).res = l.res
          /\ WithExisted(l, Existed(w)).temp = l.temp
      BY <1>1, <2>1, ExistedSet
    <2>3. Knows("access", l) => Knows("rename", WithExisted(l, Existed(w)))
      BY <2>2, ZenonT(60) DEF Knows
    <2>4. QED
      BY <1>1, <1>2, <1>17, <2>3, PutEffects
  <1>18. CASE Rename(w) \/ RenameFails(w)
    <2>1. PICK code : Goes(w, "rename", "put_unlock", WithRes(l, code))
      BY <1>1, <1>18, PutEffects
    <2>2. WithRes(l, code).conn = l.conn
      BY <1>1 DEF WithRes, Locals
    <2>3. Knows("rename", l) => Knows("put_unlock", WithRes(l, code))
      BY <2>2, ZenonT(60) DEF Knows
    <2>4. QED
      BY <1>2, <2>1, <2>3
  <1>19. CASE job_writer_unlock_uri(w)
    <2>1. Knows("put_unlock", l) => Knows("respond", l)
      BY DEF Knows
    <2>2. QED
      BY <1>1, <1>2, <1>19, <2>1, PutEffects
  <1>20. CASE Respond(w)
    <2>1. Knows("audit", l)
      BY DEF Knows
    <2>2. QED
      BY <1>1, <1>2, <1>20, <2>1, PutEffects
  <1>21. CASE Audit(w) \/ Close(w)
    <2>1. Knows("close", l) /\ Knows("end", l)
      BY DEF Knows
    <2>2. QED
      BY <1>1, <1>2, <1>21, <2>1, EndEffects
  <1>22. CASE job_end(w)
    <2>1. Knows("pop", NoLocals)
      BY DEF Knows, NoLocals
    <2>2. QED
      BY <1>1, <1>2, <1>22, <2>1, EndEffects
  <1>23. QED
    BY <1>3, <1>4, <1>5, <1>6, <1>7, <1>8, <1>10, <1>11, <1>12, <1>13, <1>14, <1>15, <1>16,
       <1>17, <1>18, <1>19, <1>20, <1>21, <1>22 DEF WorkerStep

LEMMA NextKnows == TypeInv /\ AllKnow /\ [Next]_vars => AllKnow'
  <1> SUFFICES ASSUME TypeInv, AllKnow, [Next]_vars
               PROVE  AllKnow'
    OBVIOUS
  <1>1. KeepsRequests /\ TypeOK /\ WorkersAreSound
    BY RequestsAreKept DEF TypeInv
  <1>2. ASSUME NEW v \in Workers, pc'[v] = pc[v], local'[v] = local[v]
        PROVE  Knows(pc[v], local[v])'
    <2>1. pc[v] \in Idle \/ request'[local[v].conn] = request[local[v].conn]
      BY <1>1, WorkerIsKnown DEF KeepsRequests
    <2>2. pc[v] \in Idle => pc[v] \notin ForGet \cup ForPut
      BY DEF Idle, ForGet, ForPut, HasTemp
    <2>3. QED
      BY <1>2, <2>1, <2>2 DEF AllKnow, Knows
  <1>3. ASSUME NEW w \in Workers, WorkerStep(w) \/ conn_recv_file(w), ~AuditCrashes(w)
        PROVE  AllKnow'
    <2>1. request' = request /\ Knows(pc'[w], local'[w])
      BY <1>3, NextPlaceIsKnown, WorkersDoNotAccept DEF AllKnow
    <2>2. Knows(pc[w], local[w])'
      BY <2>1 DEF Knows
    <2>3. QED
      BY <1>2, <1>3, <2>2, OthersStay DEF AllKnow
  <1>4. ASSUME NEW w \in Workers, CreateWorker(w)
        PROVE  AllKnow'
    <2>1. /\ local' = local /\ pc' = [pc EXCEPT ![w] = "pop"] /\ pc[w] = "not created"
      BY <1>1, <1>4 DEF CreateWorker, WorkersAreSound
    <2>2. /\ pc'[w] = "pop" /\ \A v \in Workers \ {w} : pc'[v] = pc[v]
      BY <2>1, WorkerIsKnown
    <2>3. Knows(pc[w], local[w])'
      BY <2>1, <2>2 DEF AllKnow, Knows, Idle, NoCode, HasTemp, ForGet, ForPut
    <2>4. QED
      BY <1>2, <2>1, <2>2, <2>3 DEF AllKnow
  <1>5. ASSUME UNCHANGED <<pc, local>>
        PROVE  AllKnow'
    BY <1>2, <1>5 DEF AllKnow
  <1>6. ASSUME NEW w \in Workers, AuditCrashes(w)
        PROVE  AllKnow'
    BY <1>5, <1>6 DEF AuditCrashes
  <1>7. CASE CreateFails \/ job_push \/ UNCHANGED vars \/ \E c \in Conns : ls_accept(c)
    BY <1>5, <1>7 DEF CreateFails, job_push, vars, ls_accept
  <1>8. QED
    BY <1>3, <1>4, <1>6, <1>7 DEF Next

-----------------------------------------------------------------------------
(* Nobody is answered early                                                *)

\* A step that does not leave its worker with an answer sent sends none.
LEMMA AnswersAreSent ==
  ASSUME TypeInv, NEW w \in Workers, WorkerStep(w) \/ conn_recv_file(w),
         ~job_pop(w), ~job_end(w), ~AuditCrashes(w)
  PROVE  /\ pc'[w] \notin Answered => reply' = reply /\ pc[w] \notin Answered
         /\ \A c \in Conns : c # local[w].conn => reply'[c] = reply[c]
  <1>1. pc \in [Workers -> Places]
    BY WorkerIsKnown
  <1>2. CASE Audit(w) \/ Close(w)
    BY <1>1, <1>2 DEF Audit, Close, GoTo, network, Answered
  <1>3. CASE ~(Audit(w) \/ Close(w))
    <2>1. AnswersOwn(w)
      BY <1>3, AnswersAreOwn
    <2>2. ASSUME pc'[w] \notin Answered
          PROVE  reply' = reply /\ pc[w] \notin Answered
      <3>1. CASE \/ job_start(w) \/ ParseOk(w) \/ GetSlot(w) \/ reader_lock(w) \/ MakeTemp(w)
                 \/ conn_recv_file(w) \/ PutSlot(w) \/ writer_lock(w) \/ Access(w)
                 \/ Rename(w) \/ RenameFails(w) \/ job_writer_unlock_uri(w)
        BY <1>1, <3>1 DEF network, Answered, GoTo, job_start, ParseOk, GetSlot, reader_lock,
          MakeTemp, conn_recv_file, PutSlot, writer_lock, Access, Rename, RenameFails,
          job_writer_unlock_uri
      <3>2. CASE \/ ParseMalformed(w) \/ ParseOther(w) \/ Respond(w) \/ OpenAndSend(w)
                 \/ job_reader_unlock_uri(w)
        BY <1>1, <2>2, <3>2 DEF Answered, GoTo, ParseMalformed, ParseOther, Respond,
          OpenAndSend, job_reader_unlock_uri
      <3>3. CASE Stat(w)
        BY <1>1, <2>2, <3>3 DEF Answered, GoTo, Stat
      <3>4. QED
        BY <1>3, <3>1, <3>2, <3>3 DEF WorkerStep
    <2>3. QED
      BY <2>1, <2>2 DEF AnswersOwn
  <1>4. QED
    BY <1>2, <1>3

LEMMA NextReplies ==
  TypeInv /\ EachIsHeldOnce /\ NoEarlyReply /\ [Next]_vars => NoEarlyReply'
  <1> SUFFICES ASSUME TypeInv, EachIsHeldOnce, NoEarlyReply, [Next]_vars
               PROVE  NoEarlyReply'
    OBVIOUS
  <1>1. /\ QueueIsWaiting /\ queue \in Seq(Conns) /\ connfd \in Conns \cup {None}
        /\ pc \in [Workers -> Places] /\ local \in [Workers -> Locals]
        /\ \A k \in DOMAIN queue : queue[k] \in Conns
        /\ \A v \in Workers : pc[v] \notin Idle =>
             local[v].conn \in Conns /\ request[local[v].conn] # None
    <2>1. /\ QueueIsWaiting /\ queue \in Seq(Conns) /\ connfd \in Conns \cup {None}
          /\ pc \in [Workers -> Places] /\ local \in [Workers -> Locals]
          /\ WorkersAreSound
      BY DEF TypeInv, TypeOK, WorkersAreSound, Locals
    <2>2. \A k \in DOMAIN queue : queue[k] \in Conns
      BY <2>1, ElementOfSeq, LenProperties
    <2>3. QED
      BY <2>1, <2>2 DEF WorkersAreSound, Fits
  <1>2. ASSUME NEW w \in Workers, WorkerStep(w) \/ conn_recv_file(w),
               ~job_pop(w), ~job_end(w), ~AuditCrashes(w)
        PROVE  NoEarlyReply'
    <2>1. /\ pc[w] \notin Idle /\ pc'[w] \notin Idle /\ local'[w].conn = local[w].conn
          /\ queue' = queue /\ connfd' = connfd /\ request' = request
      BY <1>2, ConnIsKept, WorkersDoNotAccept
    <2>2. /\ pc'[w] \notin Answered => reply' = reply /\ pc[w] \notin Answered
          /\ \A c \in Conns : c # local[w].conn => reply'[c] = reply[c]
      BY <1>2, AnswersAreSent
    <2>3. \A v \in Workers \ {w} : pc'[v] = pc[v] /\ local'[v] = local[v]
      BY <1>2, OthersStay
    <2>4. \A c \in Conns : request[c] = None => reply'[c] = None
      BY <1>1, <2>1, <2>2 DEF NoEarlyReply
    <2>5. /\ connfd # None => reply'[connfd] = None
          /\ \A k \in DOMAIN queue : reply'[queue[k]] = None
      BY <1>1, <2>1, <2>2 DEF NoEarlyReply, EachIsHeldOnce
    <2>6. ASSUME NEW v \in Workers, pc'[v] \notin Idle \cup Answered
          PROVE  reply'[local'[v].conn] = None
      <3>1. CASE v = w
        BY <2>1, <2>2, <2>6, <3>1 DEF NoEarlyReply
      <3>2. CASE v # w
        <4>1. pc'[v] = pc[v] /\ local'[v] = local[v] /\ local[v].conn # local[w].conn
          BY <2>1, <2>3, <2>6, <3>2 DEF EachIsHeldOnce
        <4>2. QED
          BY <1>1, <2>2, <2>6, <4>1 DEF NoEarlyReply
      <3>3. QED
        BY <3>1, <3>2
    <2>7. QED
      BY <2>1, <2>4, <2>5, <2>6 DEF NoEarlyReply
  <1>3. ASSUME NEW w \in Workers, job_pop(w)
        PROVE  NoEarlyReply'
    <2>1. /\ pc[w] = "pop" /\ pc' = [pc EXCEPT ![w] = "start"] /\ ~AuditCrashes(w)
          /\ queue # <<>> /\ queue' = Tail(queue) /\ reply' = reply
          /\ connfd' = connfd /\ request' = request
      BY <1>3 DEF job_pop, GoTo, network, process, AuditCrashes
    <2>2. \A v \in Workers \ {w} : pc'[v] = pc[v] /\ local'[v] = local[v]
      BY <1>3, <2>1, OthersStay DEF WorkerStep
    <2>3. local'[w].conn = Head(queue) /\ reply[Head(queue)] = None
      <3>1. TypeOK /\ Head(queue) \in Conns
        BY <2>1, HeadIsWaiting DEF TypeInv
      <3>2. local'[w] = WithConn(local[w], Head(queue))
        BY <1>3, <3>1, DispatchEffects, Gone
      <3>3. WithConn(local[w], Head(queue)).conn = Head(queue)
        BY <1>1, <3>1, ConnSet
      <3>4. Head(queue) = queue[1] /\ 1 \in DOMAIN queue
        BY <1>1, <2>1
      <3>5. QED
        BY <3>2, <3>3, <3>4 DEF NoEarlyReply
    <2>4. \A k \in DOMAIN queue' : k + 1 \in DOMAIN queue /\ queue'[k] = queue[k + 1]
      BY <1>1, <2>1
    <2>5. \A k \in DOMAIN queue' : reply[queue'[k]] = None
      BY <2>4 DEF NoEarlyReply
    <2>6. \A v \in Workers : pc'[v] \notin Idle \cup Answered => reply[local'[v].conn] = None
      BY <2>2, <2>3 DEF NoEarlyReply
    <2>7. QED
      BY <2>1, <2>5, <2>6 DEF NoEarlyReply
  <1>4. ASSUME UNCHANGED <<queue, connfd, request, reply>>,
               \A v \in Workers : (pc'[v] = pc[v] /\ local'[v] = local[v]) \/ pc'[v] \in Idle
        PROVE  NoEarlyReply'
    BY <1>4 DEF NoEarlyReply
  <1>5. ASSUME NEW w \in Workers, job_end(w)
        PROVE  NoEarlyReply'
    <2>1. /\ UNCHANGED <<queue, connfd, request, reply>> /\ ~AuditCrashes(w)
          /\ pc'[w] \in Idle
      BY <1>1, <1>5 DEF job_end, GoTo, network, process, AuditCrashes, Idle
    <2>2. \A v \in Workers \ {w} : pc'[v] = pc[v] /\ local'[v] = local[v]
      BY <1>5, <2>1, OthersStay DEF WorkerStep
    <2>3. QED
      BY <1>4, <2>1, <2>2
  <1>6. ASSUME NEW w \in Workers, AuditCrashes(w) \/ CreateWorker(w)
        PROVE  NoEarlyReply'
    BY <1>1, <1>4, <1>6 DEF AuditCrashes, CreateWorker, network, process, Idle
  <1>7. ASSUME NEW c \in Conns, ls_accept(c)
        PROVE  NoEarlyReply'
    <2>1. /\ connfd' = c /\ request[c] = None /\ UNCHANGED <<queue, reply, pc, local>>
          /\ \A d \in Conns : request'[d] = None => request[d] = None
      BY <1>7, ServerAssumption DEF ls_accept, TypeInv, TypeOK
    <2>2. QED
      BY <2>1 DEF NoEarlyReply
  <1>8. CASE job_push
    <2>1. /\ connfd # None /\ connfd' = None /\ queue' = Append(queue, connfd)
          /\ UNCHANGED <<reply, request, pc, local>>
      BY <1>8 DEF job_push, network
    <2>2. \A k \in DOMAIN queue' : \/ k \in DOMAIN queue /\ queue'[k] = queue[k]
                                   \/ queue'[k] = connfd
      <3>1. /\ Len(queue) \in Nat /\ DOMAIN queue = 1 .. Len(queue)
            /\ DOMAIN queue' = 1 .. Len(queue) + 1
            /\ \A k \in DOMAIN queue : queue'[k] = queue[k]
            /\ queue'[Len(queue) + 1] = connfd
        BY <1>1, <2>1, AppendProperties
      <3>2. QED
        BY <3>1
    <2>3. \A k \in DOMAIN queue' : reply[queue'[k]] = None
      BY <2>1, <2>2 DEF NoEarlyReply
    <2>4. QED
      BY <2>1, <2>3 DEF NoEarlyReply
  <1>9. CASE CreateFails \/ UNCHANGED vars
    BY <1>4, <1>9 DEF CreateFails, vars, network, process
  <1>10. QED
    BY <1>2, <1>3, <1>5, <1>6, <1>7, <1>8, <1>9 DEF Next

-----------------------------------------------------------------------------
(* What access found stays so                                              *)
LEMMA NextExisted ==
  TypeInv /\ LocksAreHeld /\ ExistedIsRight /\ [Next]_vars => ExistedIsRight'
  <1> SUFFICES ASSUME TypeInv, LocksAreHeld, ExistedIsRight, [Next]_vars
               PROVE  ExistedIsRight'
    OBVIOUS
  <1>1. /\ TypeOK /\ WorkersAreSound /\ KeepsRequests
        /\ pc \in [Workers -> Places] /\ files \in [Uris -> Contents]
        /\ local \in [Workers -> Locals]
    BY RequestsAreKept DEF TypeInv, TypeOK, WorkersAreSound, Locals
  \* A writer keeps its URI, and what it found is right if the file is the same.
  <1>2. ASSUME NEW v \in Workers, pc[v] = "rename", local'[v] = local[v],
               files'[Uri(v)] = files[Uri(v)]
        PROVE  local'[v].existed <=> (Existed(v))'
    <2>1. local[v].conn \in Conns /\ request[local[v].conn] # None
      BY <1>1, <1>2 DEF WorkersAreSound, Fits, Idle
    <2>2. Uri(v)' = Uri(v)
      BY <1>1, <1>2, <2>1 DEF KeepsRequests, Uri, Asked
    <2>3. (Existed(v))' <=> Existed(v)
      BY <1>2, <2>2 DEF Existed, Kind
    <2>4. QED
      BY <1>2, <2>3 DEF ExistedIsRight
  <1>3. ASSUME NEW w \in Workers, Access(w)
        PROVE  ExistedIsRight'
    <2>1. ~AuditCrashes(w) /\ files' = files /\ request' = request
      BY <1>3 DEF Access, GoTo, AuditCrashes, network
    <2>2. \A v \in Workers \ {w} : pc'[v] = pc[v] /\ local'[v] = local[v]
      BY <1>3, <2>1, OthersStay DEF WorkerStep
    <2>3. local'[w].existed <=> (Existed(w))'
      <3>1. Existed(w) \in BOOLEAN
        BY DEF Existed
      <3>2. local'[w] = WithExisted(local[w], Existed(w))
        BY <1>1, <1>3, PutEffects, Gone
      <3>3. /\ WithExisted(local[w], Existed(w)).existed = Existed(w)
            /\ WithExisted(local[w], Existed(w)).conn = local[w].conn
        BY <1>1, <3>1, ExistedSet, SMTT(30)
      <3>4. (Existed(w))' <=> Existed(w)
        BY <2>1, <3>2, <3>3, Zenon DEF Existed, Kind, Uri, Asked
      <3>5. QED
        BY <3>2, <3>3, <3>4
    <2>4. QED
      BY <1>2, <2>1, <2>2, <2>3 DEF ExistedIsRight
  <1>4. ASSUME NEW w \in Workers, Rename(w)
        PROVE  ExistedIsRight'
    <2>1. /\ pc[w] = "rename" /\ pc'[w] = "put_unlock" /\ ~AuditCrashes(w)
          /\ files' = [files EXCEPT ![Uri(w)] = <<local[w].temp, local[w].conn>>]
      BY <1>1, <1>4 DEF Rename, GoTo, AuditCrashes
    <2>2. \A v \in Workers \ {w} : pc'[v] = pc[v] /\ local'[v] = local[v]
      BY <1>4, <2>1, OthersStay DEF WorkerStep
    <2>3. ASSUME NEW v \in Workers, pc'[v] = "rename"
          PROVE  local'[v].existed <=> (Existed(v))'
      <3>1. v # w /\ pc[v] = "rename" /\ local'[v] = local[v]
        BY <2>1, <2>2, <2>3
      <3>2. Uri(v) # Uri(w) /\ Uri(v) \in Uris
        BY <1>1, <2>1, <3>1, HoldersAreApart, UriIsUri
        DEF FileExclusion, HoldsForReading, HoldsForWriting, Idle
      <3>3. files'[Uri(v)] = files[Uri(v)]
        BY <1>1, <2>1, <3>2
      <3>4. QED
        BY <1>2, <3>1, <3>3
    <2>4. QED
      BY <2>3 DEF ExistedIsRight
  <1>5. ASSUME files' = files,
               \A v \in Workers : pc'[v] = "rename" => pc[v] = "rename" /\ local'[v] = local[v]
        PROVE  ExistedIsRight'
    BY <1>2, <1>5 DEF ExistedIsRight
  <1>6. ASSUME NEW w \in Workers, WorkerStep(w) \/ conn_recv_file(w), ~Access(w), ~Rename(w)
        PROVE  ExistedIsRight'
    <2>1. files' = files
      BY <1>6 DEF WorkerStep, conn_recv_file, job_pop, job_start, ParseMalformed, ParseOther,
                  ParseOk, GetSlot, reader_lock, Stat, OpenAndSend, job_reader_unlock_uri,
                  MakeTemp, PutSlot, writer_lock, RenameFails,
                  job_writer_unlock_uri, Respond, Audit, AuditCrashes, Close, job_end
    <2>2. CASE AuditCrashes(w)
      BY <1>5, <2>1, <2>2 DEF AuditCrashes
    <2>3. CASE ~AuditCrashes(w)
      <3>1. pc'[w] # "rename"
        BY <1>1, <1>6, <2>3
        DEF WorkerStep, conn_recv_file, GoTo, job_pop, job_start, ParseMalformed,
            ParseOther, ParseOk, GetSlot, reader_lock, Stat, OpenAndSend,
            job_reader_unlock_uri, MakeTemp, PutSlot, writer_lock, RenameFails,
            job_writer_unlock_uri, Respond, Audit, Close, job_end
      <3>2. QED
        BY <1>5, <1>6, <2>1, <2>3, <3>1, OthersStay
    <2>4. QED
      BY <2>2, <2>3
  <1>7. ASSUME NEW w \in Workers, CreateWorker(w)
        PROVE  ExistedIsRight'
    BY <1>1, <1>5, <1>7 DEF CreateWorker
  <1>8. CASE CreateFails \/ job_push \/ UNCHANGED vars \/ \E c \in Conns : ls_accept(c)
    BY <1>5, <1>8 DEF CreateFails, job_push, vars, ls_accept
  <1>9. QED
    BY <1>3, <1>4, <1>6, <1>7, <1>8 DEF Next

LEMMA InitStore == Init => StoreInv
  <1> SUFFICES ASSUME Init
               PROVE  StoreInv
    OBVIOUS
  <1>1. \A w \in Workers : pc[w] = "not created" /\ local[w] = NoLocals
    BY DEF Init
  <1>2. AllKnow
    <2>1. Knows("not created", NoLocals)
      BY DEF Knows, NoLocals, Idle, NoCode, HasTemp, ForGet, ForPut
    <2>2. QED
      BY <1>1, <2>1 DEF AllKnow
  <1>3. NoEarlyReply
    <2>1. connfd = None /\ queue = <<>> /\ \A c \in Conns : reply[c] = None
      BY DEF Init
    <2>2. DOMAIN queue = {}
      BY <2>1
    <2>3. QED
      BY <1>1, <2>1, <2>2 DEF NoEarlyReply, Idle
  <1>4. ExistedIsRight
    BY <1>1 DEF ExistedIsRight
  <1>5. QED
    BY <1>2, <1>3, <1>4 DEF StoreInv

-----------------------------------------------------------------------------
(* What is decided for a connection, from the replies and from its worker  *)
Decisions == {"put_unlock", "respond", "get_unlock", "audit", "close"}

OutcomeOf(r, p, l) ==
  [c \in Conns |->
     IF r[c] # None THEN r[c]
     ELSE IF \E w \in Workers : l[w].conn = c /\ p[w] \in Decisions
     THEN LET w == CHOOSE w \in Workers : l[w].conn = c
          IN  Reply(l[w].res, None)
     ELSE None]

\* The same, with the worker that has the connection at p and its result res.
Verdict(r, q, res) == IF r # None THEN r
                      ELSE IF q \in Decisions THEN Reply(res, None) ELSE None

OneHolder(l) == \A v, w \in Workers : l[v].conn \in Conns /\ l[v].conn = l[w].conn => v = w

LEMMA OutcomeIs ==
  /\ Outcome = OutcomeOf(reply, pc, local)
  /\ Outcome' = OutcomeOf(reply', pc', local')
  BY DEF Outcome, OutcomeOf, Decided, Decisions

LEMMA OutcomeHeld ==
  ASSUME NEW r, NEW p, NEW l, OneHolder(l), NEW w \in Workers, NEW c \in Conns, l[w].conn = c
  PROVE  OutcomeOf(r, p, l)[c] = Verdict(r[c], p[w], l[w].res)
  <1>1. (CHOOSE v \in Workers : l[v].conn = c) = w
    BY DEF OneHolder
  <1>2. (\E v \in Workers : l[v].conn = c /\ p[v] \in Decisions) <=> p[w] \in Decisions
    BY DEF OneHolder
  <1>3. OutcomeOf(r, p, l)[c] =
          IF r[c] # None THEN r[c]
          ELSE IF \E v \in Workers : l[v].conn = c /\ p[v] \in Decisions
          THEN Reply(l[CHOOSE v \in Workers : l[v].conn = c].res, None) ELSE None
    BY DEF OutcomeOf
  <1>4. QED
    BY <1>1, <1>2, <1>3 DEF Verdict

LEMMA OutcomeFree ==
  ASSUME NEW r, NEW p, NEW l, NEW c \in Conns, \A w \in Workers : l[w].conn # c
  PROVE  OutcomeOf(r, p, l)[c] = r[c]
  BY DEF OutcomeOf

LEMMA OutcomeStays ==
  ASSUME NEW r, NEW p, NEW l, NEW r2, NEW p2, NEW l2, OneHolder(l), OneHolder(l2),
         NEW c \in Conns, r2[c] = r[c],
         \A v \in Workers : l[v].conn = c \/ l2[v].conn = c => p2[v] = p[v] /\ l2[v] = l[v]
  PROVE  OutcomeOf(r2, p2, l2)[c] = OutcomeOf(r, p, l)[c]
  <1>1. CASE \E v \in Workers : l[v].conn = c
    <2>1. PICK v \in Workers : l[v].conn = c
      BY <1>1
    <2>2. p2[v] = p[v] /\ l2[v] = l[v]
      BY <2>1
    <2>3. QED
      BY <2>1, <2>2, OutcomeHeld
  <1>2. CASE \A v \in Workers : l[v].conn # c
    <2>1. \A v \in Workers : l2[v].conn # c
      BY <1>2
    <2>2. QED
      BY <1>2, <2>1, OutcomeFree
  <1>3. QED
    BY <1>1, <1>2

LEMMA HoldersAreOne ==
  /\ EachIsHeldOnce /\ AllKnow => OneHolder(local)
  /\ (EachIsHeldOnce /\ AllKnow)' => OneHolder(local')
  <1>1. None \notin Conns
    BY ServerAssumption
  <1>2. EachIsHeldOnce /\ AllKnow => OneHolder(local)
    BY <1>1 DEF EachIsHeldOnce, AllKnow, Knows, OneHolder
  <1>3. (EachIsHeldOnce /\ AllKnow)' => OneHolder(local')
    BY <1>1 DEF EachIsHeldOnce, AllKnow, Knows, OneHolder
  <1>4. QED
    BY <1>2, <1>3

-----------------------------------------------------------------------------
(* What a step of a worker decides                                         *)
Sound == TypeInv /\ LocksAreHeld /\ EachIsHeldOnce /\ StoreInv

LEMMA VerdictBefore ==
  ASSUME Sound, Sound', NEW w \in Workers, WorkerStep(w) \/ conn_recv_file(w),
         ~job_pop(w), ~job_end(w), ~AuditCrashes(w)
  PROVE  /\ local[w].conn \in Conns /\ request' = request
         /\ Outcome[local[w].conn] = Verdict(reply[local[w].conn], pc[w], local[w].res)
         /\ Outcome'[local[w].conn] = Verdict(reply'[local[w].conn], pc'[w], local'[w].res)
         /\ Outcome' = [Outcome EXCEPT ![local[w].conn] = Outcome'[local[w].conn]]
  <1> DEFINE c == local[w].conn
  <1>1. /\ c \in Conns /\ local'[w].conn = c /\ request' = request
    BY WorkerIsKnown, ConnIsKept, WorkersDoNotAccept DEF Sound
  <1>2. OneHolder(local) /\ OneHolder(local')
    BY HoldersAreOne DEF Sound, StoreInv
  <1>3. Outcome[c] = Verdict(reply[c], pc[w], local[w].res)
    BY <1>1, <1>2, OutcomeHeld, OutcomeIs
  <1>4. Outcome'[c] = Verdict(reply'[c], pc'[w], local'[w].res)
    BY <1>1, <1>2, OutcomeHeld, OutcomeIs
  <1>5. ASSUME NEW d \in Conns, d # c
        PROVE  Outcome'[d] = Outcome[d]
    <2>1. \A v \in Workers \ {w} : pc'[v] = pc[v] /\ local'[v] = local[v]
      BY OthersStay DEF Sound
    <2>2. reply'[d] = reply[d]
      BY <1>5, AnswersAreSent DEF Sound
    <2>3. \A v \in Workers : local[v].conn = d \/ local'[v].conn = d =>
            pc'[v] = pc[v] /\ local'[v] = local[v]
      BY <1>1, <1>5, <2>1
    <2>4. OutcomeOf(reply', pc', local')[d] = OutcomeOf(reply, pc, local)[d]
      BY <1>2, <2>2, <2>3, OutcomeStays
    <2>5. QED
      BY <2>4, OutcomeIs
  <1>6. Outcome = [d \in Conns |-> Outcome[d]] /\ Outcome' = [d \in Conns |-> Outcome'[d]]
    BY DEF Outcome
  <1>7. Outcome' = [Outcome EXCEPT ![c] = Outcome'[c]]
    BY <1>1, <1>5, <1>6
  <1>8. QED
    BY <1>1, <1>3, <1>4, <1>7

\* A step that neither decides anything nor follows on what decided it.
LEMMA UndecidedStays ==
  ASSUME Sound, Sound', NEW w \in Workers, WorkerStep(w) \/ conn_recv_file(w),
         ~job_pop(w), ~job_end(w), ~AuditCrashes(w),
         pc[w] \notin Decisions, pc'[w] \notin Decisions \cup {"end"}
  PROVE  Outcome' = Outcome
  <1>1. pc'[w] \notin Answered
    BY DEF Answered, Decisions
  <1>2. reply' = reply /\ pc[w] \notin Answered /\ pc[w] \notin Idle
    BY <1>1, AnswersAreSent, ConnIsKept DEF Sound
  <1>3. reply[local[w].conn] = None
    BY <1>2 DEF Sound, StoreInv, NoEarlyReply
  <1>4. Outcome'[local[w].conn] = Outcome[local[w].conn]
    BY <1>2, <1>3, VerdictBefore DEF Verdict
  <1>5. Outcome = [d \in Conns |-> Outcome[d]]
    BY DEF Outcome
  <1>6. QED
    BY <1>4, <1>5, VerdictBefore

\* What is decided stays decided when it is sent, logged and forgotten.
LEMMA DecidedStays ==
  ASSUME Sound, Sound', LogIsRight, NEW w \in Workers,
         \/ job_reader_unlock_uri(w) \/ job_writer_unlock_uri(w) \/ Respond(w)
         \/ Audit(w) \/ Close(w)
  PROVE  Outcome' = Outcome
  <1> DEFINE c == local[w].conn
  <1>1. /\ WorkerStep(w) /\ ~job_pop(w) /\ ~job_end(w) /\ ~AuditCrashes(w)
    BY DEF WorkerStep, job_reader_unlock_uri, job_writer_unlock_uri, Respond, Audit, Close,
      GoTo, job_pop, job_end, AuditCrashes
  <1>2. c \in Conns /\ pc \in [Workers -> Places] /\ local' = local
    BY <1>1, VerdictBefore, WorkerIsKnown DEF Sound, job_reader_unlock_uri,
      job_writer_unlock_uri, Respond, Audit, Close
  <1>3. Verdict(reply'[c], pc'[w], local'[w].res) = Verdict(reply[c], pc[w], local[w].res)
    <2>1. CASE job_reader_unlock_uri(w) \/ Audit(w) \/ Close(w)
      <3>1. reply' = reply /\ pc[w] \in Answered
        BY <2>1 DEF job_reader_unlock_uri, Audit, Close, GoTo, network, Answered
      <3>2. reply[c] # None
        BY <3>1 DEF LogIsRight
      <3>3. QED
        BY <3>1, <3>2 DEF Verdict
    <2>2. CASE job_writer_unlock_uri(w)
      <3>1. reply' = reply /\ pc[w] = "put_unlock" /\ pc'[w] = "respond"
        BY <1>2, <2>2 DEF job_writer_unlock_uri, GoTo, network
      <3>2. QED
        BY <1>2, <3>1 DEF Verdict, Decisions
    <2>3. CASE Respond(w)
      <3>1. /\ pc[w] = "respond"
            /\ reply' = [reply EXCEPT ![c] = Reply(local[w].res, None)]
        BY <2>3 DEF Respond, GoTo, conn_send_response
      <3>2. reply[c] = None
        BY <3>1 DEF Sound, StoreInv, NoEarlyReply, Idle, Answered
      <3>3. Verdict(reply[c], pc[w], local[w].res) = Reply(local[w].res, None)
        BY <3>1, <3>2 DEF Verdict, Decisions
      <3>4. reply'[c] = Reply(local[w].res, None)
        BY <1>2, <3>1 DEF Sound, TypeInv, TypeOK
      <3>5. reply'[c] # None
        <4>1. local[w].res \in Codes
          <5>1. local[w].res # None /\ local[w] \in Locals
            BY <3>1, WorkerIsKnown DEF Sound, WorkersAreSound, Fits, HasCode
          <5>2. QED
            BY <5>1 DEF Locals
        <4>2. Reply(local[w].res, None) \in [code : Codes, content : Contents \cup {None}]
          BY <4>1 DEF Reply
        <4>3. QED
          BY <3>4, <4>2, NoReplyAssumption
      <3>6. QED
        BY <3>3, <3>4, <3>5 DEF Verdict
    <2>4. QED
      BY <2>1, <2>2, <2>3
  <1>4. Outcome'[c] = Outcome[c]
    BY <1>1, <1>3, VerdictBefore
  <1>5. Outcome = [d \in Conns |-> Outcome[d]]
    BY DEF Outcome
  <1>6. QED
    BY <1>1, <1>4, <1>5, VerdictBefore

\* The steps at which no worker has a connection in hand, or lets go of it.
LEMMA HandingOnStays ==
  ASSUME Sound, Sound', LogIsRight, NEW w \in Workers,
         job_pop(w) \/ job_end(w) \/ AuditCrashes(w) \/ CreateWorker(w)
  PROVE  Outcome' = Outcome
  <1>1. OneHolder(local) /\ OneHolder(local') /\ TypeOK
    BY HoldersAreOne DEF Sound, StoreInv, TypeInv
  <1>2. /\ pc \in [Workers -> Places] /\ local \in [Workers -> Locals] /\ None \notin Conns
        /\ pc[w] \in Idle => local[w].conn = None
    BY WorkerIsKnown, ServerAssumption DEF Sound, StoreInv, AllKnow, Knows
  <1>3. reply' = reply
    BY DEF job_pop, job_end, AuditCrashes, CreateWorker, network
  <1>4. Outcome = [d \in Conns |-> Outcome[d]] /\ Outcome' = [d \in Conns |-> Outcome'[d]]
    BY DEF Outcome
  <1>5. ASSUME NEW d \in Conns,
               \A v \in Workers : local[v].conn = d \/ local'[v].conn = d =>
                 pc'[v] = pc[v] /\ local'[v] = local[v]
        PROVE  Outcome'[d] = Outcome[d]
    <2>1. OutcomeOf(reply', pc', local')[d] = OutcomeOf(reply, pc, local)[d]
      BY <1>1, <1>3, <1>5, OutcomeStays
    <2>2. QED
      BY <2>1, OutcomeIs
  <1>6. CASE AuditCrashes(w)
    BY <1>4, <1>5, <1>6 DEF AuditCrashes
  <1>7. CASE CreateWorker(w)
    <2>1. /\ local' = local /\ pc[w] = "not created"
          /\ \A v \in Workers \ {w} : pc'[v] = pc[v]
      BY <1>2, <1>7 DEF CreateWorker, Sound, TypeInv, WorkersAreSound
    <2>2. \A d \in Conns : Outcome'[d] = Outcome[d]
      BY <1>2, <1>5, <2>1 DEF Idle
    <2>3. QED
      BY <1>4, <2>2
  <1>8. CASE job_pop(w)
    <2>1. /\ pc[w] = "pop" /\ pc'[w] = "start" /\ ~AuditCrashes(w) /\ queue # <<>>
      BY <1>2, <1>8 DEF job_pop, GoTo, AuditCrashes
    <2>2. \A v \in Workers \ {w} : pc'[v] = pc[v] /\ local'[v] = local[v]
      BY <1>8, <2>1, OthersStay DEF WorkerStep, Sound
    <2>3. local'[w].conn = Head(queue) /\ Head(queue) \in Conns /\ reply[Head(queue)] = None
      <3>1. Head(queue) \in Conns /\ queue \in Seq(Conns)
        BY <2>1, HeadIsWaiting DEF Sound, TypeInv, TypeOK
      <3>2. local'[w] = WithConn(local[w], Head(queue))
        BY <1>1, <1>8, <3>1, DispatchEffects, Gone DEF Sound
      <3>3. WithConn(local[w], Head(queue)).conn = Head(queue)
        BY <1>2, <3>1, ConnSet
      <3>4. Head(queue) = queue[1] /\ 1 \in DOMAIN queue
        BY <2>1, <3>1
      <3>5. QED
        BY <3>1, <3>2, <3>3, <3>4 DEF Sound, StoreInv, NoEarlyReply
    <2>4. Outcome[Head(queue)] = None
      <3>1. \A v \in Workers : local[v].conn # Head(queue)
        <4>1. ASSUME NEW v \in Workers, local[v].conn = Head(queue)
              PROVE  FALSE
          <5>1. v # w
            BY <1>2, <2>1, <2>3, <4>1 DEF Idle
          <5>2. local'[v].conn = local'[w].conn
            BY <2>2, <2>3, <4>1, <5>1
          <5>3. QED
            BY <1>1, <2>3, <5>1, <5>2 DEF OneHolder
        <4>2. QED
          BY <4>1
      <3>2. QED
        BY <2>3, <3>1, OutcomeFree, OutcomeIs
    <2>5. Outcome'[Head(queue)] = None
      <3>1. Outcome'[Head(queue)] = Verdict(reply'[Head(queue)], pc'[w], local'[w].res)
        BY <1>1, <2>3, OutcomeHeld, OutcomeIs
      <3>2. QED
        BY <1>3, <2>1, <2>3, <3>1 DEF Verdict, Decisions
    <2>6. \A d \in Conns : d # Head(queue) => Outcome'[d] = Outcome[d]
      BY <1>2, <1>5, <2>1, <2>2, <2>3 DEF Idle
    <2>7. QED
      BY <1>4, <2>3, <2>4, <2>5, <2>6
  <1>9. CASE job_end(w)
    <2>1. /\ pc[w] = "end" /\ ~AuditCrashes(w) /\ local'[w] = NoLocals
      BY <1>2, <1>9 DEF job_end, GoTo, AuditCrashes
    <2>2. \A v \in Workers \ {w} : pc'[v] = pc[v] /\ local'[v] = local[v]
      BY <1>9, <2>1, OthersStay DEF WorkerStep, Sound
    <2>3. local[w].conn \in Conns /\ reply[local[w].conn] # None
      BY <2>1, WorkerIsKnown DEF LogIsRight, Answered, Sound, Idle
    <2>4. Outcome[local[w].conn] = reply[local[w].conn]
      BY <1>1, <2>3, OutcomeHeld, OutcomeIs DEF Verdict
    <2>5. Outcome'[local[w].conn] = reply[local[w].conn]
      BY <1>3, <2>3, OutcomeIs DEF OutcomeOf
    <2>6. local'[w].conn = None
      BY <2>1 DEF NoLocals
    <2>7. \A d \in Conns : d # local[w].conn => Outcome'[d] = Outcome[d]
      BY <1>2, <1>5, <2>2, <2>6
    <2>8. QED
      BY <1>4, <2>3, <2>4, <2>5, <2>7
  <1>10. QED
    BY <1>6, <1>7, <1>8, <1>9

-----------------------------------------------------------------------------
(* The steps that decide are steps of FileStore                            *)
Refines == Store!Next \/ UNCHANGED Store!vars

LEMMA Deciding ==
  ASSUME Sound, Sound', NEW w \in Workers, WorkerStep(w) \/ conn_recv_file(w),
         ~job_pop(w), ~job_end(w), ~AuditCrashes(w),
         pc[w] \notin Decisions \cup {"end"}, NEW code, NEW content,
         Verdict(reply'[local[w].conn], pc'[w], local'[w].res) = Reply(code, content)
  PROVE  /\ Store!Decide(local[w].conn, code, content)
         /\ Store!Asks(local[w].conn, request[local[w].conn].method)
         /\ local[w].conn \in Conns
  <1> DEFINE c == local[w].conn
  <1>1. c \in Conns /\ request' = request /\ pc[w] \notin Idle /\ request[c] # None
    BY VerdictBefore, ConnIsKept, WorkerIsKnown DEF Sound
  <1>2. reply[c] = None
    BY <1>1 DEF Sound, StoreInv, NoEarlyReply, Answered, Decisions
  <1>3. Outcome[c] = None /\ Outcome' = [Outcome EXCEPT ![c] = Reply(code, content)]
    BY <1>2, VerdictBefore DEF Verdict
  <1>4. Store!Decide(c, code, content)
    BY <1>1, <1>3 DEF Store!Decide, Store!Reply, Reply
  <1>5. Store!Asks(c, request[c].method)
    BY <1>1, <1>3 DEF Store!Asks
  <1>6. QED
    BY <1>1, <1>4, <1>5

\* The verdict when the reply is sent at once.
LEMMA Sending ==
  ASSUME TypeInv, NEW w \in Workers, local[w].conn \in Conns,
         NEW x \in Codes, NEW y \in Contents \cup {None}, conn_send_response(w, x, y)
  PROVE  Verdict(reply'[local[w].conn], pc'[w], local'[w].res) = Reply(x, y)
  <1>1. reply'[local[w].conn] = Reply(x, y)
    BY DEF conn_send_response, TypeInv, TypeOK
  <1>2. reply'[local[w].conn] # None
    BY Answering DEF TypeInv
  <1>3. QED
    BY <1>1, <1>2 DEF Verdict

LEMMA RefusingRefines ==
  ASSUME Sound, Sound', NEW w \in Workers, ParseMalformed(w) \/ ParseOther(w)
  PROVE  Refines
  <1> DEFINE c == local[w].conn
  <1>1. /\ WorkerStep(w) /\ ~job_pop(w) /\ ~job_end(w) /\ ~AuditCrashes(w)
        /\ pc[w] = "parse" /\ files' = files
    BY DEF WorkerStep, ParseMalformed, ParseOther, GoTo, job_pop, job_end, AuditCrashes
  <1>2. c \in Conns
    BY <1>1, VerdictBefore
  <1>3. CASE ParseMalformed(w)
    <2>1. conn_send_response(w, 400, None) /\ request[c].method = "MALFORMED"
      BY <1>3 DEF ParseMalformed, Asked
    <2>2. Verdict(reply'[c], pc'[w], local'[w].res) = Reply(400, None)
      BY <1>2, <2>1, Sending DEF Codes, Sound
    <2>3. Store!Asks(c, "MALFORMED") /\ Store!Decide(c, 400, None)
      BY <1>1, <2>1, <2>2, Deciding DEF Decisions
    <2>4. QED
      BY <1>1, <1>2, <2>3 DEF Refines, Store!Next, Store!Refuse
  <1>4. CASE ParseOther(w)
    <2>1. conn_send_response(w, 501, None) /\ request[c].method = "OTHER"
      BY <1>4 DEF ParseOther, Asked
    <2>2. Verdict(reply'[c], pc'[w], local'[w].res) = Reply(501, None)
      BY <1>2, <2>1, Sending DEF Codes, Sound
    <2>3. Store!Asks(c, "OTHER") /\ Store!Decide(c, 501, None)
      BY <1>1, <2>1, <2>2, Deciding DEF Decisions
    <2>4. QED
      BY <1>1, <1>2, <2>3 DEF Refines, Store!Next, Store!Refuse
  <1>5. QED
    BY <1>3, <1>4

LEMMA GettingRefines ==
  ASSUME Sound, Sound', SizeMatchesFile, NEW w \in Workers, Stat(w) \/ OpenAndSend(w)
  PROVE  Refines
  <1> DEFINE c == local[w].conn
  <1>1. /\ WorkerStep(w) /\ ~job_pop(w) /\ ~job_end(w) /\ ~AuditCrashes(w)
        /\ pc[w] \in {"stat", "open"} /\ files' = files
    BY DEF WorkerStep, Stat, OpenAndSend, GoTo, job_pop, job_end, AuditCrashes
  <1>2. /\ c \in Conns /\ request[c].method = "GET" /\ Uri(w) = request[c].uri
        /\ pc \in [Workers -> Places] /\ TypeOK
    BY <1>1, VerdictBefore, WorkerIsKnown DEF Sound, StoreInv, AllKnow, Knows, ForGet, Uri, Asked
  <1>3. files[Uri(w)] \in Contents
    BY <1>1, <1>2, UriIsUri DEF TypeOK, Idle, Sound, TypeInv
  <1>4. ASSUME NEW x \in Codes, NEW y \in Contents \cup {None}, conn_send_response(w, x, y)
        PROVE  Store!Asks(c, "GET") /\ Store!Decide(c, x, y)
    <2>1. Verdict(reply'[c], pc'[w], local'[w].res) = Reply(x, y)
      BY <1>2, <1>4, Sending DEF Sound
    <2>2. QED
      BY <1>1, <1>2, <2>1, Deciding DEF Decisions
  <1>5. Store!Kind(request[c].uri) = Kind(Uri(w)) /\ files[Uri(w)] = files[request[c].uri]
    BY <1>2 DEF Store!Kind, Kind
  <1>6. ASSUME Store!Get(c)
        PROVE  Refines
    BY <1>2, <1>6 DEF Refines, Store!Next
  <1>7. CASE Kind(Uri(w)) = "absent" /\ conn_send_response(w, 404, None)
    <2>1. Store!Asks(c, "GET") /\ Store!Decide(c, 404, None)
      BY <1>4, <1>7 DEF Codes
    <2>2. QED
      BY <1>1, <1>5, <1>6, <1>7, <2>1 DEF Store!Get
  <1>8. CASE Kind(Uri(w)) \in {"dir", "unreadable"} /\ conn_send_response(w, 403, None)
    <2>1. Store!Asks(c, "GET") /\ Store!Decide(c, 403, None)
      BY <1>4, <1>8 DEF Codes
    <2>2. QED
      BY <1>1, <1>5, <1>6, <1>8, <2>1 DEF Store!Get
  <1>9. CASE GoTo(w, "stat", "open")
    <2>1. pc[w] = "stat" /\ pc'[w] = "open"
      BY <1>2, <1>9 DEF GoTo
    <2>2. Outcome' = Outcome /\ request' = request
      BY <1>1, <2>1, UndecidedStays, VerdictBefore DEF Decisions
    <2>3. QED
      BY <1>1, <2>2 DEF Refines, Store!vars
  <1>10. CASE OpenAndSend(w)
    <2>1. pc[w] = "open"
      BY <1>10 DEF OpenAndSend, GoTo
    <2>2. Kind(Uri(w)) \in {"old", "whole", "torn"}
      BY <2>1 DEF SizeMatchesFile, Kind, Sound, StoreInv, AllKnow, Knows, Readable
    <2>3. CASE conn_send_response(w, 200, files[Uri(w)])
      <3>1. Store!Asks(c, "GET") /\ Store!Decide(c, 200, files[request[c].uri])
        BY <1>3, <1>4, <1>5, <2>3 DEF Codes
      <3>2. QED
        BY <1>1, <1>5, <1>6, <2>2, <3>1 DEF Store!Get
    <2>4. ASSUME "open" \in Faults, NEW code \in {403, 500}, conn_send_response(w, code, None)
          PROVE  Refines
      <3>1. Store!Asks(c, "GET") /\ Store!Decide(c, code, None)
        BY <1>4, <2>4 DEF Codes
      <3>2. QED
        BY <1>1, <1>5, <1>6, <2>2, <2>4, <3>1 DEF Store!Get
    <2>5. QED
      BY <1>10, <2>3, <2>4 DEF OpenAndSend
  <1>11. QED
    BY <1>7, <1>8, <1>9, <1>10 DEF Stat

LEMMA PuttingRefines ==
  ASSUME Sound, Sound', NEW w \in Workers, MakeTemp(w) \/ Rename(w) \/ RenameFails(w)
  PROVE  Refines
  <1> DEFINE c == local[w].conn
  <1>1. /\ WorkerStep(w) /\ ~job_pop(w) /\ ~job_end(w) /\ ~AuditCrashes(w)
        /\ pc[w] \in {"mkstemp", "rename"} /\ reply' = reply
    BY DEF WorkerStep, MakeTemp, Rename, RenameFails, GoTo, job_pop, job_end, AuditCrashes,
      network
  <1>2. /\ c \in Conns /\ request[c].method = "PUT" /\ Uri(w) = request[c].uri
        /\ pc \in [Workers -> Places] /\ TypeOK /\ local[w] \in Locals
        /\ reply[c] = None
    <2>1. pc[w] \in ForPut /\ pc[w] \notin Idle \cup Answered
      BY <1>1 DEF ForPut, HasTemp, Idle, Answered
    <2>2. QED
      BY <1>1, <2>1, VerdictBefore, WorkerIsKnown
      DEF Sound, StoreInv, AllKnow, Knows, NoEarlyReply, Uri, Asked
  <1>3. ASSUME NEW q \in {"respond", "put_unlock"}, NEW code,
               Goes(w, pc[w], q, WithRes(local[w], code))
        PROVE  Store!Asks(c, "PUT") /\ Store!Decide(c, code, None)
    <2>1. pc'[w] = q /\ local'[w] = WithRes(local[w], code)
      BY <1>3, Gone DEF Sound
    <2>2. local'[w].res = code
      BY <1>2, <2>1 DEF WithRes, Locals
    <2>3. Verdict(reply'[c], pc'[w], local'[w].res) = Reply(code, None)
      BY <1>1, <1>2, <2>1, <2>2 DEF Verdict, Decisions
    <2>4. QED
      BY <1>1, <1>2, <2>3, Deciding DEF Decisions
  <1>4. Store!Kind(request[c].uri) = Kind(Uri(w))
    BY <1>2 DEF Store!Kind, Kind
  <1>5. ASSUME NEW code, files' = files,
               Store!Asks(c, "PUT") /\ Store!Decide(c, code, None),
               \/ Kind(Uri(w)) = "dir" /\ code = 403
               \/ "rename" \in Faults /\ code \in {403, 500}
               \/ "mkstemp" \in Faults /\ code = 500
        PROVE  Refines
    <2>1. Store!FailPut(c)
      BY <1>4, <1>5 DEF Store!FailPut
    <2>2. QED
      BY <1>2, <2>1 DEF Refines, Store!Next
  <1>6. CASE MakeTemp(w)
    <2>1. files' = files
      BY <1>6 DEF MakeTemp
    <2>2. CASE Goes(w, "mkstemp", "recv", local[w])
      <3>1. pc[w] = "mkstemp" /\ pc'[w] = "recv"
        BY <2>2, Gone DEF Goes, Sound
      <3>2. Outcome' = Outcome /\ request' = request
        BY <1>1, <3>1, UndecidedStays, VerdictBefore DEF Decisions
      <3>3. QED
        BY <2>1, <3>2 DEF Refines, Store!vars
    <2>3. CASE /\ "mkstemp" \in Faults
               /\ Goes(w, "mkstemp", "respond", WithRes(local[w], 500))
      <3>1. Store!Asks(c, "PUT") /\ Store!Decide(c, 500, None)
        BY <1>3, <2>3 DEF Goes
      <3>2. QED
        BY <1>5, <2>1, <2>3, <3>1
    <2>4. QED
      BY <1>2, <1>6, <2>2, <2>3, PutEffects
  <1>7. CASE RenameFails(w)
    <2>1. files' = files
      BY <1>7 DEF RenameFails
    <2>2. PICK code \in {403, 500} :
            /\ Goes(w, "rename", "put_unlock", WithRes(local[w], code))
            /\ "rename" \in Faults \/ (Kind(Uri(w)) = "dir" /\ code = 403)
      BY <1>2, <1>7, PutEffects
    <2>3. Store!Asks(c, "PUT") /\ Store!Decide(c, code, None)
      BY <1>3, <2>2 DEF Goes
    <2>4. QED
      BY <1>5, <2>1, <2>2, <2>3
  <1>8. CASE Rename(w)
    <2>1. /\ pc[w] = "rename" /\ Kind(Uri(w)) # "dir"
          /\ files' = [files EXCEPT ![request[c].uri] = <<local[w].temp, c>>]
      BY <1>2, <1>8 DEF Rename, GoTo
    <2>2. Store!Asks(c, "PUT") /\ Store!Decide(c, PutCode(w), None)
      <3>1. Goes(w, pc[w], "put_unlock", WithRes(local[w], PutCode(w)))
        BY <1>2, <1>8, <2>1, PutEffects
      <3>2. QED
        BY <1>3, <3>1
    <2>3. /\ \/ local[w].temp = "whole" /\ local[w].res = None
             \/ local[w].temp = "torn" /\ local[w].res = 500 /\ "recv" \in Faults
          /\ local[w].existed <=> Kind(Uri(w)) # "absent"
      BY <2>1 DEF Sound, StoreInv, AllKnow, Knows, HasTemp, ExistedIsRight, Existed
    <2>4. CASE local[w].temp = "whole" /\ local[w].res = None
      <3>1. PutCode(w) = IF Kind(Uri(w)) = "absent" THEN 201 ELSE 200
        BY <2>3, <2>4 DEF PutCode
      <3>2. Store!Put(c)
        BY <1>4, <2>1, <2>2, <2>4, <3>1 DEF Store!Put
      <3>3. QED
        BY <1>2, <3>2 DEF Refines, Store!Next
    <2>5. CASE local[w].temp = "torn" /\ local[w].res = 500 /\ "recv" \in Faults
      <3>1. PutCode(w) = 500
        BY <2>5, NoReplyAssumption DEF PutCode, Codes
      <3>2. Store!Tear(c)
        BY <1>4, <2>1, <2>2, <2>5, <3>1 DEF Store!Tear
      <3>3. QED
        BY <1>2, <3>2 DEF Refines, Store!Next
    <2>6. QED
      BY <2>3, <2>4, <2>5
  <1>9. QED
    BY <1>6, <1>7, <1>8

-----------------------------------------------------------------------------
(* The server implements FileStore                                         *)
LEMMA WorkerRefines ==
  ASSUME Sound, Sound', LogIsRight, SizeMatchesFile, NEW w \in Workers,
         WorkerStep(w) \/ conn_recv_file(w)
  PROVE  Refines
  <1>1. pc \in [Workers -> Places]
    BY WorkerIsKnown DEF Sound
  <1>2. ASSUME Outcome' = Outcome, files' = files
        PROVE  Refines
    BY <1>2, WorkersDoNotAccept DEF Refines, Store!vars
  <1>3. CASE \/ job_start(w) \/ ParseOk(w) \/ GetSlot(w) \/ reader_lock(w)
             \/ conn_recv_file(w) \/ PutSlot(w) \/ writer_lock(w) \/ Access(w)
    <2>1. /\ pc[w] \notin Decisions /\ pc'[w] \notin Decisions \cup {"end"} /\ files' = files
          /\ ~job_pop(w) /\ ~job_end(w) /\ ~AuditCrashes(w)
      BY <1>1, <1>3 DEF job_start, ParseOk, GetSlot, reader_lock, conn_recv_file, PutSlot,
        writer_lock, Access, GoTo, Decisions, job_pop, job_end, AuditCrashes
    <2>2. QED
      BY <1>2, <2>1, UndecidedStays
  <1>4. CASE \/ job_reader_unlock_uri(w) \/ job_writer_unlock_uri(w) \/ Respond(w)
             \/ Audit(w) \/ Close(w)
    <2>1. files' = files
      BY <1>4 DEF job_reader_unlock_uri, job_writer_unlock_uri, Respond, Audit, Close
    <2>2. QED
      BY <1>2, <1>4, <2>1, DecidedStays
  <1>5. CASE job_pop(w) \/ job_end(w) \/ AuditCrashes(w)
    <2>1. files' = files
      BY <1>5 DEF job_pop, job_end, AuditCrashes
    <2>2. QED
      BY <1>2, <1>5, <2>1, HandingOnStays
  <1>6. QED
    BY <1>3, <1>4, <1>5, RefusingRefines, GettingRefines, PuttingRefines DEF WorkerStep

LEMMA NextRefines ==
  ASSUME Sound, Sound', LogIsRight, SizeMatchesFile, [Next]_vars
  PROVE  Refines
  <1>1. ASSUME UNCHANGED <<pc, local, reply>>
        PROVE  Outcome' = Outcome
    BY <1>1, OutcomeIs
  <1>2. ASSUME NEW c \in Conns, ls_accept(c)
        PROVE  Refines
    <2>1. Outcome' = Outcome /\ files' = files /\ request[c] = None
      BY <1>1, <1>2 DEF ls_accept
    <2>2. PICK m \in Methods, u \in Uris :
            request' = [request EXCEPT ![c] = [method |-> m, uri |-> u]]
      BY <1>2 DEF ls_accept
    <2>3. m \in {"GET", "PUT", "MALFORMED", "OTHER"}
      BY ServerAssumption
    <2>4. Store!Arrive(c)
      BY <2>1, <2>2, <2>3 DEF Store!Arrive
    <2>5. QED
      BY <2>4 DEF Refines, Store!Next
  <1>3. CASE CreateFails \/ job_push \/ UNCHANGED vars
    <2>1. UNCHANGED <<pc, local, reply, files, request>>
      BY <1>3 DEF CreateFails, job_push, vars, network
    <2>2. QED
      BY <1>1, <2>1 DEF Refines, Store!vars
  <1>4. ASSUME NEW w \in Workers, CreateWorker(w)
        PROVE  Refines
    BY <1>4, HandingOnStays DEF CreateWorker, network, Refines, Store!vars
  <1>5. QED
    BY <1>2, <1>3, <1>4, WorkerRefines DEF Next

LEMMA InitRefines == Init => Store!Init
  <1> SUFFICES ASSUME Init
               PROVE  Store!Init
    OBVIOUS
  <1>1. Outcome = [c \in Conns |-> None]
    <2>1. \A c \in Conns : reply[c] = None
      BY DEF Init
    <2>2. \A w \in Workers : pc[w] = "not created"
      BY DEF Init
    <2>3. QED
      BY <2>1, <2>2 DEF Outcome, Decided
  <1>2. files \in [Uris -> {"absent", "dir", "unreadable", "old"} \X {None}]
    BY ServerAssumption DEF Init
  <1>3. QED
    BY <1>1, <1>2 DEF Init, Store!Init

(***************************************************************************)
(* For any number of workers, connections, URIs and slots, with whatever   *)
(* files at first and whichever calls fail, each request takes effect at   *)
(* one instant between its arrival and its answer: a GET reports the file  *)
(* as the PUTs decided before it left it, and a PUT creates or replaces    *)
(* the file, with the whole body when all of it came, and with what came,  *)
(* answered 500, when it broke off (FileStore's Tear).                     *)
(***************************************************************************)
THEOREM RequestsAreAtomic == Spec => ImplementsFileStore
  <1> DEFINE Inv == IInv /\ LogInv /\ StoreInv
  <1>1. Init => Inv /\ Store!Init
    BY InitTypeInv, InitLocks, InitLog, InitStore, InitRefines DEF IInv
  <1>2. Inv /\ [Next]_vars => Inv'
    BY NextTypeInv, NextLocks, NextSize, NextCustody, NextLog, NextKnows, NextReplies,
       NextExisted DEF IInv, LogInv, StoreInv
  <1>3. Inv /\ Inv' /\ [Next]_vars => Refines
    BY NextRefines DEF Sound, IInv, LogInv
  <1>4. QED
    BY <1>1, <1>2, <1>3, PTL DEF Spec, ImplementsFileStore, Store!Spec, Refines
=============================================================================

--------------------------- MODULE HttpServerProofs ---------------------------
(***************************************************************************)
(* Proofs about the single-threaded server, for any limit on the header,   *)
(* any lengths and any failing calls.  The invariant says, for each place  *)
(* of handle_connection, what is known by then of the request, of the      *)
(* file and of the bytes taken from the socket; that a reply fits its      *)
(* request is what remains of it when the answer goes out.                 *)
(***************************************************************************)
EXTENDS HttpServerProperties, SequenceTheorems, TLAPS

Clients == [request : Requests, sent : Nat, gone : BOOLEAN]
Files   == [kind : Kinds, data : Seq(Nat)]
Places  == {"accept", "recv", "parse", "validate", "error", "GET", "PUT", "body", "pass"}
Errors  == {400, 403, 404, 500, 501, 505}

TypeInv ==
  /\ pc \in Places /\ errno \in {"ERANGE", "other"}
  /\ file \in Files
  /\ bytes_read \in Nat /\ body_length \in Nat /\ passed \in Nat
  /\ req \in [content_length : Int, status : Errors \cup {200}, file_exists : BOOLEAN]
  /\ found \in [file : Files, errno : {"ERANGE", "other"},
                failed : {"open", "write", "read", Nil}]
  /\ pc # "accept" => client \in Clients /\ bytes_read + passed <= client.sent

\* An answer other than success that the request may get.
Refusal(code) ==
  /\ code \in Errors
  /\ \/ code = Due
     \/ code = 400 /\ Stray
     \/ /\ Due \in {200, 201}
        /\ \/ code \in {403, 500} /\ found.failed = "open"
           \/ code = 500 /\ found.failed \in {"write", "read"}

\* ERANGE is set by a request that fails at once, or was there before.
ErrnoIsOld == errno = "ERANGE" => found.errno = "ERANGE"

\* The request passed the tests of parse_req, and its length was read.
Parsed ==
  /\ HeaderRead /\ Request.form \in {"ok", "old version"}
  /\ Request.length \notin {OVERFLOW, LETTERS}

LengthIsRead == req.content_length = Request.length

\* Nothing of the body was taken but what came with the header.
BodyIsNext == passed = 0 /\ body_length = bytes_read - Request.header

\* The part of the body that is in the file.
Written == body_length + passed

PhaseInv ==
  /\ pc = "recv" => /\ bytes_read < Request.header /\ bytes_read < MAX_HEADER_LEN
                    /\ passed = 0 /\ ErrnoIsOld /\ file = found.file
  /\ pc = "parse" => HeaderRead /\ BodyIsNext /\ ErrnoIsOld /\ file = found.file
  /\ pc = "validate" => Parsed /\ LengthIsRead /\ BodyIsNext /\ file = found.file
  /\ pc = "error" =>
       /\ Refusal(req.status)
       /\ req.status # 500 \/ Request.method = "GET" => file = found.file
  /\ pc = "GET" => /\ Request.method = "GET" /\ Due = 200
                   /\ req.content_length = Len(file.data) /\ file = found.file
  /\ pc \in {"PUT", "body", "pass"} =>
       /\ Request.method = "PUT" /\ HeaderRead
       /\ LengthIsRead /\ Request.length \in Nat
       /\ Due = IF found.file.kind = "absent" THEN 201 ELSE 200
  /\ pc = "PUT" => BodyIsNext /\ file = found.file
  /\ pc \in {"body", "pass"} => (req.file_exists <=> found.file.kind # "absent")
  /\ pc = "body" => BodyIsNext
  /\ pc = "pass" =>
       /\ file.data = [k \in 1 .. Written |-> k]
       /\ Written <= Request.length /\ body_length <= bytes_read - Request.header
       /\ body_length = bytes_read - Request.header \/ body_length = Request.length

HttpInv == TypeInv /\ PhaseInv /\ RepliesFitRequests

-----------------------------------------------------------------------------
(* The request at hand                                                     *)
LEMMA RequestIs ==
  ASSUME NEW r \in Requests
  PROVE  /\ r.header \in Nat /\ r.header > 0 /\ r.body \in Nat
         /\ r.method \in {"GET", "PUT", "DELETE"}
         /\ r.form \in {"ok", "bad line", "bad field", "old version"}
         /\ r.length \in Nat \cup {MISSING, OVERFLOW, LETTERS}
  <1> DEFINE Known ==
        /\ r.header \in Nat /\ r.header > 0 /\ r.body \in Nat
        /\ r.method \in {"GET", "PUT", "DELETE"}
        /\ r.form \in {"ok", "bad line", "bad field", "old version"}
        /\ r.length \in Nat \cup {MISSING, OVERFLOW, LETTERS}
  <1>1. MAX_HEADER_LEN \in Nat /\ ContentLengths \subseteq Nat
    BY HttpAssumption
  <1>2. CASE r \in [method : {"PUT"}, form : {"ok"}, length : ContentLengths,
                    header : 1 .. (MAX_HEADER_LEN + 1), body : ContentLengths]
    <2>1. /\ r.header \in 1 .. (MAX_HEADER_LEN + 1) /\ r.body \in ContentLengths
          /\ r.method = "PUT" /\ r.form = "ok" /\ r.length \in ContentLengths
      BY <1>2
    <2>2. r.header \in Nat /\ r.header > 0
      BY <1>1, <2>1
    <2>3. QED
      BY <1>1, <2>1, <2>2
  <1>3. CASE r \in [method : {"GET", "PUT", "DELETE"},
                    form : {"ok", "bad line", "bad field", "old version"},
                    length : {MISSING, OVERFLOW, LETTERS, 1}, header : {1}, body : {0}]
    <2>1. r.header = 1 /\ r.body = 0
      BY <1>3
    <2>2. r.length \in {MISSING, OVERFLOW, LETTERS, 1}
      BY <1>3
    <2>3. /\ r.method \in {"GET", "PUT", "DELETE"}
          /\ r.form \in {"ok", "bad line", "bad field", "old version"}
      BY <1>3
    <2>4. r.header \in Nat /\ r.header > 0 /\ r.body \in Nat
      BY <2>1
    <2>5. r.length \in Nat \cup {MISSING, OVERFLOW, LETTERS}
      BY <2>2
    <2>6. QED
      BY <2>3, <2>4, <2>5
  <1>4. QED
    BY <1>2, <1>3 DEF Requests

\* The status due is fixed by the request, the file it found and its header.
LEMMA DueStays ==
  ASSUME client'.request = client.request,
         bytes_read' >= client.request.header <=> bytes_read >= client.request.header,
         found'.file = found.file, found'.errno = found.errno
  PROVE  Due' = Due /\ (Stray' <=> Stray)
  <1>1. CASE bytes_read >= client.request.header
    <2>1. HeaderRead /\ HeaderRead'
      BY <1>1 DEF HeaderRead, Request
    <2>2. Request' = Request /\ found'.file.kind = found.file.kind
      BY DEF Request
    <2>3. QED
      BY <2>1, <2>2 DEF Due, Stray, MISSING, OVERFLOW, LETTERS
  <1>2. CASE ~(bytes_read >= client.request.header)
    BY <1>2 DEF Due, Stray, Request, HeaderRead
  <1>3. QED
    BY <1>1, <1>2

LEMMA RefusalStays ==
  ASSUME client'.request = client.request, bytes_read' = bytes_read,
         found'.file = found.file, found'.errno = found.errno,
         found'.failed = found.failed, NEW code, Refusal(code)
  PROVE  Refusal(code)'
  <1>1. Due' = Due /\ (Stray' <=> Stray)
    BY DueStays
  <1>2. QED
    BY <1>1 DEF Refusal

-----------------------------------------------------------------------------
(* The clients                                                             *)
LEMMA ClientsKeepInv ==
  ASSUME HttpInv, Connect \/ AcceptFails \/ Send \/ Leave
  PROVE  HttpInv'
  <1>1. TypeInv /\ PhaseInv
    BY DEF HttpInv
  <1>2. CASE Connect
    <2>1. PICK r \in Requests : client' = [request |-> r, sent |-> 0, gone |-> FALSE]
      BY <1>2 DEF Connect
    <2>2. /\ pc' = "recv" /\ bytes_read' = 0 /\ body_length' = 0 /\ passed' = 0
          /\ file' = file /\ errno' = errno
          /\ found' = [file |-> file, errno |-> errno, failed |-> Nil]
          /\ req' = [content_length |-> -1, status |-> 200, file_exists |-> FALSE]
      BY <1>2 DEF Connect
    <2>3. TypeInv'
      BY <1>1, <2>1, <2>2 DEF TypeInv, Clients, Places
    <2>4. Request' = r
      BY <2>1 DEF Request
    <2>5. r.header > 0
      BY RequestIs
    <2>6. MAX_HEADER_LEN > 0
      BY HttpAssumption
    <2>7. PhaseInv'
      BY <2>2, <2>4, <2>5, <2>6 DEF PhaseInv, ErrnoIsOld, Request
    <2>8. QED
      BY <2>2, <2>3, <2>7 DEF HttpInv, RepliesFitRequests, Answered
  <1>3. CASE AcceptFails
    <2>1. /\ pc = "accept" /\ errno' = "other"
          /\ UNCHANGED <<file, pc, req, bytes_read, body_length, passed, client, reply, found>>
      BY <1>3 DEF AcceptFails, local
    <2>2. TypeInv'
      BY <1>1, <2>1 DEF TypeInv
    <2>3. PhaseInv'
      BY <2>1 DEF PhaseInv
    <2>4. Due' = Due /\ (Stray' <=> Stray)
      BY <2>1, DueStays
    <2>5. RepliesFitRequests'
      BY <2>1, <2>4 DEF HttpInv, RepliesFitRequests, Answered, Request
    <2>6. QED
      BY <2>2, <2>3, <2>5 DEF HttpInv
  <1>4. CASE Send \/ Leave
    <2>1. /\ pc # "accept" /\ client' \in Clients
          /\ client'.request = client.request /\ client'.sent >= client.sent
          /\ client \in Clients
          /\ UNCHANGED <<file, errno, pc, req, bytes_read, body_length, passed, reply, found>>
      <3>1. client \in Clients
        BY <1>1, <1>4 DEF Send, Leave, TypeInv
      <3>2. CASE Send
        BY <3>1, <3>2 DEF Send, Clients, local
      <3>3. CASE Leave
        <4>1. client'.sent >= client.sent
          BY <3>1, <3>3 DEF Leave, Clients
        <4>2. client' \in Clients /\ client'.request = client.request
          BY <3>1, <3>3 DEF Leave, Clients
        <4>3. QED
          BY <3>1, <3>3, <4>1, <4>2 DEF Leave, local
      <3>4. QED
        BY <1>4, <3>2, <3>3
    <2>2. TypeInv'
      <3>1. bytes_read + passed <= client'.sent
        BY <1>1, <2>1 DEF TypeInv, Clients
      <3>2. QED
        BY <1>1, <2>1, <3>1 DEF TypeInv
    <2>3. HeaderRead' <=> HeaderRead
      BY <2>1 DEF HeaderRead, Request
    <2>4. Due' = Due /\ (Stray' <=> Stray)
      BY <2>1, DueStays
    <2>5. PhaseInv'
      <3>1. Request' = Request /\ Written' = Written
        BY <2>1 DEF Request, Written
      <3>2. \A code : Refusal(code)' <=> Refusal(code)
        BY <2>1, <2>4 DEF Refusal
      <3>3. /\ BodyIsNext' <=> BodyIsNext
            /\ ErrnoIsOld' <=> ErrnoIsOld
            /\ Parsed' <=> Parsed
            /\ LengthIsRead' <=> LengthIsRead
        BY <2>1, <2>3, <3>1 DEF BodyIsNext, ErrnoIsOld, Parsed, LengthIsRead
      <3>4. QED
        BY <1>1, <2>1, <2>3, <2>4, <3>1, <3>2, <3>3 DEF PhaseInv
    <2>6. QED
      BY <2>1, <2>2, <2>5 DEF HttpInv, RepliesFitRequests, Answered
  <1>5. QED
    BY <1>2, <1>3, <1>4

-----------------------------------------------------------------------------
(* The header                                                              *)

\* A header that is not whole is answered 400.
LEMMA HeaderIsShort ==
  ASSUME client'.request = client.request, ~(bytes_read' >= client.request.header)
  PROVE  Refusal(400)'
  BY ZenonT(60) DEF Refusal, Due, HeaderRead, Request, Errors

LEMMA RecvKeepsInv ==
  ASSUME HttpInv, Recv
  PROVE  HttpInv'
  <1>1. TypeInv /\ PhaseInv /\ pc = "recv"
    BY DEF HttpInv, Recv
  <1>2. /\ client \in Clients /\ bytes_read \in Nat /\ passed = 0
        /\ client.sent \in Nat /\ bytes_read + passed <= client.sent
        /\ bytes_read < MAX_HEADER_LEN /\ file = found.file /\ ErrnoIsOld
    BY <1>1 DEF TypeInv, PhaseInv, Clients
  <1>3. Request \in Requests /\ Request.header \in Nat /\ MAX_HEADER_LEN \in Nat
    <2>1. Request \in Requests
      BY <1>2 DEF Clients, Request
    <2>2. MAX_HEADER_LEN \in Nat
      BY HttpAssumption
    <2>3. QED
      BY <2>1, <2>2, RequestIs
  <1>4. /\ bytes_read' \in Nat /\ bytes_read' + passed <= client.sent
    <2>1. PICK rc \in 1 .. AtMost(client.sent - bytes_read - passed, MAX_HEADER_LEN - bytes_read) :
            bytes_read' = bytes_read + rc
      BY DEF Recv, Waiting
    <2>2. QED
      BY <1>2, <1>3, <2>1 DEF AtMost
  <1>5. UNCHANGED <<file, errno, passed, client, reply, found>>
    BY DEF Recv
  <1>6. CASE bytes_read' >= Request.header
    <2>1. body_length' = bytes_read' - Request.header /\ pc' = "parse" /\ req' = req
      BY <1>6 DEF Recv
    <2>2. body_length' \in Nat
      BY <1>3, <1>4, <1>6, <2>1
    <2>3. TypeInv'
      BY <1>1, <1>4, <1>5, <2>1, <2>2 DEF TypeInv, Places
    <2>4. PhaseInv'
      BY <1>2, <1>5, <1>6, <2>1 DEF PhaseInv, HeaderRead, BodyIsNext, ErrnoIsOld, Request
    <2>5. QED
      BY <2>1, <2>3, <2>4 DEF HttpInv, RepliesFitRequests, Answered
  <1>7. CASE ~(bytes_read' >= Request.header) /\ bytes_read' < MAX_HEADER_LEN
    <2>1. UNCHANGED <<pc, req, body_length>>
      BY <1>7 DEF Recv
    <2>2. bytes_read' < Request.header
      BY <1>3, <1>4, <1>7
    <2>3. TypeInv'
      BY <1>1, <1>4, <1>5, <2>1 DEF TypeInv
    <2>4. PhaseInv'
      BY <1>1, <1>2, <1>5, <1>7, <2>1, <2>2 DEF PhaseInv, ErrnoIsOld, Request
    <2>5. QED
      BY <1>1, <2>1, <2>3, <2>4 DEF HttpInv, RepliesFitRequests, Answered
  <1>8. CASE ~(bytes_read' >= Request.header) /\ ~(bytes_read' < MAX_HEADER_LEN)
    <2>1. pc' = "error" /\ req' = [req EXCEPT !.status = 400] /\ body_length' = body_length
      BY <1>8 DEF Recv, Status
    <2>2. TypeInv'
      BY <1>1, <1>4, <1>5, <2>1 DEF TypeInv, Places, Errors
    <2>3. req'.status = 400 /\ Refusal(400)'
      BY <1>1, <1>5, <1>8, <2>1, HeaderIsShort DEF TypeInv, Request
    <2>4. PhaseInv'
      BY <1>2, <1>5, <2>1, <2>3 DEF PhaseInv
    <2>5. QED
      BY <2>1, <2>2, <2>4 DEF HttpInv, RepliesFitRequests, Answered
  <1>9. QED
    BY <1>6, <1>7, <1>8

LEMMA RecvFailsKeepsInv ==
  ASSUME HttpInv, RecvNothing \/ RecvEnds \/ RecvFails
  PROVE  HttpInv'
  <1>1. TypeInv /\ PhaseInv /\ pc = "recv"
    BY DEF HttpInv, RecvNothing, RecvEnds, RecvFails
  <1>2. /\ errno' \in {errno, "other"}
        /\ UNCHANGED <<file, bytes_read, body_length, passed, client, reply, found>>
    BY DEF RecvNothing, RecvEnds, RecvFails, local
  <1>3. ErrnoIsOld' /\ file' = found'.file
    BY <1>1, <1>2 DEF PhaseInv, ErrnoIsOld
  <1>4. CASE RecvNothing
    <2>1. pc' = pc /\ req' = req
      BY <1>4 DEF RecvNothing, local
    <2>2. TypeInv'
      BY <1>1, <1>2, <2>1 DEF TypeInv
    <2>3. PhaseInv'
      BY <1>1, <1>2, <1>3, <2>1 DEF PhaseInv, Request
    <2>4. QED
      BY <1>1, <2>1, <2>2, <2>3 DEF HttpInv, RepliesFitRequests, Answered
  <1>5. CASE RecvEnds \/ RecvFails
    <2>1. pc' = "error" /\ req' = [req EXCEPT !.status = 400]
      BY <1>5 DEF RecvEnds, RecvFails, Status
    <2>2. TypeInv'
      BY <1>1, <1>2, <2>1 DEF TypeInv, Places, Errors
    <2>3. ~(bytes_read >= client.request.header)
      <3>1. bytes_read < Request.header /\ bytes_read \in Nat
        BY <1>1 DEF PhaseInv, TypeInv
      <3>2. Request \in Requests
        BY <1>1 DEF TypeInv, Clients, Request
      <3>3. Request.header \in Nat
        BY <3>2, RequestIs
      <3>4. ~(bytes_read >= Request.header)
        BY <3>1, <3>3
      <3>5. QED
        BY <3>4 DEF Request
    <2>4. req'.status = 400 /\ Refusal(400)'
      BY <1>1, <1>2, <2>1, <2>3, HeaderIsShort DEF TypeInv
    <2>5. PhaseInv'
      BY <1>3, <2>1, <2>4 DEF PhaseInv
    <2>6. QED
      BY <2>1, <2>2, <2>5 DEF HttpInv, RepliesFitRequests, Answered
  <1>6. QED
    BY <1>4, <1>5

-----------------------------------------------------------------------------
(* The tests of the request                                                *)
LEMMA LengthParsed ==
  ASSUME Request.length \in Nat \cup {MISSING, OVERFLOW, LETTERS}
  PROVE  /\ ParseLength.value \in Int
         /\ ParseLength.bad => \/ Request.length \in {OVERFLOW, LETTERS}
                               \/ Request.length \in Nat /\ errno = "ERANGE"
         /\ ~ParseLength.bad => /\ Request.length \in Nat \cup {MISSING}
                                /\ ParseLength.value = Request.length
  <1>1. CASE Request.length = MISSING
    <2>1. ParseLength = [value |-> -1, bad |-> FALSE, range |-> FALSE]
      BY <1>1 DEF ParseLength, MISSING, OVERFLOW, LETTERS
    <2>2. ParseLength.value = -1 /\ ~ParseLength.bad
      BY <2>1
    <2>3. QED
      BY <1>1, <2>2 DEF MISSING
  <1>2. CASE Request.length = LETTERS
    <2>1. ParseLength = [value |-> -1, bad |-> TRUE, range |-> FALSE]
      BY <1>2 DEF ParseLength, MISSING, OVERFLOW, LETTERS
    <2>2. ParseLength.value = -1 /\ ParseLength.bad
      BY <2>1
    <2>3. QED
      BY <1>2, <2>2 DEF MISSING
  <1>3. CASE Request.length = OVERFLOW
    <2>1. ParseLength = [value |-> -1, bad |-> TRUE, range |-> TRUE]
      BY <1>3 DEF ParseLength, MISSING, OVERFLOW, LETTERS
    <2>2. ParseLength.value = -1 /\ ParseLength.bad
      BY <2>1
    <2>3. QED
      BY <1>3, <2>2 DEF MISSING
  <1>4. CASE Request.length \in Nat
    <2>1. ParseLength = [value |-> Request.length, bad |-> errno = "ERANGE", range |-> FALSE]
      BY <1>4 DEF ParseLength, MISSING, OVERFLOW, LETTERS
    <2>2. ParseLength.value = Request.length /\ (ParseLength.bad <=> errno = "ERANGE")
      BY <2>1
    <2>3. QED
      BY <1>4, <2>2
  <1>5. QED
    BY <1>1, <1>2, <1>3, <1>4

LEMMA ParseKeepsInv ==
  ASSUME HttpInv, parse_req
  PROVE  HttpInv'
  <1>1. TypeInv /\ PhaseInv /\ pc = "parse"
    BY DEF HttpInv, parse_req
  <1>2. UNCHANGED <<file, bytes_read, body_length, passed, client, reply, found>>
    BY DEF parse_req
  <1>3. HeaderRead /\ BodyIsNext /\ ErrnoIsOld /\ file = found.file /\ client \in Clients
    BY <1>1 DEF PhaseInv, TypeInv
  <1>4. Request' = Request /\ Request \in Requests
    BY <1>2, <1>3 DEF Request, Clients
  <1>5. /\ Request.length \in Nat \cup {MISSING, OVERFLOW, LETTERS}
        /\ Request.form \in {"ok", "bad line", "bad field", "old version"}
    BY <1>4, RequestIs
  <1>6. ASSUME Refusal(400), pc' = "error", req' \in [content_length : Int,
                 status : Errors \cup {200}, file_exists : BOOLEAN], req'.status = 400,
               errno' \in {errno, "ERANGE"}
        PROVE  HttpInv'
    <2>1. Refusal(400)'
      BY <1>2, <1>6, RefusalStays
    <2>2. TypeInv'
      BY <1>1, <1>2, <1>6 DEF TypeInv, Places
    <2>3. PhaseInv'
      BY <1>2, <1>3, <1>6, <2>1 DEF PhaseInv
    <2>4. QED
      BY <1>6, <2>2, <2>3 DEF HttpInv, RepliesFitRequests, Answered
  <1>7. CASE Request.form = "bad line"
    <2>1. Refusal(400)
      BY <1>7, ZenonT(60) DEF Refusal, Due, Errors
    <2>2. /\ pc' = "error" /\ errno' = errno
          /\ req' = [req EXCEPT !.status = 400]
      BY <1>7 DEF parse_req, Status
    <2>3. QED
      BY <1>1, <1>6, <2>1, <2>2 DEF TypeInv, Errors
  <1>8. CASE Request.form # "bad line"
    <2> DEFINE bad == ParseLength.bad \/ Request.form = "bad field"
    <2>1. /\ req' = [req EXCEPT !.content_length = ParseLength.value,
                                !.status = IF bad THEN 400 ELSE req.status]
          /\ errno' \in {errno, "ERANGE"}
          /\ pc' = IF bad THEN "error" ELSE "validate"
      BY <1>8 DEF parse_req
    <2>2. /\ ParseLength.value \in Int
          /\ ParseLength.bad => \/ Request.length \in {OVERFLOW, LETTERS}
                                \/ Request.length \in Nat /\ errno = "ERANGE"
          /\ ~ParseLength.bad => /\ Request.length \in Nat \cup {MISSING}
                                 /\ ParseLength.value = Request.length
      BY <1>5, LengthParsed
    <2>3. req' \in [content_length : Int, status : Errors \cup {200}, file_exists : BOOLEAN]
      <3>1. (IF bad THEN 400 ELSE req.status) \in Errors \cup {200}
        <4>1. req.status \in Errors \cup {200}
          BY <1>1 DEF TypeInv
        <4>2. 400 \in Errors
          BY DEF Errors
        <4> HIDE DEF bad
        <4>3. QED
          BY <4>1, <4>2
      <3>2. QED
        BY <1>1, <2>1, <2>2, <3>1, ZenonT(60) DEF TypeInv
    <2>4. CASE bad
      <3>1. Refusal(400)
        <4>1. CASE Request.length \in {OVERFLOW, LETTERS} \/ Request.form = "bad field"
          <5>1. Due = 400
            BY <1>8, <4>1 DEF Due
          <5>2. 400 \in Errors
            BY DEF Errors
          <5>3. QED
            BY <5>1, <5>2 DEF Refusal
        <4>2. CASE Request.length \in Nat /\ errno = "ERANGE"
          BY <1>3, <4>2 DEF Refusal, Errors, Stray, ErrnoIsOld
        <4>3. QED
          BY <2>2, <2>4, <4>1, <4>2
      <3>2. req'.status = 400 /\ pc' = "error"
        BY <1>1, <2>1, <2>4 DEF TypeInv
      <3>3. QED
        BY <1>6, <2>1, <2>3, <3>1, <3>2
    <2>5. CASE ~bad
      <3>1. pc' = "validate" /\ req'.content_length = Request.length
        BY <1>1, <2>1, <2>2, <2>5 DEF TypeInv
      <3>2. Parsed
        <4>1. Request.length \notin {OVERFLOW, LETTERS}
          <5>1. Request.length \in Nat \cup {MISSING}
            BY <2>2, <2>5
          <5>2. QED
            BY <5>1 DEF MISSING, OVERFLOW, LETTERS
        <4>2. QED
          BY <1>3, <1>5, <1>8, <2>5, <4>1 DEF Parsed
      <3>3. Parsed' /\ BodyIsNext' /\ LengthIsRead'
        BY <1>2, <1>3, <1>4, <3>1, <3>2 DEF Parsed, HeaderRead, BodyIsNext, LengthIsRead,
          OVERFLOW, LETTERS
      <3>4. TypeInv'
        BY <1>1, <1>2, <2>1, <2>3, <3>1, ZenonT(60) DEF TypeInv, Places
      <3>5. PhaseInv'
        BY <1>2, <1>3, <3>1, <3>3 DEF PhaseInv
      <3>6. QED
        BY <3>1, <3>4, <3>5 DEF HttpInv, RepliesFitRequests, Answered
    <2>6. QED
      BY <2>4, <2>5
  <1>9. QED
    BY <1>7, <1>8

LEMMA ValidityFits ==
  ASSUME TypeInv, pc = "validate", Parsed, LengthIsRead, file = found.file
  PROVE  /\ Validity \in Errors \cup {200}
         /\ Validity # 200 => Refusal(Validity)
         /\ Validity = 200 =>
              \/ Request.method = "GET" /\ Due = 200
              \/ /\ Request.method = "PUT" /\ Request.length \in Nat
                 /\ Due = IF found.file.kind = "absent" THEN 201 ELSE 200
  <1> DEFINE Fits(v) ==
        /\ v \in Errors \cup {200}
        /\ v # 200 => Refusal(v)
        /\ v = 200 =>
             \/ Request.method = "GET" /\ Due = 200
             \/ /\ Request.method = "PUT" /\ Request.length \in Nat
                /\ Due = IF found.file.kind = "absent" THEN 201 ELSE 200
  <1>1. /\ Request.method \in {"GET", "PUT", "DELETE"}
        /\ Request.length \in Nat \cup {MISSING, OVERFLOW, LETTERS}
    <2>1. Request \in Requests
      BY DEF TypeInv, Clients, Request
    <2>2. QED
      BY <2>1, RequestIs
  <1>2. /\ HeaderRead /\ Request.form \in {"ok", "old version"}
        /\ Request.length \notin {OVERFLOW, LETTERS}
        /\ req.content_length = -1 <=> Request.length = MISSING
    BY DEF Parsed, LengthIsRead, MISSING
  <1>3. file.kind \in Kinds /\ found.file.kind = file.kind
    BY DEF TypeInv, Files
  <1>4. CASE Request.method = "DELETE"
    <2>1. Validity = 501 /\ Due = 501
      BY <1>2, <1>4, ZenonT(60) DEF Validity, Due
    <2>2. QED
      BY <2>1 DEF Refusal, Errors
  <1>5. CASE Request.method # "DELETE" /\ Request.form = "old version"
    <2>1. Validity = 505 /\ Due = 505
      BY <1>2, <1>5, ZenonT(60) DEF Validity, Due
    <2>2. QED
      BY <2>1 DEF Refusal, Errors
  <1>6. CASE Request.method = "GET" /\ Request.form = "ok"
    <2>1. Validity = Due /\ Due \in {200, 403, 404}
      <3>1. CASE file.kind = "absent"
        <4>1. Validity = 404 /\ Due = 404
          BY <1>2, <1>3, <1>6, <3>1 DEF Validity, Due
        <4>2. QED
          BY <4>1
      <3>2. CASE file.kind \in {"dir", "unreadable"}
        <4>1. Validity = 403 /\ Due = 403
          BY <1>2, <1>3, <1>6, <3>2 DEF Validity, Due
        <4>2. QED
          BY <4>1
      <3>3. CASE file.kind \in {"unwritable", "plain"}
        <4>1. Validity = 200 /\ Due = 200
          BY <1>2, <1>3, <1>6, <3>3 DEF Validity, Due
        <4>2. QED
          BY <4>1
      <3>4. QED
        BY <1>3, <3>1, <3>2, <3>3 DEF Kinds
    <2>2. Fits(Validity)
      BY <1>6, <2>1 DEF Refusal, Errors
    <2>3. QED
      BY <2>2
  <1>7. CASE Request.method = "PUT" /\ Request.form = "ok"
    <2>1. CASE Request.length = MISSING
      <3>1. Validity = 400 /\ Due = 400
        BY <1>2, <1>7, <2>1 DEF Validity, Due
      <3>2. QED
        BY <3>1 DEF Refusal, Errors
    <2>2. CASE Request.length # MISSING /\ file.kind \in {"dir", "unwritable"}
      <3>1. Validity = 403 /\ Due = 403
        BY <1>2, <1>3, <1>7, <2>2 DEF Validity, Due
      <3>2. QED
        BY <3>1 DEF Refusal, Errors
    <2>3. CASE Request.length # MISSING /\ file.kind \notin {"dir", "unwritable"}
      <3>1. Validity = 200 /\ Due = IF found.file.kind = "absent" THEN 201 ELSE 200
        BY <1>2, <1>3, <1>7, <2>3 DEF Validity, Due
      <3>2. Request.length \in Nat
        BY <1>1, <1>2, <2>3
      <3>3. QED
        BY <1>7, <3>1, <3>2
    <2>4. QED
      BY <2>1, <2>2, <2>3
  <1>8. QED
    BY <1>1, <1>2, <1>4, <1>5, <1>6, <1>7

LEMMA ValidateKeepsInv ==
  ASSUME HttpInv, validate_req
  PROVE  HttpInv'
  <1>1. TypeInv /\ PhaseInv /\ pc = "validate"
    BY DEF HttpInv, validate_req
  <1>2. /\ UNCHANGED <<file, bytes_read, body_length, passed, client, reply, found>>
        /\ errno' \in {errno, "other"}
    BY DEF validate_req
  <1>3. Parsed /\ LengthIsRead /\ BodyIsNext /\ file = found.file /\ client \in Clients
    BY <1>1 DEF PhaseInv, TypeInv
  <1>4. /\ Validity \in Errors \cup {200}
        /\ Validity # 200 => Refusal(Validity)
        /\ Validity = 200 =>
             \/ Request.method = "GET" /\ Due = 200
             \/ /\ Request.method = "PUT" /\ Request.length \in Nat
                /\ Due = IF found.file.kind = "absent" THEN 201 ELSE 200
    BY <1>1, <1>3, ValidityFits
  <1>5. Request' = Request /\ Due' = Due /\ HeaderRead /\ HeaderRead'
    <2>1. Due' = Due
      BY <1>2, DueStays
    <2>2. QED
      BY <1>2, <1>3, <2>1 DEF Parsed, HeaderRead, Request
  <1>6. req' = [req EXCEPT !.status = Validity,
                           !.content_length = IF Request.method = "GET" /\ Validity = 200
                                              THEN Len(file.data) ELSE req.content_length]
    BY DEF validate_req
  <1>7. pc' = IF Validity # 200 THEN "error" ELSE Request.method
    BY DEF validate_req
  <1>8. req' \in [content_length : Int, status : Errors \cup {200}, file_exists : BOOLEAN]
    <2>1. Len(file.data) \in Int
      BY <1>1 DEF TypeInv, Files
    <2>2. QED
      BY <1>1, <1>4, <1>6, <2>1, ZenonT(60) DEF TypeInv
  <1>9. CASE Validity # 200
    <2>1. pc' = "error" /\ req'.status = Validity
      BY <1>1, <1>6, <1>7, <1>9 DEF TypeInv
    <2>2. Refusal(req.status)'
      <3>1. PICK code : code = Validity /\ code = req'.status
        BY <2>1
      <3>2. Refusal(code)'
        BY <1>2, <1>4, <1>9, <3>1, RefusalStays
      <3>3. QED
        BY <3>1, <3>2 DEF Refusal
    <2>3. TypeInv'
      BY <1>1, <1>2, <1>8, <2>1 DEF TypeInv, Places
    <2>4. PhaseInv'
      BY <1>2, <1>3, <2>1, <2>2 DEF PhaseInv
    <2>5. QED
      BY <2>1, <2>3, <2>4 DEF HttpInv, RepliesFitRequests, Answered
  <1>10. CASE Validity = 200 /\ Request.method = "GET"
    <2>1. pc' = "GET" /\ req'.content_length = Len(file.data)
      BY <1>1, <1>6, <1>7, <1>10 DEF TypeInv
    <2>2. TypeInv'
      BY <1>1, <1>2, <1>8, <2>1 DEF TypeInv, Places
    <2>3. PhaseInv'
      BY <1>2, <1>3, <1>4, <1>5, <1>10, <2>1 DEF PhaseInv
    <2>4. QED
      BY <2>1, <2>2, <2>3 DEF HttpInv, RepliesFitRequests, Answered
  <1>11. CASE Validity = 200 /\ Request.method = "PUT"
    <2>1. pc' = "PUT" /\ req'.content_length = req.content_length
      BY <1>1, <1>6, <1>7, <1>11 DEF TypeInv
    <2>2. TypeInv'
      BY <1>1, <1>2, <1>8, <2>1 DEF TypeInv, Places
    <2>3. LengthIsRead' /\ BodyIsNext'
      BY <1>2, <1>3, <1>5, <2>1 DEF LengthIsRead, BodyIsNext
    <2>4. PhaseInv'
      BY <1>2, <1>3, <1>4, <1>5, <1>11, <2>1, <2>3 DEF PhaseInv
    <2>5. QED
      BY <2>1, <2>2, <2>4 DEF HttpInv, RepliesFitRequests, Answered
  <1>12. QED
    BY <1>4, <1>9, <1>10, <1>11

-----------------------------------------------------------------------------
(* The answers                                                             *)
LEMMA ErrorIsAnswered ==
  ASSUME HttpInv, handle_err
  PROVE  HttpInv'
  <1>1. TypeInv /\ PhaseInv /\ pc = "error"
    BY DEF HttpInv, handle_err
  <1>2. /\ pc' = "accept" /\ errno' \in {errno, "other"}
        /\ UNCHANGED <<file, req, bytes_read, body_length, passed, client, found>>
    BY DEF handle_err, Answer, local
  <1>3. reply' = [code |-> req.status, data |-> <<>>]
    BY DEF handle_err, Answer
  <1>4. PICK code : code = req.status
    OBVIOUS
  <1>5. reply'.code = code
    BY <1>3, <1>4
  <1>6. Refusal(code) /\ (code # 500 \/ Request.method = "GET" => file = found.file)
    BY <1>1, <1>4 DEF PhaseInv
  <1>7. Due' = Due /\ (Stray' <=> Stray) /\ Request' = Request
    BY <1>2, DueStays DEF Request
  <1>8. RepliesFitRequests'
    <2>1. code \in Errors /\ code \notin {200, 201}
      BY <1>6 DEF Refusal, Errors
    <2>2. code # 500 => code \in {400, 403, 404, 501, 505}
      BY <2>1 DEF Errors
    <2>3. /\ \/ code = Due
             \/ code = 400 /\ Stray
             \/ /\ Due \in {200, 201}
                /\ \/ code \in {403, 500} /\ found.failed = "open"
                   \/ code = 500 /\ found.failed \in {"write", "read"}
      BY <1>6 DEF Refusal
    <2>4. code \in {400, 404, 501, 505, 403} \/ Request.method = "GET" => file = found.file
      BY <1>6
    <2>5. ~(Due \in {200, 201} /\ code = Due)
      BY <2>1
    <2>6. QED
      BY <1>2, <1>5, <1>7, <2>3, <2>4, <2>5 DEF RepliesFitRequests
  <1>9. TypeInv'
    BY <1>1, <1>2 DEF TypeInv, Places
  <1>10. PhaseInv'
    BY <1>2 DEF PhaseInv
  <1>11. QED
    BY <1>8, <1>9, <1>10 DEF HttpInv

LEMMA GetIsAnswered ==
  ASSUME HttpInv, handle_get
  PROVE  HttpInv'
  <1>1. TypeInv /\ PhaseInv /\ pc = "GET"
    BY DEF HttpInv, handle_get
  <1>2. /\ pc' = "accept" /\ errno' \in {errno, "other"}
        /\ UNCHANGED <<file, req, bytes_read, body_length, passed, client, found>>
    BY DEF handle_get, Answer, local
  <1>3. /\ Request.method = "GET" /\ Due = 200 /\ file = found.file
        /\ req.content_length = Len(file.data)
    BY <1>1 DEF PhaseInv
  <1>4. reply' = [code |-> 200, data |-> SubSeq(file.data, 1, req.content_length)]
    BY DEF handle_get, Answer
  <1>5. reply'.code = 200 /\ reply'.data = file.data
    <2>1. file.data \in Seq(Nat)
      BY <1>1 DEF TypeInv, Files
    <2>2. SubSeq(file.data, 1, Len(file.data)) = file.data
      BY <2>1, SubSeqFull
    <2>3. QED
      BY <1>3, <1>4, <2>2
  <1>6. Due' = Due /\ Request' = Request
    BY <1>2, DueStays DEF Request
  <1>7. RepliesFitRequests'
    BY <1>2, <1>3, <1>5, <1>6 DEF RepliesFitRequests
  <1>8. TypeInv'
    BY <1>1, <1>2 DEF TypeInv, Places
  <1>9. PhaseInv'
    BY <1>2 DEF PhaseInv
  <1>10. QED
    BY <1>7, <1>8, <1>9 DEF HttpInv

LEMMA FailedCallKeepsInv ==
  ASSUME HttpInv, OpenFails \/ PutFails \/ PutTimesOut
  PROVE  HttpInv'
  <1>1. TypeInv /\ PhaseInv /\ pc \in {"GET", "PUT", "body", "pass"}
    BY DEF HttpInv, OpenFails, PutFails, PutTimesOut
  <1>2. PICK code \in {403, 500}, call \in {"open", "write", "read"} :
          /\ req' = [req EXCEPT !.status = code]
          /\ found' = [found EXCEPT !.failed = call]
          /\ \/ call = "open" /\ pc \in {"GET", "PUT"}
             \/ call # "open" /\ code = 500 /\ pc \in {"body", "pass"}
    <2>1. CASE OpenFails
      BY <2>1 DEF OpenFails, Status
    <2>2. CASE PutFails
      BY <2>2 DEF PutFails, PutEndsWith500, Status
    <2>3. CASE PutTimesOut
      BY <2>3 DEF PutTimesOut, PutEndsWith500, Status
    <2>4. QED
      BY <2>1, <2>2, <2>3
  <1>3. /\ pc' = "error" /\ errno' = "other"
        /\ UNCHANGED <<file, bytes_read, body_length, passed, client, reply>>
    BY DEF OpenFails, PutFails, PutTimesOut, PutEndsWith500
  <1>4. /\ found'.file = found.file /\ found'.errno = found.errno /\ found'.failed = call
        /\ req'.status = code
    BY <1>1, <1>2 DEF TypeInv
  <1>5. Due' = Due /\ Request' = Request
    BY <1>3, <1>4, DueStays DEF Request
  <1>6. Due \in {200, 201}
    BY <1>1 DEF PhaseInv
  <1>7. Refusal(code)'
    <2>1. code \in Errors
      BY DEF Errors
    <2>2. CASE call = "open"
      <3>1. code \in {403, 500} /\ found'.failed = "open"
        BY <1>4, <2>2
      <3>2. QED
        BY <1>5, <1>6, <2>1, <3>1 DEF Refusal
    <2>3. CASE call # "open"
      <3>1. found'.failed \in {"write", "read"}
        BY <1>4, <2>3
      <3>2. code = 500
        BY <1>2, <2>3
      <3>3. QED
        BY <1>5, <1>6, <2>1, <3>1, <3>2 DEF Refusal
    <2>4. QED
      BY <2>2, <2>3
  <1>8. code # 500 \/ Request.method = "GET" => file = found.file
    BY <1>1, <1>2 DEF PhaseInv
  <1>9. TypeInv'
    <2>1. code \in Errors \cup {200}
      BY DEF Errors
    <2>2. QED
      BY <1>1, <1>2, <1>3, <2>1 DEF TypeInv, Places
  <1>10. PhaseInv'
    <2>1. Refusal(req.status)'
      BY <1>4, <1>7 DEF Refusal
    <2>2. QED
      BY <1>3, <1>4, <1>5, <1>8, <2>1 DEF PhaseInv
  <1>11. QED
    BY <1>3, <1>9, <1>10 DEF HttpInv, RepliesFitRequests, Answered

-----------------------------------------------------------------------------
(* The body of a PUT                                                       *)
LEMMA OpenPutKeepsInv ==
  ASSUME HttpInv, OpenPut
  PROVE  HttpInv'
  <1>1. TypeInv /\ PhaseInv /\ pc = "PUT"
    BY DEF HttpInv, OpenPut
  <1>2. /\ pc' = "body"
        /\ req' = [req EXCEPT !.file_exists = file.kind # "absent"]
        /\ file' = [kind |-> IF file.kind = "absent" THEN "plain" ELSE file.kind, data |-> <<>>]
        /\ errno' \in {errno, "other"}
        /\ UNCHANGED <<bytes_read, body_length, passed, client, reply, found>>
    BY DEF OpenPut
  <1>3. /\ req'.content_length = req.content_length
        /\ (req'.file_exists <=> file.kind # "absent")
        /\ req' \in [content_length : Int, status : Errors \cup {200}, file_exists : BOOLEAN]
    BY <1>1, <1>2 DEF TypeInv
  <1>4. file' \in Files
    <2>1. <<>> \in Seq(Nat)
      OBVIOUS
    <2>2. file.kind \in Kinds
      BY <1>1 DEF TypeInv, Files
    <2>3. QED
      BY <1>2, <2>1, <2>2 DEF Files, Kinds
  <1>5. TypeInv'
    BY <1>1, <1>2, <1>3, <1>4 DEF TypeInv, Places
  <1>6. Due' = Due /\ Request' = Request
    BY <1>2, DueStays DEF Request
  <1>7. BodyIsNext /\ file = found.file /\ LengthIsRead /\ HeaderRead
    BY <1>1 DEF PhaseInv
  <1>8. BodyIsNext' /\ LengthIsRead' /\ HeaderRead'
    BY <1>2, <1>3, <1>6, <1>7 DEF BodyIsNext, LengthIsRead, HeaderRead
  <1>9. PhaseInv'
    BY <1>1, <1>2, <1>3, <1>6, <1>7, <1>8 DEF PhaseInv
  <1>10. QED
    BY <1>2, <1>5, <1>9 DEF HttpInv, RepliesFitRequests, Answered

\* What came with the header is written, cut to the length announced.
LEMMA WriteBodyKeepsInv ==
  ASSUME HttpInv, WriteBody
  PROVE  HttpInv'
  <1>1. TypeInv /\ PhaseInv /\ pc = "body"
    BY DEF HttpInv, WriteBody
  <1>2. /\ pc' = "pass" /\ body_length' = Clipped
        /\ file' = [file EXCEPT !.data = Bytes(0, Clipped)]
        /\ UNCHANGED <<errno, req, bytes_read, passed, client, reply, found>>
    BY DEF WriteBody
  <1>3. /\ BodyIsNext /\ LengthIsRead /\ Request.length \in Nat /\ HeaderRead
        /\ client \in Clients
    BY <1>1 DEF PhaseInv, TypeInv
  <1>4. Due' = Due /\ Request' = Request /\ HeaderRead' /\ LengthIsRead'
    <2>1. Due' = Due /\ Request' = Request
      BY <1>2, DueStays DEF Request
    <2>2. QED
      BY <1>2, <1>3, <2>1 DEF HeaderRead, LengthIsRead
  <1>5. /\ Clipped \in Nat /\ Clipped <= body_length /\ Clipped <= Request.length
        /\ Clipped = body_length \/ Clipped = Request.length
    BY <1>1, <1>3 DEF Clipped, AtMost, LengthIsRead, TypeInv
  <1>6. file'.kind = file.kind /\ file'.data = [k \in 1 .. Clipped |-> k] /\ file' \in Files
    <2>1. Bytes(0, Clipped) = [k \in 1 .. Clipped |-> k]
      BY <1>5 DEF Bytes
    <2>2. [k \in 1 .. Clipped |-> k] \in Seq(Nat)
      BY <1>5
    <2>3. file' = [file EXCEPT !.data = [k \in 1 .. Clipped |-> k]]
      BY <1>2, <2>1
    <2>4. file \in Files
      BY <1>1 DEF TypeInv
    <2>5. file' = [kind |-> file.kind, data |-> [k \in 1 .. Clipped |-> k]]
      BY <2>3, <2>4 DEF Files
    <2>6. file.kind \in Kinds
      BY <2>4 DEF Files
    <2>7. QED
      BY <2>2, <2>5, <2>6 DEF Files
  <1>7. TypeInv'
    BY <1>1, <1>2, <1>5, <1>6 DEF TypeInv, Places
  <1>8. /\ passed' = 0 /\ Written' = Clipped /\ body_length = bytes_read - Request.header
    <2>1. passed' = 0 /\ body_length = bytes_read - Request.header
      BY <1>2, <1>3 DEF BodyIsNext
    <2>2. QED
      BY <1>2, <1>5, <2>1 DEF Written
  <1>9. PhaseInv'
    <2>1. /\ file'.data = [k \in 1 .. Written' |-> k]
          /\ Written' <= Request'.length /\ body_length' <= bytes_read' - Request'.header
          /\ body_length' = bytes_read' - Request'.header \/ body_length' = Request'.length
      BY <1>2, <1>4, <1>5, <1>6, <1>8
    <2>2. QED
      BY <1>1, <1>2, <1>3, <1>4, <2>1 DEF PhaseInv
  <1>10. QED
    BY <1>2, <1>7, <1>9 DEF HttpInv, RepliesFitRequests, Answered

\* Bytes that follow on the first m make a longer run of bytes.
LEMMA BytesFollow ==
  ASSUME NEW m \in Nat, NEW n \in Nat, n > 0
  PROVE  [k \in 1 .. m |-> k] \o Bytes(m, n) = [k \in 1 .. (m + n) |-> k]
  <1> DEFINE s == [k \in 1 .. m |-> k]
             t == [k \in 1 .. n |-> m + k]
             u == [k \in 1 .. (m + n) |-> k]
  <1>1. s \in Seq(Nat) /\ t \in Seq(Nat) /\ u \in Seq(Nat)
    OBVIOUS
  <1>2. Len(s) = m /\ Len(t) = n /\ Len(u) = m + n
    OBVIOUS
  <1>3. s \o t \in Seq(Nat) /\ Len(s \o t) = Len(u)
    BY <1>1, <1>2, ConcatProperties
  <1>4. ASSUME NEW i \in 1 .. (m + n) PROVE (s \o t)[i] = u[i]
    <2>1. CASE i <= m
      BY <1>1, <1>2, <2>1, ConcatProperties
    <2>2. CASE i > m
      BY <1>1, <1>2, <2>2, ConcatProperties, SMTT(30)
    <2>3. QED
      BY <2>1, <2>2
  <1>5. s \o t = u
    BY <1>1, <1>2, <1>3, <1>4, SeqEqual
  <1>6. QED
    BY <1>5 DEF Bytes

LEMMA PassSomeKeepsInv ==
  ASSUME HttpInv, PassSome
  PROVE  HttpInv'
  <1>1. TypeInv /\ PhaseInv /\ pc = "pass"
    BY DEF HttpInv, PassSome
  <1>2. /\ client \in Clients /\ bytes_read \in Nat /\ body_length \in Nat /\ passed \in Nat
        /\ client.sent \in Nat /\ bytes_read + passed <= client.sent
    BY <1>1 DEF TypeInv, Clients
  <1>3. /\ LengthIsRead /\ Request.length \in Nat /\ HeaderRead
        /\ file.data = [k \in 1 .. Written |-> k]
        /\ Written <= Request.length /\ body_length <= bytes_read - Request.header
        /\ body_length = bytes_read - Request.header \/ body_length = Request.length
    BY <1>1 DEF PhaseInv
  <1>4. Written \in Nat /\ Request.header \in Nat
    <2>1. Request \in Requests
      BY <1>2 DEF Clients, Request
    <2>2. Request.header \in Nat
      BY <2>1, RequestIs
    <2>3. QED
      BY <1>2, <2>2 DEF Written
  <1>5. PICK n \in 1 .. AtMost(ToPass, Waiting) :
          /\ file' = [file EXCEPT !.data = @ \o Bytes(bytes_read - Request.header + passed, n)]
          /\ passed' = passed + n
    BY DEF PassSome
  <1>6. UNCHANGED <<errno, pc, req, bytes_read, body_length, client, reply, found>>
    BY DEF PassSome
  <1>7. /\ n \in Nat /\ n > 0 /\ Written + n <= Request.length
        /\ bytes_read + passed + n <= client.sent
    <2> DEFINE a == ToPass
               b == Waiting
    <2>1. a = Request.length - Written /\ b = client.sent - bytes_read - passed
      BY <1>2, <1>3 DEF ToPass, Waiting, Written, LengthIsRead
    <2>2. a \in Int /\ b \in Int
      BY <1>2, <1>3, <1>4, <2>1, SMTT(30)
    <2>3. n \in 1 .. AtMost(a, b)
      OBVIOUS
    <2> HIDE DEF a, b
    <2>4. n \in Nat /\ n > 0 /\ n <= a /\ n <= b
      BY <2>2, <2>3 DEF AtMost
    <2>5. Written + n <= Request.length
      BY <1>3, <1>4, <2>1, <2>4
    <2>6. bytes_read + passed + n <= client.sent
      BY <1>2, <2>1, <2>4
    <2>7. QED
      BY <2>4, <2>5, <2>6
  <1>8. bytes_read - Request.header + passed = Written
    BY <1>2, <1>3, <1>4, <1>7 DEF Written
  <1>9. /\ file'.data = [k \in 1 .. (Written + n) |-> k]
        /\ file' \in Files
    <2>1. file.data \o Bytes(Written, n) = [k \in 1 .. (Written + n) |-> k]
      BY <1>3, <1>4, <1>7, BytesFollow
    <2>2. file \in Files
      BY <1>1 DEF TypeInv
    <2>3. file' = [file EXCEPT !.data = [k \in 1 .. (Written + n) |-> k]]
      BY <1>5, <1>8, <2>1, <2>2 DEF Files
    <2>4. [k \in 1 .. (Written + n) |-> k] \in Seq(Nat)
      BY <1>4, <1>7
    <2>5. file' = [kind |-> file.kind, data |-> [k \in 1 .. (Written + n) |-> k]]
      BY <2>2, <2>3 DEF Files
    <2>6. file.kind \in Kinds
      BY <2>2 DEF Files
    <2>7. QED
      BY <2>4, <2>5, <2>6 DEF Files
  <1>10. Written' = Written + n /\ passed' \in Nat
    BY <1>2, <1>5, <1>6, <1>7 DEF Written
  <1>11. Due' = Due /\ Request' = Request
    BY <1>6, DueStays DEF Request
  <1>12. TypeInv'
    <2>1. bytes_read' + passed' <= client'.sent
      BY <1>2, <1>5, <1>6, <1>7
    <2>2. QED
      BY <1>1, <1>6, <1>9, <1>10, <2>1 DEF TypeInv
  <1>13. PhaseInv'
    <2>1. LengthIsRead' /\ HeaderRead'
      BY <1>3, <1>6, <1>11 DEF LengthIsRead, HeaderRead
    <2>2. /\ file'.data = [k \in 1 .. Written' |-> k] /\ Written' <= Request'.length
          /\ body_length' <= bytes_read' - Request'.header
          /\ body_length' = bytes_read' - Request'.header \/ body_length' = Request'.length
      BY <1>3, <1>6, <1>7, <1>9, <1>10, <1>11
    <2>3. QED
      BY <1>1, <1>6, <1>11, <2>1, <2>2 DEF PhaseInv
  <1>14. QED
    BY <1>1, <1>6, <1>12, <1>13 DEF HttpInv, RepliesFitRequests, Answered

LEMMA PutIsAnswered ==
  ASSUME HttpInv, Respond
  PROVE  HttpInv'
  <1>1. TypeInv /\ PhaseInv /\ pc = "pass"
    BY DEF HttpInv, Respond
  <1>2. /\ pc' = "accept" /\ errno' \in {errno, "other"}
        /\ UNCHANGED <<file, req, bytes_read, body_length, passed, client, found>>
    BY DEF Respond, Answer, local
  <1>3. reply'.code = IF req.file_exists THEN 200 ELSE 201
    BY DEF Respond, Answer
  <1>4. /\ client.sent \in Nat /\ bytes_read + passed <= client.sent
        /\ bytes_read \in Nat /\ body_length \in Nat /\ passed \in Nat
        /\ Request \in Requests
    BY <1>1 DEF TypeInv, Clients, Request
  <1>5. /\ LengthIsRead /\ Request.length \in Nat
        /\ file.data = [k \in 1 .. Written |-> k]
        /\ Written <= Request.length /\ body_length <= bytes_read - Request.header
    BY <1>1 DEF PhaseInv
  <1>6. Written \in Nat /\ Len(file.data) = Written /\ Request.header \in Nat
    <2>1. Written \in Nat
      BY <1>4 DEF Written
    <2>2. Len([k \in 1 .. Written |-> k]) = Written
      BY <2>1
    <2>3. QED
      BY <1>4, <1>5, <2>1, <2>2, RequestIs
  <1>7. Due' = Due /\ Request' = Request
    BY <1>2, DueStays DEF Request
  <1>8. Request.method = "PUT" /\ reply'.code = Due /\ Due \in {200, 201}
    <2>1. /\ Request.method = "PUT" /\ (req.file_exists <=> found.file.kind # "absent")
          /\ Due = IF found.file.kind = "absent" THEN 201 ELSE 200
      BY <1>1 DEF PhaseInv
    <2>2. QED
      BY <1>3, <2>1
  <1>9. /\ file.data = [k \in 1 .. Len(file.data) |-> k]
        /\ Len(file.data) <= AtMost(Request.length, client.sent - Request.header)
        /\ Len(file.data) < Request.length => client.gone
    <2>1. Written <= client.sent - Request.header
      BY <1>4, <1>5, <1>6 DEF Written
    <2>2. Written <= AtMost(Request.length, client.sent - Request.header)
      BY <1>5, <2>1 DEF AtMost
    <2>3. Written < Request.length => client.gone
      <3>1. ToPass = 0 \/ client.gone
        BY DEF Respond
      <3>2. ToPass = Request.length - Written
        BY <1>4, <1>5 DEF ToPass, LengthIsRead, Written
      <3>3. QED
        BY <1>5, <1>6, <3>1, <3>2
    <2>4. QED
      BY <1>5, <1>6, <2>2, <2>3
  <1>10. RepliesFitRequests'
    <2>1. reply'.code \notin {400, 404, 501, 505, 403} /\ Request.method # "GET"
      BY <1>8
    <2>2. QED
      BY <1>2, <1>7, <1>8, <1>9, <2>1 DEF RepliesFitRequests
  <1>11. TypeInv'
    BY <1>1, <1>2 DEF TypeInv, Places
  <1>12. PhaseInv'
    BY <1>2 DEF PhaseInv
  <1>13. QED
    BY <1>10, <1>11, <1>12 DEF HttpInv

-----------------------------------------------------------------------------
LEMMA HttpInvInitially == HttpInit => HttpInv
  <1> SUFFICES ASSUME HttpInit PROVE HttpInv
    OBVIOUS
  <1>1. PICK kind \in Kinds : file = [kind |-> kind, data |-> <<>>]
    BY DEF HttpInit
  <1>2. file \in Files
    <2>1. <<>> \in Seq(Nat)
      OBVIOUS
    <2>2. QED
      BY <1>1, <2>1 DEF Files
  <1>3. found = [file |-> file, errno |-> errno, failed |-> Nil] /\ errno = "other"
    BY DEF HttpInit
  <1>4. found \in [file : Files, errno : {"ERANGE", "other"},
                   failed : {"open", "write", "read", Nil}]
    BY <1>2, <1>3
  <1>5. TypeInv
    <2>1. req \in [content_length : Int, status : Errors \cup {200}, file_exists : BOOLEAN]
      BY DEF HttpInit
    <2>2. QED
      BY <1>2, <1>4, <2>1 DEF HttpInit, TypeInv, Places
  <1>6. PhaseInv
    BY DEF HttpInit, PhaseInv
  <1>7. QED
    BY <1>5, <1>6 DEF HttpInit, HttpInv, RepliesFitRequests, Answered

LEMMA HttpInvIsKept == HttpInv /\ [HttpNext]_httpVars => HttpInv'
  <1> SUFFICES ASSUME HttpInv, [HttpNext]_httpVars PROVE HttpInv'
    OBVIOUS
  <1>1. CASE UNCHANGED httpVars
    <2>1. UNCHANGED <<file, errno, pc, req, bytes_read, body_length, passed, client,
                      reply, found>>
      BY <1>1 DEF httpVars, local
    <2>2. Due' = Due /\ (Stray' <=> Stray) /\ Request' = Request
      BY <2>1, DueStays DEF Request
    <2>3. TypeInv'
      BY <2>1 DEF HttpInv, TypeInv
    <2>4. PhaseInv'
      <3>1. Refusal(req.status)' <=> Refusal(req.status)
        BY <2>1, <2>2 DEF Refusal
      <3>2. /\ HeaderRead' <=> HeaderRead
            /\ BodyIsNext' <=> BodyIsNext
            /\ ErrnoIsOld' <=> ErrnoIsOld
            /\ Parsed' <=> Parsed
            /\ LengthIsRead' <=> LengthIsRead
        BY <2>1, <2>2 DEF HeaderRead, BodyIsNext, ErrnoIsOld, Parsed, LengthIsRead
      <3>3. Written' = Written
        BY <2>1 DEF Written
      <3>4. QED
        BY <2>1, <2>2, <3>1, <3>2, <3>3 DEF HttpInv, PhaseInv
    <2>5. RepliesFitRequests'
      BY <2>1, <2>2 DEF HttpInv, RepliesFitRequests, Answered
    <2>6. QED
      BY <2>3, <2>4, <2>5 DEF HttpInv
  <1>2. CASE Connect \/ AcceptFails \/ Send \/ Leave
    BY <1>2, ClientsKeepInv
  <1>3. CASE Recv
    BY <1>3, RecvKeepsInv
  <1>4. CASE RecvNothing \/ RecvEnds \/ RecvFails
    BY <1>4, RecvFailsKeepsInv
  <1>5. CASE parse_req
    BY <1>5, ParseKeepsInv
  <1>6. CASE validate_req
    BY <1>6, ValidateKeepsInv
  <1>7. CASE handle_err
    BY <1>7, ErrorIsAnswered
  <1>8. CASE handle_get
    BY <1>8, GetIsAnswered
  <1>9. CASE OpenPut
    BY <1>9, OpenPutKeepsInv
  <1>10. CASE WriteBody
    BY <1>10, WriteBodyKeepsInv
  <1>11. CASE PassSome
    BY <1>11, PassSomeKeepsInv
  <1>12. CASE Respond
    BY <1>12, PutIsAnswered
  <1>13. CASE OpenFails \/ PutFails \/ PutTimesOut
    BY <1>13, FailedCallKeepsInv
  <1>14. QED
    BY <1>1, <1>2, <1>3, <1>4, <1>5, <1>6, <1>7, <1>8, <1>9, <1>10, <1>11, <1>12, <1>13
      DEF HttpNext, ServerStep, Working

(* Whatever the limit on the header and the lengths, in whatever portions  *)
(* a request comes, and whichever calls fail, handle_connection answers it *)
(* with the status its form and the file call for, or with one of the      *)
(* errors of a failing call or of a stray errno; it touches the file only  *)
(* for a PUT that passes every test; and after a 200 or 201 the file, or   *)
(* the data sent, is what the request asked for.                           *)
THEOREM AnswersFitRequests == HttpSpec => []RepliesFitRequests
  <1>1. HttpInv => RepliesFitRequests
    BY DEF HttpInv
  <1>2. QED
    BY <1>1, HttpInvInitially, HttpInvIsKept, PTL DEF HttpSpec
=============================================================================

----------------------------- MODULE HttpServer -----------------------------
(***************************************************************************)
(* The server of "HTTP Server/httpserver.c", which handles one connection  *)
(* after the other.  A client sends its header and then its body, byte by  *)
(* byte, and may stop or leave at any point; recv returns what has come so *)
(* far, in any portions.  Byte k of a body is the number k.  errno is kept *)
(* between connections, because parse_header_field reads it: only whether  *)
(* it is ERANGE matters.  The socket and I/O library is external; the      *)
(* timeout that ls_accept sets ends blocking reads, but not the loop of    *)
(* recv with MSG_DONTWAIT.                                                 *)
(***************************************************************************)
EXTENDS Integers, Sequences

CONSTANTS MAX_HEADER_LEN,
          ContentLengths,   \* the lengths announced, and those of the bodies sent
          Failing,          \* the calls that may fail
          Nil

ASSUME HttpAssumption ==
  /\ MAX_HEADER_LEN \in Nat \ {0} /\ ContentLengths \subseteq Nat
  /\ Failing \subseteq {"accept", "recv", "open", "write", "send"}

VARIABLES file,         \* what the URI names: its kind and its data
          errno,
          pc,
          req,          \* content_length, status and, for PUT, file_exists
          bytes_read, body_length,
          passed,       \* what pass_n_bytes has taken from the socket
          client,       \* the request, how much of it is sent, whether all will be
          reply,        \* the answer, Nil before
          found         \* history: file and errno when the connection came,
                        \* and the call that failed since

local    == <<req, bytes_read, body_length, passed>>
httpVars == <<file, errno, pc, local, client, reply, found>>

\* What the value of Content-Length may be besides a length.
MISSING  == -1
OVERFLOW == -2
LETTERS  == -3

Requests ==
  [method : {"PUT"}, form : {"ok"}, length : ContentLengths,
   header : 1 .. (MAX_HEADER_LEN + 1), body : ContentLengths]
  \cup
  [method : {"GET", "PUT", "DELETE"},
   form : {"ok", "bad line", "bad field", "old version"},
   length : {MISSING, OVERFLOW, LETTERS, 1}, header : {1}, body : {0}]

Kinds == {"absent", "dir", "unreadable", "unwritable", "plain"}

HttpInit ==
  /\ \E kind \in Kinds : file = [kind |-> kind, data |-> <<>>]
  /\ errno = "other" /\ pc = "accept"
  /\ req = [content_length |-> -1, status |-> 200, file_exists |-> FALSE]
  /\ bytes_read = 0 /\ body_length = 0 /\ passed = 0
  /\ client = Nil /\ reply = Nil /\ found = [file |-> file, errno |-> errno, failed |-> Nil]

AtMost(n, m) == IF n < m THEN n ELSE m

-----------------------------------------------------------------------------
(* The clients *)
Connect ==
  /\ pc = "accept" /\ pc' = "recv"
  /\ \E r \in Requests : client' = [request |-> r, sent |-> 0, gone |-> FALSE]
  /\ req' = [content_length |-> -1, status |-> 200, file_exists |-> FALSE]
  /\ bytes_read' = 0 /\ body_length' = 0 /\ passed' = 0
  /\ reply' = Nil /\ found' = [file |-> file, errno |-> errno, failed |-> Nil]
  /\ UNCHANGED <<file, errno>>

\* ls_accept returns -1: recv fails on it, and nobody sees the answer.
AcceptFails ==
  /\ pc = "accept" /\ "accept" \in Failing
  /\ errno' = "other"
  /\ UNCHANGED <<file, pc, local, client, reply, found>>

Send ==
  /\ pc # "accept" /\ ~client.gone
  /\ client.sent < client.request.header + client.request.body
  /\ client' = [client EXCEPT !.sent = @ + 1]
  /\ UNCHANGED <<file, errno, pc, local, reply, found>>

Leave ==
  /\ pc # "accept" /\ ~client.gone
  /\ client' = [client EXCEPT !.gone = TRUE]
  /\ UNCHANGED <<file, errno, pc, local, reply, found>>

-----------------------------------------------------------------------------
(* handle_connection *)
Request == client.request
Waiting == client.sent - bytes_read - passed    \* what a read would find

Status(code) == req' = [req EXCEPT !.status = code]

Recv ==
  /\ pc = "recv"
  /\ \E rc \in 1 .. AtMost(Waiting, MAX_HEADER_LEN - bytes_read) :
       bytes_read' = bytes_read + rc
  /\ IF bytes_read' >= Request.header
     THEN /\ body_length' = bytes_read' - Request.header
          /\ pc' = "parse"
          /\ UNCHANGED req
     ELSE /\ IF bytes_read' < MAX_HEADER_LEN THEN UNCHANGED <<pc, req>>
             ELSE pc' = "error" /\ Status(400)
          /\ UNCHANGED body_length
  /\ UNCHANGED <<file, errno, passed, client, reply, found>>

RecvNothing ==
  /\ pc = "recv" /\ Waiting = 0 /\ ~client.gone
  /\ errno' = "other"
  /\ UNCHANGED <<file, pc, local, client, reply, found>>

\* Slip: the end of the stream is taken for "nothing yet".
RecvEnds_Retries ==
  /\ pc = "recv" /\ Waiting = 0 /\ client.gone
  /\ UNCHANGED httpVars

RecvEnds ==
  /\ pc = "recv" /\ Waiting = 0 /\ client.gone
  /\ pc' = "error" /\ Status(400)
  /\ UNCHANGED <<file, errno, bytes_read, body_length, passed, client, reply, found>>

RecvFails ==
  /\ pc = "recv" /\ "recv" \in Failing
  /\ pc' = "error" /\ Status(400) /\ errno' = "other"
  /\ UNCHANGED <<file, bytes_read, body_length, passed, client, reply, found>>

\* What parse_header_field makes of the Content-Length line.
ParseLength ==
  CASE Request.length = MISSING  -> [value |-> -1, bad |-> FALSE, range |-> FALSE]
    [] Request.length = LETTERS  -> [value |-> -1, bad |-> TRUE, range |-> FALSE]
    [] Request.length = OVERFLOW -> [value |-> -1, bad |-> TRUE, range |-> TRUE]
    [] OTHER -> [value |-> Request.length, bad |-> errno = "ERANGE", range |-> FALSE]

\* The line with the length comes before one that is malformed.
parse_req ==
  /\ pc = "parse"
  /\ IF Request.form = "bad line"
     THEN pc' = "error" /\ Status(400) /\ UNCHANGED errno
     ELSE LET length == ParseLength
              bad    == length.bad \/ Request.form = "bad field"
          IN  /\ req' = [req EXCEPT !.content_length = length.value,
                                    !.status = IF bad THEN 400 ELSE @]
              /\ errno' = IF length.range THEN "ERANGE" ELSE errno
              /\ pc' = IF bad THEN "error" ELSE "validate"
  /\ UNCHANGED <<file, bytes_read, body_length, passed, client, reply, found>>

\* The status that validate_req leaves, by the first test that applies.
Validity ==
  CASE Request.method = "DELETE" -> 501
    [] Request.method # "DELETE" /\ Request.form = "old version" -> 505
    [] Request.method = "GET" /\ Request.form = "ok" ->
         CASE file.kind \in {"dir", "unreadable"} -> 403
           [] file.kind = "absent" -> 404
           [] OTHER -> 200
    [] Request.method = "PUT" /\ Request.form = "ok" ->
         CASE req.content_length = -1 -> 400
           [] req.content_length # -1 /\ file.kind \in {"dir", "unwritable"} -> 403
           [] OTHER -> 200

validate_req ==
  /\ pc = "validate"
  /\ req' = [req EXCEPT !.status = Validity,
                        !.content_length = IF Request.method = "GET" /\ Validity = 200
                                           THEN Len(file.data) ELSE @]
  /\ pc' = IF Validity # 200 THEN "error" ELSE Request.method
  /\ LET statted == Validity \notin {501, 505}
         refused == Validity = 403 /\ file.kind # "dir"
     IN  errno' = IF (statted /\ file.kind = "absent") \/ refused THEN "other" ELSE errno
  /\ UNCHANGED <<file, bytes_read, body_length, passed, client, reply, found>>

\* The answer is written and the connection closed; a failing write is
\* ignored, but for what it leaves in errno.
Answer(code, data) ==
  /\ reply' = [code |-> code, data |-> data]
  /\ pc' = "accept"
  /\ errno' \in IF "send" \in Failing THEN {errno, "other"} ELSE {errno}

handle_err ==
  /\ pc = "error"
  /\ Answer(req.status, <<>>)
  /\ UNCHANGED <<file, local, client, found>>

\* open fails with EACCES or EISDIR, or with another error.
OpenFails ==
  /\ pc \in {"GET", "PUT"} /\ "open" \in Failing
  /\ \E code \in {403, 500} : Status(code)
  /\ pc' = "error" /\ errno' = "other"
  /\ found' = [found EXCEPT !.failed = "open"]
  /\ UNCHANGED <<file, bytes_read, body_length, passed, client, reply>>

handle_get ==
  /\ pc = "GET"
  /\ Answer(200, SubSeq(file.data, 1, req.content_length))
  /\ UNCHANGED <<file, local, client, found>>

-----------------------------------------------------------------------------
(* handle_put *)
OpenPut ==
  /\ pc = "PUT" /\ pc' = "body"
  /\ req' = [req EXCEPT !.file_exists = file.kind # "absent"]
  /\ file' = [kind |-> IF file.kind = "absent" THEN "plain" ELSE file.kind, data |-> <<>>]
  /\ errno' = IF file.kind = "absent" THEN "other" ELSE errno
  /\ UNCHANGED <<bytes_read, body_length, passed, client, reply, found>>

\* Slip: what came with the header is not cut to the length announced.
Clipped_Not == body_length

Clipped == AtMost(body_length, req.content_length)

Bytes(first, n) == [k \in 1 .. n |-> first + k]

WriteBody ==
  /\ pc = "body" /\ pc' = "pass"
  /\ file' = [file EXCEPT !.data = Bytes(0, Clipped)]
  /\ body_length' = Clipped
  /\ UNCHANGED <<errno, req, bytes_read, passed, client, reply, found>>

ToPass == req.content_length - body_length - passed

PassSome ==
  /\ pc = "pass"
  /\ \E n \in 1 .. AtMost(ToPass, Waiting) :
       /\ file' = [file EXCEPT !.data =
                     @ \o Bytes(bytes_read - Request.header + passed, n)]
       /\ passed' = passed + n
  /\ UNCHANGED <<errno, pc, req, bytes_read, body_length, client, reply, found>>

\* pass_n_bytes returns at its count, or at the end of the stream.
Respond ==
  /\ pc = "pass"
  /\ ToPass = 0 \/ (Waiting = 0 /\ client.gone)
  /\ Answer(IF req.file_exists THEN 200 ELSE 201, <<>>)
  /\ UNCHANGED <<file, local, client, found>>

PutEndsWith500(call) ==
  /\ pc' = "error" /\ Status(500) /\ errno' = "other"
  /\ found' = [found EXCEPT !.failed = call]
  /\ UNCHANGED <<file, bytes_read, body_length, passed, client, reply>>

PutFails ==
  /\ "write" \in Failing
  /\ (pc = "body" /\ body_length > 0) \/ (pc = "pass" /\ ToPass > 0)
  /\ PutEndsWith500("write")

\* The client is silent until the socket's timeout.
PutTimesOut ==
  /\ pc = "pass" /\ ToPass > 0 /\ Waiting = 0 /\ ~client.gone
  /\ PutEndsWith500("read")

Working ==
  \/ Recv \/ RecvEnds \/ parse_req \/ validate_req \/ handle_err
  \/ handle_get \/ OpenPut \/ WriteBody \/ PassSome \/ PutTimesOut \/ Respond

ServerStep == Working \/ RecvNothing \/ RecvFails \/ OpenFails \/ PutFails

HttpNext == Connect \/ AcceptFails \/ Send \/ Leave \/ ServerStep

HttpSpec == HttpInit /\ [][HttpNext]_httpVars

\* The server is scheduled and its reads return or time out.  Clients owe
\* nothing, and no call is bound to fail.
HttpFairSpec == HttpSpec /\ WF_httpVars(Working)
=============================================================================

------------------------ MODULE HttpServerProperties ------------------------
(***************************************************************************)
(* What makes the single-threaded server correct.                          *)
(***************************************************************************)
EXTENDS HttpServer

Answered == pc = "accept" /\ reply # Nil

\* The header has come whole, and within the limit.
HeaderRead == bytes_read >= Request.header

\* The status of README.md's table for a request whose header was read.
Due ==
  LET kind == found.file.kind
      length == Request.length
  IN  IF ~HeaderRead \/ Request.form \in {"bad line", "bad field"}
         \/ length \in {OVERFLOW, LETTERS} THEN 400
      ELSE IF Request.method = "DELETE" THEN 501
      ELSE IF Request.form = "old version" THEN 505
      ELSE IF Request.method = "GET"
           THEN IF kind = "absent" THEN 404
                ELSE IF kind \in {"dir", "unreadable"} THEN 403 ELSE 200
      ELSE IF length = MISSING THEN 400
      ELSE IF kind \in {"dir", "unwritable"} THEN 403
      ELSE IF kind = "absent" THEN 201 ELSE 200

\* An earlier connection left ERANGE in errno, and this one has a length.
Stray == found.errno = "ERANGE" /\ Request.length >= 0

(* Each request gets the status its form and the file call for, whatever   *)
(* portions it came in: but for an open that fails (403, 500), a write that *)
(* fails or a body that does not come in time (500), and an errno left by  *)
(* an earlier connection (400).  Only a PUT that passes every test touches *)
(* the file; when it is answered 200 or 201 the file holds the body sent,  *)
(* from the first byte, in order, cut to the length announced, and it is   *)
(* shorter only if the client left.  A GET is sent the file as it was.     *)
RepliesFitRequests ==
  Answered =>
    LET done == Due \in {200, 201} /\ reply.code = Due
        body == AtMost(Request.length, client.sent - Request.header)
    IN  /\ \/ reply.code = Due
           \/ reply.code = 400 /\ Stray
           \/ /\ Due \in {200, 201}
              /\ \/ reply.code \in {403, 500} /\ found.failed = "open"
                 \/ reply.code = 500 /\ found.failed \in {"write", "read"}
        /\ reply.code \in {400, 404, 501, 505, 403} \/ Request.method = "GET"
             => file = found.file
        /\ done /\ Request.method = "GET" => reply.data = found.file.data
        /\ done /\ Request.method = "PUT" =>
             /\ file.data = [k \in 1 .. Len(file.data) |-> k]
             /\ Len(file.data) <= body
             /\ Len(file.data) < Request.length => client.gone

(* README.md: the server "processes client connections sequentially", so   *)
(* that one that does not end stops all others.  It ends once the client   *)
(* has left, has sent its header, or has filled the limit: a body that     *)
(* never comes does not hold the server, as the read of it times out.      *)
ConnectionsEnd ==
  (pc # "accept" /\ (client.gone \/ client.sent >= AtMost(Request.header, MAX_HEADER_LEN)))
     ~> pc = "accept"

(* README.md: "400 Bad Request - malformed request".  A request that is    *)
(* well formed, was read whole and met no failing call is not answered 400.*)
WellFormedIsNotBad ==
  Answered /\ Due # 400 => reply.code # 400
=============================================================================

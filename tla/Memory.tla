------------------------------- MODULE Memory -------------------------------
(***************************************************************************)
(* The program of "Command-Line Memory/memory.c", run again and again on   *)
(* one location: `set' stores what follows its three header lines, `get'   *)
(* prints what is stored.  A header line is two bytes, its text and its    *)
(* newline; byte k of the content is the number k, and the bytes of the    *)
(* header come before it as 0, -1, ...  read and write may be partial, but *)
(* read_bytes and write_bytes repeat them until nothing is left.           *)
(***************************************************************************)
EXTENDS Integers, Sequences, SequencesExt

CONSTANTS BUFFER_SIZE,
          Lengths,      \* the content lengths announced, and the sizes sent
          Faults,       \* the calls that may fail
          None

VARIABLES file,         \* what the location holds, None if it does not exist
          pc,
          input,        \* the standard input of this run
          buf, pos,     \* buf, and how much of the input, or file, has been read
          buf_index, bytes_in_buffer, content_length,
          out,          \* what get has printed
          status,       \* the message printed at the end
          before,       \* history: the file when this run began
          failed        \* history: a write of this run has failed

stdin == <<input, buf, pos>>
loop  == <<buf_index, bytes_in_buffer, content_length>>
vars  == <<file, pc, stdin, loop, out, status, before, failed>>

\* What the line of the content length may hold besides a length.
MISSING  == -1
OVERFLOW == -2
LETTERS  == -3

(* command and location are what the first two lines hold; length is the   *)
(* third line of set; cut tells whether the header's last newline is       *)
(* missing, blank whether an empty line follows the command.               *)
Inputs ==
  [command : {"get", "set"}, location : {"file"}, length : Lengths, cut : {FALSE},
   blank : BOOLEAN, sent : Lengths]
  \cup
  [command : {"get", "set", "other"}, location : {"file", "dir", "none"},
   length : {MISSING, OVERFLOW, LETTERS}, cut : BOOLEAN, blank : {FALSE}, sent : {0}]

Lines(in) == IF in.location = "none" THEN 1
             ELSE IF in.command = "get" \/ in.length = MISSING THEN 2 ELSE 3
Header(in) == 2 * Lines(in) + (IF in.blank THEN 1 ELSE 0)
Size(in) == Header(in) + in.sent - (IF in.cut THEN 1 ELSE 0)

\* The number strtoul returns.
Number(length) == IF length = LETTERS THEN 0 ELSE length

AtMost(n, m) == IF n < m THEN n ELSE m

\* n bytes of the input from position p on.
Bytes(in, p, n) == [k \in 1 .. AtMost(n, Size(in) - p) |-> p + k - Header(in)]

Init ==
  /\ file = None /\ pc = "start" /\ before = None /\ failed = FALSE
  /\ input = None /\ buf = <<>> /\ pos = 0
  /\ buf_index = 0 /\ bytes_in_buffer = 0 /\ content_length = 0
  /\ out = <<>> /\ status = "none"

Exit(message) == pc' = "exit" /\ status' = message

\* The next process: nothing is left of the last but the file.
Again ==
  /\ pc = "exit" /\ pc' = "start"
  /\ before' = file /\ failed' = FALSE /\ UNCHANGED file
  /\ input' = None /\ buf' = <<>> /\ pos' = 0
  /\ buf_index' = 0 /\ bytes_in_buffer' = 0 /\ content_length' = 0
  /\ out' = <<>> /\ status' = "none"

Run ==
  /\ pc = "start"
  /\ \E in \in Inputs :
       /\ input' = in
       /\ buf' = Bytes(in, 0, BUFFER_SIZE)
  /\ pos' = Len(buf')
  /\ \/ pc' = "parse" /\ UNCHANGED status
     \/ "read" \in Faults /\ Exit("Operation Failed")
  /\ UNCHANGED <<file, loop, out, before, failed>>

\* What main adds to buf_index: strtok passes over a second newline uncounted.
Parsed == 2 * Lines(input)

Parse ==
  /\ pc = "parse"
  /\ LET result == Len(buf)
         valid  == /\ input.command \in {"get", "set"} /\ input.location = "file"
                   /\ input.command = "set" => /\ input.length \notin {MISSING, OVERFLOW}
                                               /\ Parsed <= result
                   /\ input.command = "get" => Parsed = result
     IN  IF ~valid
         THEN Exit("Invalid Command") /\ UNCHANGED loop
         ELSE /\ pc' = input.command
              /\ buf_index' = Parsed
              /\ IF input.command = "set"
                 THEN /\ bytes_in_buffer' = result - Parsed
                      /\ content_length' = Number(input.length)
                 ELSE UNCHANGED <<bytes_in_buffer, content_length>>
              /\ UNCHANGED status
  /\ UNCHANGED <<file, stdin, out, before, failed>>

-----------------------------------------------------------------------------
(* execute_set *)
OpenSet ==
  /\ pc = "set"
  /\ \/ file' = <<>> /\ pc' = "copy" /\ UNCHANGED status
     \/ "open" \in Faults /\ Exit("Invalid Command") /\ UNCHANGED file
  /\ UNCHANGED <<stdin, loop, out, before, failed>>

Clipped == AtMost(bytes_in_buffer, content_length)

\* Slip: a chunk that fills the buffer is taken for the last.
WriteChunk_StopsAtFull ==
  /\ pc = "copy" /\ content_length > 0 /\ bytes_in_buffer > 0
  /\ file' = file \o SubSeq(buf, buf_index + 1, buf_index + Clipped)
  /\ bytes_in_buffer' = 0 /\ content_length' = 0
  /\ UNCHANGED <<pc, stdin, buf_index, out, status, before, failed>>

WriteChunk ==
  /\ pc = "copy" /\ content_length > 0 /\ Clipped > 0
  /\ \/ /\ file' = file \o SubSeq(buf, buf_index + 1, buf_index + Clipped)
        /\ IF Clipped < BUFFER_SIZE - buf_index
           THEN /\ content_length' = 0 /\ bytes_in_buffer' = Clipped
                /\ UNCHANGED buf_index
           ELSE /\ content_length' = content_length - Clipped
                /\ bytes_in_buffer' = 0
                /\ buf_index' = buf_index + Clipped
        /\ UNCHANGED <<pc, status, failed>>
     \/ /\ "write" \in Faults
        /\ \E n \in 0 .. (Clipped - 1) :
             file' = file \o SubSeq(buf, buf_index + 1, buf_index + n)
        /\ Exit("Operation Failed") /\ failed' = TRUE /\ UNCHANGED loop
  /\ UNCHANGED <<stdin, out, before>>

ReadChunk ==
  /\ pc = "copy" /\ content_length > 0 /\ bytes_in_buffer = 0
  /\ LET amount_to_read == AtMost(content_length, BUFFER_SIZE)
         read == Bytes(input, pos, amount_to_read)
     IN  \/ /\ read # <<>>
            /\ buf' = read \o SubSeq(buf, Len(read) + 1, Len(buf))
            /\ pos' = pos + Len(read)
            /\ bytes_in_buffer' = Len(read) /\ buf_index' = 0
            /\ content_length' = IF Len(read) < amount_to_read THEN Len(read)
                                 ELSE content_length
            /\ UNCHANGED <<pc, status>>
         \/ /\ read = <<>>
            /\ Exit("OK") /\ UNCHANGED <<buf, pos, loop>>
         \/ /\ "read" \in Faults
            /\ Exit("Operation Failed") /\ UNCHANGED <<buf, pos, loop>>
  /\ UNCHANGED <<file, input, out, before, failed>>

SetDone ==
  /\ pc = "copy" /\ content_length = 0
  /\ Exit("OK")
  /\ UNCHANGED <<file, stdin, loop, out, before, failed>>

-----------------------------------------------------------------------------
(* execute_get *)
OpenGet ==
  /\ pc = "get"
  /\ \/ file # None /\ pc' = "print" /\ pos' = 0 /\ UNCHANGED status
     \/ (file = None \/ "open" \in Faults) /\ Exit("Invalid Command") /\ UNCHANGED pos
  /\ UNCHANGED <<file, input, buf, loop, out, before, failed>>

\* Slip: a chunk that fills the buffer is taken for the last.
PrintChunk_StopsAtFull ==
  /\ pc = "print"
  /\ out' = SubSeq(file, 1, AtMost(BUFFER_SIZE, Len(file)))
  /\ Exit("done")
  /\ UNCHANGED <<file, stdin, loop, before, failed>>

\* The result of write_bytes is not looked at.
PrintChunk ==
  /\ pc = "print"
  /\ LET read == SubSeq(file, pos + 1, AtMost(pos + BUFFER_SIZE, Len(file)))
     IN  \/ /\ read # <<>>
            /\ \/ out' = out \o read /\ UNCHANGED failed
               \/ /\ "write" \in Faults /\ failed' = TRUE
                  /\ \E n \in 0 .. (Len(read) - 1) : out' = out \o SubSeq(read, 1, n)
            /\ pos' = pos + Len(read)
            /\ UNCHANGED <<pc, status>>
         \/ /\ read = <<>>
            /\ Exit("done") /\ UNCHANGED <<out, pos, failed>>
         \/ /\ "read" \in Faults
            /\ Exit("Operation Failed") /\ UNCHANGED <<out, pos, failed>>
  /\ UNCHANGED <<file, input, buf, loop, before>>

Next ==
  \/ Run \/ Again \/ Parse
  \/ OpenSet \/ WriteChunk \/ ReadChunk \/ SetDone
  \/ OpenGet \/ PrintChunk

-----------------------------------------------------------------------------
\* The bytes of a file are numbered from its front to its end.
InOrder(s) == \A j, k \in DOMAIN s : j < k => s[j] < s[k]

(* README.md: set "Writes <content_length> bytes to the specified file",   *)
(* get outputs it.  After OK no write has failed and the file holds the    *)
(* announced number of bytes of what was sent, or all of them when fewer   *)
(* were sent, in order and from the first, wherever the ends of header,    *)
(* buffer and content fall; an empty line in the header, which main does   *)
(* not count, puts the header's last byte before them.  get prints all of  *)
(* the file, less what a write that fails leaves out (and ends as if there *)
(* had been no failure, for all that README.md says of partial writes);    *)
(* and neither get nor an invalid command changes the file.                *)
MemoryIsKept ==
  pc = "exit" =>
    /\ status = "OK" =>
         LET extra == IF input.blank THEN 1 ELSE 0
         IN  /\ ~failed
             /\ file = [k \in 1 .. AtMost(Number(input.length), input.sent + extra) |->
                          k - extra]
    /\ status = "done" => /\ InOrder(out) /\ ToSet(out) \subseteq ToSet(before)
                          /\ ~failed => out = before
    /\ status \in {"Invalid Command", "done"} => file = before
=============================================================================

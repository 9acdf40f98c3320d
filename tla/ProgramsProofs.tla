--------------------------- MODULE ProgramsProofs ---------------------------
(***************************************************************************)
(* Proofs about the memory, the sorter and FindPath, for every value of    *)
(* their parameters: files of any length, any size of a buffer, graphs of  *)
(* any order with any number of arcs.  Each program has an invariant of    *)
(* its own over its own variables, which the steps of the others leave     *)
(* alone.                                                                  *)
(***************************************************************************)
EXTENDS Programs, CommonLemmas, FiniteSetTheorems, FunctionTheorems, SequenceTheorems, TLAPS

-----------------------------------------------------------------------------
(* The command-line memory                                                 *)

\* n bytes, from the one after number c on.
Stretch(c, n) == [k \in 1 .. n |-> c + k]

\* The byte before the first that set stores: a byte of the header which main
\* leaves uncounted is stored as well.
Origin == IF m_input.blank THEN -1 ELSE 0

\* Every file is a stretch of the bytes that set was sent.
Contents(f) == f = None \/ \E c \in Int, n \in Nat : f = Stretch(c, n)

Total == Store!Size(m_input) - Store!Parsed
Asked == Store!Number(m_input.length)

\* What the buffer holds when len bytes of the content are written: those that
\* follow, from buf_index on.
Buffered(len) ==
  /\ m_buf \in Seq(Int) /\ Len(m_buf) <= BUFFER_SIZE
  /\ m_buf_index + m_bytes_in_buffer <= Len(m_buf)
  /\ \A j \in 1 .. m_bytes_in_buffer :
       m_buf[m_buf_index + j] = Origin + len + j
  /\ m_pos = Store!Parsed + len + m_bytes_in_buffer /\ m_pos <= Store!Size(m_input)

\* Where execute_set is after len bytes: done; or with the rest to write, in
\* the buffer as far as there was room; or with a last chunk in the buffer.
Copying(len) ==
  /\ len <= Asked
  /\ \/ /\ m_content_length = 0
        /\ len = Store!AtMost(Asked, Total)
     \/ /\ Buffered(len)
        /\ m_content_length = Asked - len
        /\ \/ m_bytes_in_buffer \in {0, m_content_length, BUFFER_SIZE - m_buf_index}
           \/ m_pos = Store!Size(m_input)
     \/ /\ Buffered(len)
        /\ m_content_length = m_bytes_in_buffer /\ len + m_bytes_in_buffer <= Asked
        /\ m_pos = Store!Size(m_input)

\* The input of a set that is carried out.
Accepted ==
  /\ m_input \in Store!Inputs
  /\ Asked \in Nat /\ Store!Parsed \in Nat /\ Store!Size(m_input) \in Nat
  /\ Total = m_input.sent - Origin /\ m_input.sent \in Nat
  /\ m_buf_index \in Nat /\ m_bytes_in_buffer \in Nat /\ m_content_length \in Nat
  /\ m_pos \in Nat

\* What get has printed of a file, having read it up to pos.
Printed ==
  /\ m_file \in Seq(Int) /\ m_out \in Seq(Int)
  /\ m_pos \in 0 .. Len(m_file)
  /\ Store!InOrder(m_out)
  /\ \A j \in DOMAIN m_out : \E k \in 1 .. m_pos : m_out[j] = m_file[k]
  /\ ~m_failed => m_out = SubSeq(m_file, 1, m_pos)

MemoryInv ==
  /\ m_pc \in {"start", "parse", "set", "copy", "get", "print", "exit"}
  /\ Contents(m_file)
  /\ m_pc \in {"start", "parse", "set", "get", "print"} => m_file = m_before
  /\ m_pc \in {"start", "parse", "set", "get"} => m_out = <<>>
  /\ m_pc \in {"start", "parse", "set", "copy", "get"} => ~m_failed
  /\ m_pc = "parse" => /\ m_input \in Store!Inputs
                       /\ m_buf = Store!Bytes(m_input, 0, BUFFER_SIZE)
                       /\ m_pos = Len(m_buf)
  /\ m_pc = "set" => Accepted /\ Copying(0)
  /\ m_pc = "copy" => /\ Accepted
                      /\ \E len \in Nat : /\ m_file = Stretch(Origin, len)
                                          /\ Copying(len)
  /\ m_pc = "print" => m_file # None /\ Printed
  /\ Store!MemoryIsKept

LEMMA StretchIs ==
  ASSUME NEW c \in Int, NEW n \in Nat
  PROVE  /\ Stretch(c, n) \in Seq(Int) /\ Len(Stretch(c, n)) = n
         /\ \A k \in 1 .. n : Stretch(c, n)[k] = c + k
  <1>1. Stretch(c, n) \in [1 .. n -> Int]
    BY DEF Stretch
  <1>2. QED
    BY <1>1, FunIsSeq DEF Stretch

LEMMA StretchGrows ==
  ASSUME NEW c \in Int, NEW len \in Nat, NEW buf \in Seq(Int),
         NEW b \in Nat, NEW n \in Nat, b + n <= Len(buf),
         \A j \in 1 .. n : buf[b + j] = c + len + j
  PROVE  Stretch(c, len) \o SubSeq(buf, b + 1, b + n) = Stretch(c, len + n)
  <1> DEFINE more == SubSeq(buf, b + 1, b + n)
             new  == Stretch(c, len + n)
             old  == Stretch(c, len)
  <1>1. /\ more \in Seq(Int) /\ Len(more) = n
        /\ \A j \in 1 .. n : more[j] = buf[b + j]
    <2>1. \A i \in (b + 1) .. (b + n) : buf[i] \in Int
      BY ElementOfSeq, LenProperties
    <2>2. b + 1 \in Int /\ b + n \in Int
      OBVIOUS
    <2>3. /\ more \in Seq(Int)
          /\ Len(more) = IF b + 1 <= b + n THEN (b + n) - (b + 1) + 1 ELSE 0
          /\ \A i \in 1 .. (b + n) - (b + 1) + 1 : more[i] = buf[(b + 1) + i - 1]
      BY <2>1, <2>2, SubSeqProperties
    <2> HIDE DEF more
    <2>4. QED
      BY <2>3
  <1>2. /\ old \in Seq(Int) /\ Len(old) = len
        /\ \A k \in 1 .. len : old[k] = c + k
    BY StretchIs
  <1>3. /\ new \in Seq(Int) /\ Len(new) = len + n
        /\ \A k \in 1 .. (len + n) : new[k] = c + k
    <2>1. len + n \in Nat
      OBVIOUS
    <2>2. QED
      BY <2>1, StretchIs
  <1> HIDE DEF more, new, old
  <1>4. /\ old \o more \in Seq(Int)
        /\ Len(old \o more) = len + n
        /\ \A i \in 1 .. (len + n) :
             (old \o more)[i] = IF i <= len THEN old[i] ELSE more[i - len]
    <2>1. /\ old \o more \in Seq(Int)
          /\ Len(old \o more) = Len(old) + Len(more)
          /\ \A i \in 1 .. Len(old) + Len(more) :
               (old \o more)[i] = IF i <= Len(old) THEN old[i] ELSE more[i - Len(old)]
      BY <1>1, <1>2, ConcatProperties
    <2>2. QED
      BY <1>1, <1>2, <2>1
  <1>5. ASSUME NEW i \in 1 .. (len + n) PROVE (old \o more)[i] = new[i]
    <2>1. CASE i <= len
      BY <1>2, <1>3, <1>4, <2>1
    <2>2. CASE ~(i <= len)
      <3>1. i - len \in 1 .. n
        BY <2>2
      <3>2. (old \o more)[i] = more[i - len] /\ more[i - len] = buf[b + (i - len)]
        BY <1>1, <1>4, <2>2, <3>1
      <3>3. buf[b + (i - len)] = c + len + (i - len)
        BY <3>1
      <3>4. QED
        BY <1>3, <3>2, <3>3
    <2>3. QED
      BY <2>1, <2>2
  <1>6. old \o more = new
    BY <1>3, <1>4, <1>5, SeqEqual
  <1>7. QED
    BY <1>6 DEF more, new, old

LEMMA InputIs ==
  ASSUME NEW in \in Store!Inputs
  PROVE  /\ Store!Lines(in) \in 1 .. 3
         /\ in.blank \in BOOLEAN /\ in.cut \in BOOLEAN /\ in.sent \in Nat
         /\ Store!Size(in) \in Nat /\ Store!Header(in) \in Nat
         /\ in.length \in Nat => ~in.cut
         /\ in.length \in Nat \cup {Store!MISSING, Store!OVERFLOW, Store!LETTERS}
         /\ in.cut => ~in.blank /\ in.sent = 0
  <1>1. /\ in.blank \in BOOLEAN /\ in.cut \in BOOLEAN /\ in.sent \in Nat
        /\ in.length \in Nat => ~in.cut
        /\ in.length \in Nat \cup {Store!MISSING, Store!OVERFLOW, Store!LETTERS}
        /\ in.cut => ~in.blank /\ in.sent = 0
    <2>1. CASE in \in [command : {"get", "set"}, location : {"file"}, length : Lengths,
                       cut : {FALSE}, blank : BOOLEAN, sent : Lengths]
      BY <2>1, ProgramsAssumption
    <2>2. CASE in \in [command : {"get", "set", "other"}, location : {"file", "dir", "none"},
                       length : {Store!MISSING, Store!OVERFLOW, Store!LETTERS},
                       cut : BOOLEAN, blank : {FALSE}, sent : {0}]
      <3>1. /\ in.blank = FALSE /\ in.cut \in BOOLEAN /\ in.sent = 0
            /\ in.length \in {Store!MISSING, Store!OVERFLOW, Store!LETTERS}
        BY <2>2
      <3>2. in.length \notin Nat
        BY <3>1 DEF Store!MISSING, Store!OVERFLOW, Store!LETTERS
      <3>3. in.blank \in BOOLEAN /\ (in.cut => ~in.blank /\ in.sent = 0)
        BY <3>1, Zenon
      <3>4. in.sent \in Nat
        BY <3>1
      <3>5. QED
        BY <3>1, <3>2, <3>3, <3>4, Zenon
    <2>3. QED
      BY <2>1, <2>2 DEF Store!Inputs
  <1>2. Store!Lines(in) \in 1 .. 3
    BY DEF Store!Lines
  <1>3. Store!Header(in) \in Nat /\ Store!Header(in) >= 2
    BY <1>1, <1>2 DEF Store!Header
  <1>4. Store!Size(in) \in Nat
    BY <1>1, <1>3 DEF Store!Size
  <1>5. QED
    BY <1>1, <1>2, <1>3, <1>4

LEMMA BytesAre ==
  ASSUME NEW in \in Store!Inputs, NEW p \in Nat, NEW n \in Nat, p <= Store!Size(in)
  PROVE  LET b == Store!Bytes(in, p, n) IN
         /\ b \in Seq(Int) /\ Len(b) = Store!AtMost(n, Store!Size(in) - p)
         /\ \A k \in 1 .. Len(b) : b[k] = p + k - Store!Header(in)
  <1> DEFINE m == Store!AtMost(n, Store!Size(in) - p)
             b == Store!Bytes(in, p, n)
  <1>1. m \in Nat /\ Store!Header(in) \in Nat
    BY InputIs DEF Store!AtMost
  <1> HIDE DEF m
  <1>2. b = [k \in 1 .. m |-> p + k - Store!Header(in)]
    BY DEF Store!Bytes, m
  <1>3. b \in [1 .. m -> Int]
    BY <1>1, <1>2
  <1>4. QED
    BY <1>1, <1>2, <1>3, FunIsSeq DEF m

LEMMA MemoryInit == Store!Init => MemoryInv
  BY DEF Store!Init, MemoryInv, Contents, Store!MemoryIsKept

LEMMA SetStays ==
  ASSUME UNCHANGED <<m_input, m_buf, m_pos, m_buf_index, m_bytes_in_buffer, m_content_length>>
  PROVE  /\ Origin' = Origin /\ Total' = Total /\ Asked' = Asked
         /\ (Store!Parsed)' = Store!Parsed
         /\ Accepted' <=> Accepted
         /\ \A len : Copying(len)' <=> Copying(len)
  <1>1. /\ Origin' = Origin /\ Total' = Total /\ Asked' = Asked
        /\ (Store!Parsed)' = Store!Parsed
    BY DEF Origin, Total, Asked, Store!Parsed
  <1>2. Accepted' <=> Accepted
    BY <1>1 DEF Accepted
  <1>3. ASSUME NEW len PROVE Copying(len)' <=> Copying(len)
    <2>1. Buffered(len)' <=> Buffered(len)
      BY <1>1 DEF Buffered
    <2>2. QED
      BY <1>1, <2>1 DEF Copying
  <1>4. QED
    BY <1>1, <1>2, <1>3

LEMMA MemoryStays == MemoryInv /\ UNCHANGED memoryVars => MemoryInv'
  <1>1. SUFFICES ASSUME MemoryInv, UNCHANGED memoryVars
                 PROVE  MemoryInv'
    OBVIOUS
  <1>2. /\ UNCHANGED <<m_file, m_pc, m_input, m_buf, m_pos, m_buf_index>>
        /\ UNCHANGED <<m_bytes_in_buffer, m_content_length, m_out, m_status, m_before, m_failed>>
    BY <1>1 DEF memoryVars
  <1>3. /\ Origin' = Origin /\ (Accepted' <=> Accepted)
        /\ \A len : Copying(len)' <=> Copying(len)
    BY <1>2, SetStays
  <1>4. Printed' <=> Printed
    BY <1>2 DEF Printed
  <1>5. (Store!MemoryIsKept)' <=> Store!MemoryIsKept
    BY <1>2 DEF Store!MemoryIsKept
  <1>6. QED
    BY <1>1, <1>2, <1>3, <1>4, <1>5 DEF MemoryInv

LEMMA RunKeeps == MemoryInv /\ Store!Run => MemoryInv'
  <1>1. SUFFICES ASSUME MemoryInv, Store!Run
                 PROVE  MemoryInv'
    OBVIOUS
  <1>2. /\ Contents(m_file) /\ m_file = m_before /\ m_out = <<>> /\ ~m_failed
        /\ UNCHANGED <<m_file, m_out, m_before, m_failed>>
    BY <1>1 DEF MemoryInv, Store!Run
  <1>3. /\ m_input' \in Store!Inputs
        /\ m_buf' = Store!Bytes(m_input', 0, BUFFER_SIZE) /\ m_pos' = Len(m_buf')
    BY <1>1 DEF Store!Run
  <1>4. CASE m_pc' = "parse"
    BY <1>2, <1>3, <1>4 DEF MemoryInv, Store!MemoryIsKept
  <1>5. CASE Store!Exit("Operation Failed")
    BY <1>2, <1>5 DEF MemoryInv, Store!MemoryIsKept, Store!Exit
  <1>6. QED
    BY <1>1, <1>4, <1>5 DEF Store!Run

LEMMA AgainKeeps == MemoryInv /\ Store!Again => MemoryInv'
  BY DEF Store!Again, MemoryInv, Store!MemoryIsKept

LEMMA ParseKeeps == MemoryInv /\ Store!Parse => MemoryInv'
  <1>1. SUFFICES ASSUME MemoryInv, Store!Parse
                 PROVE  MemoryInv'
    OBVIOUS
  <1>2. /\ m_pc = "parse" /\ Contents(m_file) /\ m_file = m_before /\ m_out = <<>>
        /\ m_input \in Store!Inputs
        /\ m_buf = Store!Bytes(m_input, 0, BUFFER_SIZE) /\ m_pos = Len(m_buf)
        /\ UNCHANGED <<m_file, m_input, m_buf, m_pos, m_out, m_before>>
        /\ ~m_failed /\ m_failed' = m_failed
    BY <1>1 DEF MemoryInv, Store!Parse, Store!stdin
  <1>3. CASE Store!Exit("Invalid Command")
    BY <1>2, <1>3 DEF Store!Exit, MemoryInv, Store!MemoryIsKept
  <1>4. CASE ~Store!Exit("Invalid Command")
    <2>1. /\ m_input.command \in {"get", "set"} /\ m_pc' = m_input.command
          /\ m_input.location = "file"
          /\ m_buf_index' = Store!Parsed
          /\ m_input.command = "set" =>
               /\ m_input.length \notin {Store!MISSING, Store!OVERFLOW}
               /\ Store!Parsed <= Len(m_buf)
               /\ m_bytes_in_buffer' = Len(m_buf) - Store!Parsed
               /\ m_content_length' = Store!Number(m_input.length)
          /\ m_status' = m_status
      BY <1>1, <1>4 DEF Store!Parse
    <2>2. CASE m_input.command = "get"
      BY <1>2, <2>1, <2>2 DEF MemoryInv, Store!MemoryIsKept
    <2>3. CASE m_input.command = "set"
      <3> DEFINE in == m_input
      <3>1. /\ Store!Lines(in) \in 1 .. 3 /\ in.blank \in BOOLEAN /\ in.cut \in BOOLEAN
            /\ in.sent \in Nat /\ Store!Size(in) \in Nat /\ Store!Header(in) \in Nat
            /\ in.length \in Nat => ~in.cut
            /\ in.length \in Nat \cup {Store!MISSING, Store!OVERFLOW, Store!LETTERS}
            /\ in.cut => ~in.blank /\ in.sent = 0
        BY <1>2, InputIs
      <3>2. /\ m_buf \in Seq(Int)
            /\ Len(m_buf) = Store!AtMost(BUFFER_SIZE, Store!Size(in))
            /\ \A k \in 1 .. Len(m_buf) : m_buf[k] = k - Store!Header(in)
        <4>1. 0 \in Nat /\ BUFFER_SIZE \in Nat /\ 0 <= Store!Size(in)
          BY <3>1, ProgramsAssumption
        <4>2. /\ m_buf \in Seq(Int)
              /\ Len(m_buf) = Store!AtMost(BUFFER_SIZE, Store!Size(in) - 0)
              /\ \A k \in 1 .. Len(m_buf) : m_buf[k] = 0 + k - Store!Header(in)
          BY <1>2, <4>1, BytesAre
        <4>3. QED
          BY <3>1, <4>2, LenProperties
      <3>3. in.length \in Nat \/ in.length = Store!LETTERS
        BY <2>1, <2>3, <3>1
      <3>4. Asked \in Nat /\ Asked = Store!Number(in.length)
        BY <3>3 DEF Asked, Store!Number, Store!LETTERS
      <3>5. /\ Store!Parsed = 2 * Store!Lines(in) /\ Store!Parsed \in Nat
            /\ Len(m_buf) \in Nat /\ Store!Parsed <= Len(m_buf)
            /\ Len(m_buf) <= BUFFER_SIZE /\ Len(m_buf) <= Store!Size(in)
            /\ Len(m_buf) = BUFFER_SIZE \/ Len(m_buf) = Store!Size(in)
        <4>1. Len(m_buf) \in Nat
          BY <3>2, LenProperties
        <4>2. BUFFER_SIZE \in Nat
          BY ProgramsAssumption
        <4>3. QED
          BY <2>1, <2>3, <3>1, <3>2, <4>1, <4>2, SMTT(30) DEF Store!Parsed, Store!AtMost
      <3>6. ~in.cut
        <4>1. SUFFICES ASSUME in.cut PROVE FALSE
          OBVIOUS
        <4>2. in.length = Store!LETTERS /\ Store!LETTERS # Store!MISSING
          BY <3>1, <3>3, <4>1 DEF Store!LETTERS, Store!MISSING
        <4>3. Store!Lines(in) = 3
          BY <2>1, <2>3, <4>2 DEF Store!Lines
        <4>4. Store!Size(in) = 5
          BY <3>1, <4>1, <4>3 DEF Store!Size, Store!Header
        <4>5. QED
          BY <3>5, <4>3, <4>4
      <3>7. /\ Origin \in {-1, 0} /\ Store!Header(in) = Store!Parsed - Origin
            /\ Total = in.sent - Origin /\ Store!Size(in) = Store!Parsed + Total
        <4>1. CASE in.blank
          BY <3>1, <3>5, <3>6, <4>1, SMTT(30) DEF Origin, Total, Store!Size, Store!Header
        <4>2. CASE ~in.blank
          BY <3>1, <3>5, <3>6, <4>2 DEF Origin, Total, Store!Size, Store!Header
        <4>3. QED
          BY <4>1, <4>2
      <3>8. /\ Origin' = Origin /\ Total' = Total /\ Asked' = Asked
            /\ (Store!Parsed)' = Store!Parsed
            /\ Store!Size(m_input)' = Store!Size(m_input)
        BY <1>2 DEF Origin, Total, Asked, Store!Parsed
      <3>9. Accepted'
        <4>1. /\ m_bytes_in_buffer' \in Nat /\ m_content_length' \in Nat
              /\ m_buf_index' \in Nat /\ m_pos' \in Nat
          BY <1>2, <2>1, <2>3, <3>4, <3>5
        <4>2. m_input'.sent = m_input.sent /\ m_input' \in Store!Inputs
          BY <1>2
        <4>3. QED
          BY <3>1, <3>4, <3>5, <3>7, <3>8, <4>1, <4>2 DEF Accepted
      <3>10. Buffered(0)'
        <4>1. ASSUME NEW j \in 1 .. m_bytes_in_buffer'
              PROVE  m_buf[Store!Parsed + j] = Origin + 0 + j
          <5>1. j \in Int /\ 1 <= j /\ j <= Len(m_buf) - Store!Parsed
            BY <2>1, <2>3
          <5>2. Store!Parsed + j \in 1 .. Len(m_buf)
            BY <3>5, <5>1
          <5>3. m_buf[Store!Parsed + j] = (Store!Parsed + j) - Store!Header(in)
            BY <3>2, <5>2
          <5>4. QED
            BY <3>1, <3>5, <3>7, <5>1, <5>3
        <4>2. QED
          BY <1>2, <2>1, <2>3, <3>2, <3>5, <3>8, <4>1 DEF Buffered
      <3>11. Copying(0)'
        BY <1>2, <2>1, <2>3, <3>4, <3>5, <3>8, <3>10 DEF Copying
      <3>12. QED
        BY <1>2, <2>1, <2>3, <3>9, <3>11 DEF MemoryInv, Store!MemoryIsKept
    <2>4. QED
      BY <2>1, <2>2, <2>3
  <1>5. QED
    BY <1>3, <1>4

LEMMA StretchIsContents ==
  ASSUME NEW c \in Int, NEW n \in Nat
  PROVE  Contents(Stretch(c, n))
  BY DEF Contents

LEMMA OpenSetKeeps == MemoryInv /\ Store!OpenSet => MemoryInv'
  <1>1. SUFFICES ASSUME MemoryInv, Store!OpenSet
                 PROVE  MemoryInv'
    OBVIOUS
  <1>2. /\ m_pc = "set" /\ Contents(m_file) /\ m_file = m_before
        /\ Accepted /\ Copying(0)
        /\ UNCHANGED <<m_input, m_buf, m_pos, m_buf_index, m_bytes_in_buffer>>
        /\ UNCHANGED <<m_content_length, m_out, m_before>>
        /\ ~m_failed /\ m_failed' = m_failed
    BY <1>1 DEF MemoryInv, Store!OpenSet, Store!stdin, Store!loop
  <1>3. Accepted' /\ Copying(0)' /\ Origin' = Origin
    BY <1>2, SetStays
  <1>4. CASE m_file' = <<>> /\ m_pc' = "copy" /\ m_status' = m_status
    <2>1. m_file' = Stretch(Origin', 0)
      BY <1>4 DEF Stretch
    <2>2. Contents(m_file')
      BY <2>1, <1>3, StretchIsContents DEF Origin
    <2>3. QED
      BY <1>2, <1>3, <1>4, <2>1, <2>2 DEF MemoryInv, Store!MemoryIsKept
  <1>5. CASE Store!Exit("Invalid Command") /\ m_file' = m_file
    BY <1>2, <1>5 DEF MemoryInv, Store!MemoryIsKept, Store!Exit
  <1>6. QED
    BY <1>1, <1>4, <1>5 DEF Store!OpenSet

(* What is in the file when execute_set has come to its end.               *)
Stored ==
  LET extra == IF m_input.blank THEN 1 ELSE 0
  IN  m_file = [k \in 1 .. Store!AtMost(Store!Number(m_input.length), m_input.sent + extra) |->
                  k - extra]

LEMMA AllIsStored ==
  ASSUME Accepted, NEW len \in Nat, m_file = Stretch(Origin, len),
         len = Store!AtMost(Asked, Total)
  PROVE  Stored
  <1> DEFINE extra == IF m_input.blank THEN 1 ELSE 0
  <1>1. Origin = -extra /\ extra \in Nat
    BY DEF Origin
  <1> HIDE DEF extra
  <1>2. Total = m_input.sent + extra /\ Asked = Store!Number(m_input.length)
    BY <1>1 DEF Accepted, Asked
  <1>3. m_file = [k \in 1 .. len |-> k - extra]
    BY <1>1 DEF Stretch
  <1>4. QED
    BY <1>2, <1>3 DEF Stored, extra

LEMMA SetDoneKeeps == MemoryInv /\ Store!SetDone => MemoryInv'
  <1>1. SUFFICES ASSUME MemoryInv, Store!SetDone
                 PROVE  MemoryInv'
    OBVIOUS
  <1>2. /\ m_pc = "copy" /\ Contents(m_file) /\ Accepted /\ m_content_length = 0
        /\ m_pc' = "exit" /\ m_status' = "OK"
        /\ UNCHANGED <<m_file, m_input, m_buf, m_pos, m_buf_index, m_bytes_in_buffer>>
        /\ UNCHANGED <<m_content_length, m_out, m_before>>
    BY <1>1 DEF MemoryInv, Store!SetDone, Store!stdin, Store!loop, Store!Exit
  <1>3. PICK len \in Nat : m_file = Stretch(Origin, len) /\ Copying(len)
    BY <1>1, <1>2 DEF MemoryInv
  <1>4. len = Store!AtMost(Asked, Total)
    BY <1>2, <1>3 DEF Copying, Buffered, Store!AtMost, Accepted, Total
  <1>5. Stored
    BY <1>2, <1>3, <1>4, AllIsStored
  <1>6. Stored' /\ ~m_failed'
    BY <1>1, <1>2, <1>5 DEF Stored, MemoryInv, Store!SetDone
  <1>7. QED
    BY <1>2, <1>6 DEF MemoryInv, Store!MemoryIsKept, Stored

LEMMA OpenGetKeeps == MemoryInv /\ Store!OpenGet => MemoryInv'
  <1>1. SUFFICES ASSUME MemoryInv, Store!OpenGet
                 PROVE  MemoryInv'
    OBVIOUS
  <1>2. /\ m_pc = "get" /\ Contents(m_file) /\ m_file = m_before /\ m_out = <<>>
        /\ UNCHANGED <<m_file, m_input, m_buf, m_buf_index, m_bytes_in_buffer>>
        /\ UNCHANGED <<m_content_length, m_out, m_before>>
        /\ ~m_failed /\ m_failed' = m_failed
    BY <1>1 DEF MemoryInv, Store!OpenGet, Store!loop
  <1>3. CASE m_file # None /\ m_pc' = "print" /\ m_pos' = 0 /\ m_status' = m_status
    <2>1. m_file \in Seq(Int)
      BY <1>2, <1>3, StretchIs DEF Contents
    <2>2. SubSeq(m_file, 1, 0) = <<>>
      BY <2>1, SubSeqEmpty
    <2>3. Printed'
      BY <1>2, <1>3, <2>1, <2>2, LenProperties, EmptySeq DEF Printed, Store!InOrder
    <2>4. QED
      BY <1>2, <1>3, <2>3 DEF MemoryInv, Store!MemoryIsKept
  <1>4. CASE Store!Exit("Invalid Command") /\ m_pos' = m_pos
    BY <1>2, <1>4 DEF MemoryInv, Store!MemoryIsKept, Store!Exit
  <1>5. QED
    BY <1>1, <1>3, <1>4 DEF Store!OpenGet

(* What the loop of execute_set has in hand while it has more to do.       *)
LEMMA MoreToCopy ==
  ASSUME Accepted, NEW len \in Nat, Copying(len), m_content_length > 0
  PROVE  /\ Buffered(len) /\ len + m_content_length <= Asked
         /\ \/ /\ m_content_length = Asked - len
               /\ \/ m_bytes_in_buffer \in {0, m_content_length, BUFFER_SIZE - m_buf_index}
                  \/ m_pos = Store!Size(m_input)
            \/ /\ m_content_length = m_bytes_in_buffer
               /\ m_pos = Store!Size(m_input)
  BY DEF Accepted, Copying

LEMMA WriteChunkKeeps == MemoryInv /\ Store!WriteChunk => MemoryInv'
  <1>1. SUFFICES ASSUME MemoryInv, Store!WriteChunk
                 PROVE  MemoryInv'
    OBVIOUS
  <1>2. /\ m_pc = "copy" /\ m_content_length > 0 /\ Store!Clipped > 0
        /\ Contents(m_file) /\ Accepted /\ ~m_failed
        /\ UNCHANGED <<m_input, m_buf, m_pos, m_out, m_before>>
    BY <1>1 DEF MemoryInv, Store!WriteChunk, Store!stdin
  <1>3. PICK len \in Nat : m_file = Stretch(Origin, len) /\ Copying(len)
    BY <1>1, <1>2 DEF MemoryInv
  <1>4. /\ Buffered(len) /\ len + m_content_length <= Asked
        /\ \/ /\ m_content_length = Asked - len
              /\ \/ m_bytes_in_buffer \in {0, m_content_length, BUFFER_SIZE - m_buf_index}
                 \/ m_pos = Store!Size(m_input)
           \/ /\ m_content_length = m_bytes_in_buffer
              /\ m_pos = Store!Size(m_input)
    BY <1>2, <1>3, MoreToCopy
  <1>0. PICK part : part = Store!Clipped
    OBVIOUS
  <1>5. /\ part \in Nat /\ part > 0 /\ part <= m_bytes_in_buffer /\ part <= m_content_length
        /\ part = m_bytes_in_buffer \/ part = m_content_length
        /\ m_bytes_in_buffer \in Nat /\ m_content_length \in Nat /\ m_buf_index \in Nat
        /\ Origin \in {-1, 0} /\ Origin \in Int /\ m_buf \in Seq(Int) /\ Len(m_buf) \in Nat
        /\ BUFFER_SIZE \in Nat
        /\ m_buf_index + m_bytes_in_buffer <= Len(m_buf) /\ Len(m_buf) <= BUFFER_SIZE
    <2>1. /\ m_bytes_in_buffer \in Nat /\ m_content_length \in Nat /\ m_buf_index \in Nat
          /\ Origin \in {-1, 0} /\ Origin \in Int /\ m_buf \in Seq(Int)
          /\ m_buf_index + m_bytes_in_buffer <= Len(m_buf) /\ Len(m_buf) <= BUFFER_SIZE
      BY <1>2, <1>4 DEF Accepted, Buffered, Origin
    <2>2. Len(m_buf) \in Nat /\ BUFFER_SIZE \in Nat
      BY <2>1, LenProperties, ProgramsAssumption
    <2>3. QED
      BY <1>0, <1>2, <2>1, <2>2 DEF Store!Clipped, Store!AtMost
  <1>6. ASSUME NEW n \in 0 .. part
        PROVE  m_file \o SubSeq(m_buf, m_buf_index + 1, m_buf_index + n)
                 = Stretch(Origin, len + n)
    <2>1. n \in Nat /\ n <= m_bytes_in_buffer /\ m_buf_index + n <= Len(m_buf)
      BY <1>5
    <2>2. ASSUME NEW j \in 1 .. n
          PROVE  m_buf[m_buf_index + j] = Origin + len + j
      <3>1. j \in 1 .. m_bytes_in_buffer
        BY <1>5, <2>1
      <3>2. QED
        BY <1>4, <3>1 DEF Buffered
    <2>3. Origin \in Int /\ m_buf_index \in Nat /\ m_buf \in Seq(Int)
      BY <1>5
    <2>4. Stretch(Origin, len) \o SubSeq(m_buf, m_buf_index + 1, m_buf_index + n)
            = Stretch(Origin, len + n)
      BY <2>1, <2>2, <2>3, StretchGrows, ZenonT(60)
    <2>5. QED
      BY <1>3, <2>4
  <1>7. CASE /\ m_file' = m_file \o SubSeq(m_buf, m_buf_index + 1, m_buf_index + part)
             /\ UNCHANGED <<m_pc, m_status, m_failed>>
             /\ IF part < BUFFER_SIZE - m_buf_index
                THEN /\ m_content_length' = 0 /\ m_bytes_in_buffer' = part
                     /\ UNCHANGED m_buf_index
                ELSE /\ m_content_length' = m_content_length - part
                     /\ m_bytes_in_buffer' = 0
                     /\ m_buf_index' = m_buf_index + part
    <2>1. /\ m_buf_index' \in Nat /\ m_bytes_in_buffer' \in Nat
          /\ m_content_length' \in Nat
      BY <1>5, <1>7, SMTT(30)
    <2>2. /\ Origin' = Origin /\ Total' = Total /\ Asked' = Asked
          /\ (Store!Parsed)' = Store!Parsed /\ Store!Size(m_input)' = Store!Size(m_input)
      BY <1>2 DEF Origin, Total, Asked, Store!Parsed
    <2>3. Accepted'
      BY <1>2, <2>1, <2>2 DEF Accepted
    <2>4. /\ Asked \in Nat /\ Store!Parsed \in Nat /\ Store!Size(m_input) \in Nat
          /\ Total = Store!Size(m_input) - Store!Parsed
          /\ m_pos = Store!Parsed + len + m_bytes_in_buffer
          /\ m_pos <= Store!Size(m_input)
      BY <1>2, <1>4 DEF Accepted, Buffered, Total
    <2>5. Copying(len + part)'
      <3>1. len + part <= Asked
        BY <1>4, <1>5, <2>4
      <3>2. CASE part < BUFFER_SIZE - m_buf_index
        <4>1. len + part = Store!AtMost(Asked, Total)
          BY <1>4, <1>5, <2>4, <3>1, <3>2, SMTT(30) DEF Store!AtMost
        <4>2. QED
          BY <1>7, <2>2, <3>1, <3>2, <4>1 DEF Copying
      <3>3. CASE ~(part < BUFFER_SIZE - m_buf_index)
        <4>1. /\ part = m_bytes_in_buffer /\ part = BUFFER_SIZE - m_buf_index
              /\ m_buf_index + part <= Len(m_buf)
          BY <1>5, <3>3
        <4>2. Buffered(len + part)'
          <5>1. /\ m_pos = Store!Parsed + (len + part) + 0
                /\ m_buf_index + part + 0 <= Len(m_buf)
            BY <1>5, <2>4, <4>1
          <5>2. 1 .. m_bytes_in_buffer' = {}
            BY <1>7, <3>3
          <5>3. QED
            BY <1>2, <1>5, <1>7, <2>2, <2>4, <3>3, <5>1, <5>2 DEF Buffered
        <4>3. CASE m_content_length = Asked - len
          <5>1. m_content_length' = Asked - (len + part)
            BY <1>5, <1>7, <2>4, <3>3, <4>3
          <5>2. QED
            BY <1>7, <2>2, <3>1, <3>3, <4>2, <5>1 DEF Copying
        <4>4. CASE m_content_length = m_bytes_in_buffer /\ m_pos = Store!Size(m_input)
          <5>1. /\ m_content_length' = 0
                /\ len + part = Store!AtMost(Asked, Total)
            <6>1. m_content_length' = 0
              <7>1. m_content_length' = m_content_length - part
                BY <1>7, <3>3
              <7>2. QED
                <8>1. m_content_length = part
                  BY <4>1, <4>4
                <8>2. part \in Nat
                  BY <1>5
                <8>3. QED
                  BY <7>1, <8>1, <8>2
            <6>2. len + part = Total
              BY <2>4, <4>1, <4>4
            <6>3. QED
              BY <2>4, <3>1, <6>1, <6>2 DEF Store!AtMost
          <5>2. QED
            BY <2>2, <3>1, <5>1 DEF Copying
        <4>5. QED
          BY <1>4, <4>3, <4>4
      <3>4. QED
        BY <3>2, <3>3
    <2>6. m_file' = Stretch(Origin, len + part) /\ len + part \in Nat
      <3>1. part \in 0 .. part /\ len + part \in Nat
        BY <1>5
      <3>2. QED
        BY <1>6, <1>7, <3>1
    <2>7. Contents(m_file')
      BY <1>5, <2>6, StretchIsContents
    <2>8. QED
      BY <1>2, <1>7, <2>2, <2>3, <2>5, <2>6, <2>7 DEF MemoryInv, Store!MemoryIsKept
  <1>8. CASE /\ Store!Exit("Operation Failed")
             /\ \E n \in 0 .. (part - 1) :
                  m_file' = m_file \o SubSeq(m_buf, m_buf_index + 1, m_buf_index + n)
    <2>1. PICK n \in 0 .. (part - 1) :
                 m_file' = m_file \o SubSeq(m_buf, m_buf_index + 1, m_buf_index + n)
      BY <1>8
    <2>2. n \in 0 .. part /\ len + n \in Nat
      BY <1>5
    <2>3. Contents(m_file')
      BY <1>5, <1>6, <2>1, <2>2, StretchIsContents
    <2>4. QED
      BY <1>8, <2>3 DEF MemoryInv, Store!MemoryIsKept, Store!Exit
  <1>9. QED
    BY <1>0, <1>1, <1>7, <1>8 DEF Store!WriteChunk

LEMMA ReadChunkKeeps == MemoryInv /\ Store!ReadChunk => MemoryInv'
  <1>1. SUFFICES ASSUME MemoryInv, Store!ReadChunk
                 PROVE  MemoryInv'
    OBVIOUS
  <1>2. /\ m_pc = "copy" /\ m_content_length > 0 /\ m_bytes_in_buffer = 0
        /\ Contents(m_file) /\ Accepted
        /\ UNCHANGED <<m_file, m_input, m_out, m_before>>
        /\ ~m_failed /\ m_failed' = m_failed
    BY <1>1 DEF MemoryInv, Store!ReadChunk
  <1>3. PICK len \in Nat : m_file = Stretch(Origin, len) /\ Copying(len)
    BY <1>1, <1>2 DEF MemoryInv
  <1>4. /\ Buffered(len) /\ m_content_length = Asked - len
        /\ Asked \in Nat /\ Store!Parsed \in Nat /\ Store!Size(m_input) \in Nat
        /\ Total = Store!Size(m_input) - Store!Parsed
        /\ Origin \in {-1, 0} /\ Total = m_input.sent - Origin /\ m_input.sent \in Nat
        /\ m_pos = Store!Parsed + len /\ m_pos \in Nat /\ m_pos <= Store!Size(m_input)
        /\ m_buf \in Seq(Int) /\ Len(m_buf) <= BUFFER_SIZE /\ m_content_length \in Nat
    <2>1. /\ Buffered(len) /\ m_content_length = Asked - len
      BY <1>2, <1>3, MoreToCopy
    <2>2. QED
      BY <1>2, <2>1 DEF Accepted, Buffered, Total, Origin
  <1>5. Store!Header(m_input) = Store!Parsed - Origin
    <2>1. Store!Lines(m_input) \in 1 .. 3
      BY <1>2, InputIs DEF Accepted
    <2>2. QED
      BY <2>1 DEF Store!Header, Store!Parsed, Origin
  <1>6. PICK amount : amount = Store!AtMost(m_content_length, BUFFER_SIZE)
    OBVIOUS
  <1>7. PICK read : read = Store!Bytes(m_input, m_pos, amount)
    OBVIOUS
  <1>8. BUFFER_SIZE \in Nat /\ Len(m_buf) \in Nat
    BY <1>4, ProgramsAssumption, LenProperties
  <1>9. /\ amount \in Nat /\ amount > 0 /\ amount <= m_content_length /\ amount <= BUFFER_SIZE
        /\ amount = m_content_length \/ amount = BUFFER_SIZE
    BY <1>2, <1>4, <1>6, <1>8, ProgramsAssumption DEF Store!AtMost
  <1>10. /\ read \in Seq(Int) /\ Len(read) \in Nat
         /\ Len(read) = Store!AtMost(amount, Store!Size(m_input) - m_pos)
         /\ \A k \in 1 .. Len(read) : read[k] = m_pos + k - Store!Header(m_input)
    BY <1>2, <1>4, <1>7, <1>9, BytesAre, LenProperties, SMTT(30) DEF Accepted
  <1>11. /\ Origin' = Origin /\ Total' = Total /\ Asked' = Asked
         /\ (Store!Parsed)' = Store!Parsed /\ Store!Size(m_input)' = Store!Size(m_input)
    BY <1>2 DEF Origin, Total, Asked, Store!Parsed
  <1>12. CASE /\ read # <<>>
              /\ m_buf' = read \o SubSeq(m_buf, Len(read) + 1, Len(m_buf))
              /\ m_pos' = m_pos + Len(read)
              /\ m_bytes_in_buffer' = Len(read) /\ m_buf_index' = 0
              /\ m_content_length' = IF Len(read) < amount THEN Len(read)
                                     ELSE m_content_length
              /\ UNCHANGED <<m_pc, m_status>>
    <2>1. Len(read) <= amount /\ m_pos + Len(read) <= Store!Size(m_input)
      BY <1>4, <1>9, <1>10 DEF Store!AtMost
    <2>2. Accepted'
      <3>1. /\ m_bytes_in_buffer' \in Nat /\ m_content_length' \in Nat
            /\ m_buf_index' \in Nat /\ m_pos' \in Nat
        <4>1. m_content_length' \in {Len(read), m_content_length}
          BY <1>12
        <4>2. m_pos + Len(read) \in Nat
          BY <1>4, <1>10
        <4>3. QED
          BY <1>4, <1>10, <1>12, <4>1, <4>2
      <3>2. QED
        BY <1>2, <1>11, <3>1 DEF Accepted
    <2>3. Buffered(len)'
      <3>1. /\ m_buf' \in Seq(Int) /\ Len(m_buf') <= BUFFER_SIZE
            /\ Len(read) <= Len(m_buf')
            /\ \A k \in 1 .. Len(read) : m_buf'[k] = read[k]
        <4> DEFINE rest == SubSeq(m_buf, Len(read) + 1, Len(m_buf))
        <4>1. /\ rest \in Seq(Int)
              /\ Len(rest) = IF Len(read) < Len(m_buf) THEN Len(m_buf) - Len(read) ELSE 0
          <5>1. \A i \in (Len(read) + 1) .. Len(m_buf) : m_buf[i] \in Int
            BY <1>4, <1>8, <1>10, ElementOfSeq
          <5>2. Len(read) + 1 \in Int /\ Len(m_buf) \in Int
            BY <1>8, <1>10
          <5>3. /\ rest \in Seq(Int)
                /\ Len(rest) = IF Len(read) + 1 <= Len(m_buf)
                               THEN Len(m_buf) - (Len(read) + 1) + 1 ELSE 0
            BY <5>1, <5>2, SubSeqProperties
          <5> HIDE DEF rest
          <5>4. QED
            BY <1>8, <1>10, <5>3
        <4> HIDE DEF rest
        <4>2. /\ read \o rest \in Seq(Int) /\ Len(read \o rest) = Len(read) + Len(rest)
              /\ \A i \in 1 .. Len(read) + Len(rest) :
                   (read \o rest)[i] = IF i <= Len(read) THEN read[i] ELSE rest[i - Len(read)]
          BY <1>10, <4>1, ConcatProperties
        <4>3. m_buf' = read \o rest
          BY <1>12 DEF rest
        <4>4. Len(rest) \in Nat /\ Len(read) + Len(rest) <= BUFFER_SIZE
          BY <1>4, <1>8, <1>9, <1>10, <2>1, <4>1
        <4>5. \A k \in 1 .. Len(read) : (read \o rest)[k] = read[k]
          BY <1>10, <4>2, <4>4
        <4>6. QED
          BY <1>10, <4>2, <4>3, <4>4, <4>5
      <3>2. ASSUME NEW j \in 1 .. Len(read)
            PROVE  m_buf'[0 + j] = Origin + len + j
        <4>1. 0 + j = j /\ m_buf'[j] = m_pos + j - Store!Header(m_input)
          BY <1>10, <3>1
        <4>2. QED
          BY <1>4, <1>5, <4>1
      <3>3. /\ m_pos' = Store!Parsed + len + Len(read)
            /\ 0 + Len(read) <= Len(m_buf')
        BY <1>4, <1>10, <1>12, <3>1
      <3>4. QED
        BY <1>11, <1>12, <2>1, <3>1, <3>2, <3>3 DEF Buffered
    <2>4. Copying(len)'
      <3>1. len <= Asked
        BY <1>3 DEF Copying
      <3>2. CASE Len(read) < amount
        <4>1. m_pos + Len(read) = Store!Size(m_input) /\ len + Len(read) <= Asked
          BY <1>4, <1>9, <1>10, <3>2, SMTT(30) DEF Store!AtMost
        <4>2. QED
          BY <1>11, <1>12, <2>3, <3>1, <3>2, <4>1 DEF Copying
      <3>3. CASE ~(Len(read) < amount)
        <4>1. Len(read) = amount /\ (amount = m_content_length \/ amount = BUFFER_SIZE - 0)
          BY <1>8, <1>9, <1>10, <2>1, <3>3
        <4>2. QED
          BY <1>4, <1>11, <1>12, <2>3, <3>1, <3>3, <4>1 DEF Copying
      <3>4. QED
        BY <3>2, <3>3
    <2>5. QED
      BY <1>2, <1>3, <1>11, <1>12, <2>2, <2>4 DEF MemoryInv, Store!MemoryIsKept
  <1>13. CASE read = <<>> /\ Store!Exit("OK") /\ UNCHANGED <<m_buf, m_pos, Store!loop>>
    <2>1. Store!Size(m_input) = m_pos
      BY <1>4, <1>9, <1>10, <1>13, EmptySeq DEF Store!AtMost
    <2>2. len = Store!AtMost(Asked, Total)
      BY <1>2, <1>4, <2>1 DEF Store!AtMost
    <2>3. Stored
      BY <1>2, <1>3, <2>2, AllIsStored
    <2>4. Stored'
      BY <1>2, <2>3 DEF Stored
    <2>5. QED
      BY <1>2, <1>13, <2>4 DEF MemoryInv, Store!MemoryIsKept, Store!Exit, Stored
  <1>14. CASE Store!Exit("Operation Failed") /\ UNCHANGED <<m_buf, m_pos, Store!loop>>
    BY <1>2, <1>14 DEF MemoryInv, Store!MemoryIsKept, Store!Exit
  <1>15. QED
    BY <1>1, <1>6, <1>7, <1>12, <1>13, <1>14 DEF Store!ReadChunk

LEMMA PrintChunkKeeps == MemoryInv /\ Store!PrintChunk => MemoryInv'
  <1>1. SUFFICES ASSUME MemoryInv, Store!PrintChunk
                 PROVE  MemoryInv'
    OBVIOUS
  <1>2. /\ m_pc = "print" /\ Contents(m_file) /\ m_file = m_before /\ m_file # None
        /\ Printed
        /\ UNCHANGED <<m_file, m_input, m_buf, m_before>>
    BY <1>1 DEF MemoryInv, Store!PrintChunk
  <1>3. PICK c \in Int, n \in Nat : m_file = Stretch(c, n)
    BY <1>2 DEF Contents
  <1>4. /\ m_file \in Seq(Int) /\ Len(m_file) = n
        /\ \A k \in 1 .. n : m_file[k] = c + k
    BY <1>3, StretchIs
  <1>5. PICK end : end = Store!AtMost(m_pos + BUFFER_SIZE, Len(m_file))
    OBVIOUS
  <1>6. PICK read : read = SubSeq(m_file, m_pos + 1, end)
    OBVIOUS
  <1>7. /\ m_pos \in Nat /\ m_pos <= n /\ end \in Nat /\ m_pos <= end /\ end <= n
        /\ m_pos = end => m_pos = n
    BY <1>2, <1>4, <1>5, ProgramsAssumption DEF Printed, Store!AtMost
  <1>8. /\ read \in Seq(Int) /\ Len(read) = end - m_pos
        /\ \A i \in 1 .. (end - m_pos) : read[i] = m_file[m_pos + i]
    <2>1. \A i \in (m_pos + 1) .. end : m_file[i] \in Int
      BY <1>4, <1>7
    <2>2. m_pos + 1 \in Int /\ end \in Int
      BY <1>7
    <2>3. /\ read \in Seq(Int)
          /\ Len(read) = IF m_pos + 1 <= end THEN end - (m_pos + 1) + 1 ELSE 0
          /\ \A i \in 1 .. end - (m_pos + 1) + 1 : read[i] = m_file[(m_pos + 1) + i - 1]
      BY <1>6, <2>1, <2>2, SubSeqProperties
    <2>4. QED
      BY <1>7, <2>3
  <1>9. /\ m_out \in Seq(Int) /\ Store!InOrder(m_out)
        /\ \A j \in DOMAIN m_out : \E k \in 1 .. m_pos : m_out[j] = m_file[k]
        /\ ~m_failed => m_out = SubSeq(m_file, 1, m_pos)
        /\ Len(m_out) \in Nat /\ DOMAIN m_out = 1 .. Len(m_out)
    BY <1>2, LenProperties DEF Printed
  <1> DEFINE a == Len(m_out)
             r == end - m_pos
  <1>91. /\ a \in Nat /\ r \in Nat /\ DOMAIN m_out = 1 .. a
        /\ end = m_pos + r /\ m_pos + r <= n /\ Len(read) = r
    <2>1. a \in Nat /\ DOMAIN m_out = 1 .. a /\ Len(read) = r
      BY <1>8, <1>9
    <2>2. m_pos \in Nat /\ end \in Nat /\ m_pos <= end /\ end <= n
      BY <1>7
    <2> HIDE DEF a
    <2>3. r \in Nat /\ end = m_pos + r /\ m_pos + r <= n
      BY <2>2
    <2>4. QED
      BY <2>1, <2>3
  <1>10. ASSUME NEW w \in 0 .. r, m_out' = m_out \o SubSeq(read, 1, w),
                m_pos' = m_pos + Len(read), ~m_failed' => ~m_failed /\ w = r,
                UNCHANGED <<m_pc, m_status>>
         PROVE  MemoryInv'
    <2> DEFINE part == SubSeq(read, 1, w)
               new == m_out \o part
    <2>0. /\ part \in Seq(Int) /\ Len(part) = w
          /\ \A i \in 1 .. w : part[i] = read[i]
      <3> HIDE DEF r
      <3>1. w \in Nat /\ w <= Len(read) /\ Len(read) \in Nat
        BY <1>10, <1>91
      <3>2. \A i \in 1 .. w : read[i] \in Int
        BY <1>8, <3>1, ElementOfSeq
      <3>3. /\ part \in Seq(Int)
            /\ Len(part) = IF 1 <= w THEN w - 1 + 1 ELSE 0
            /\ \A i \in 1 .. w - 1 + 1 : part[i] = read[1 + i - 1]
        BY <3>1, <3>2, SubSeqProperties
      <3> HIDE DEF part
      <3>4. QED
        BY <3>1, <3>3
    <2>00. ~m_failed' => part = read
      BY <1>8, <1>91, <1>10, SubSeqFull
    <2> HIDE DEF part
    <2>1. /\ new \in Seq(Int) /\ DOMAIN new = 1 .. (a + w)
          /\ \A i \in 1 .. (a + w) :
               new[i] = IF i <= a THEN m_out[i] ELSE part[i - a]
      <3>1. /\ new \in Seq(Int) /\ Len(new) = a + Len(part)
            /\ \A i \in 1 .. a + Len(part) :
                 new[i] = IF i <= a THEN m_out[i] ELSE part[i - a]
        BY <2>0, <1>9, ConcatProperties, ZenonT(60)
      <3> HIDE DEF new, a, r
      <3>2. QED
        BY <2>0, <1>91, <3>1, LenProperties
    <2> HIDE DEF new, a, r
    <2>01. w \in Nat /\ w <= r
      BY <1>10, <1>91
    <2>2. ASSUME NEW i \in DOMAIN new
          PROVE  \/ /\ i \in DOMAIN m_out /\ new[i] = m_out[i]
                    /\ \E k \in 1 .. m_pos : new[i] = c + k
                 \/ /\ ~(i <= a) /\ i \in Int
                    /\ new[i] = c + (m_pos + (i - a))
                    /\ i - a \in 1 .. r
      <3>1. CASE i <= a
        <4>1. i \in DOMAIN m_out /\ new[i] = m_out[i]
          BY <1>91, <2>1, <3>1
        <4>2. PICK k \in 1 .. m_pos : m_out[i] = m_file[k]
          BY <1>9, <4>1
        <4>3. k \in 1 .. n
          BY <1>7
        <4>4. QED
          BY <1>4, <4>1, <4>2, <4>3
      <3>2. CASE ~(i <= a)
        <4>1. i \in Int /\ i - a \in 1 .. w /\ i - a \in 1 .. r
          BY <1>91, <2>01, <2>1, <3>2
        <4>2. new[i] = m_file[m_pos + (i - a)]
          <5>1. new[i] = read[i - a]
            BY <2>0, <2>1, <3>2, <4>1
          <5>2. QED
            BY <1>8, <4>1, <5>1 DEF r
        <4>3. m_pos + (i - a) \in 1 .. n
          BY <1>7, <1>91, <4>1
        <4>4. QED
          BY <1>4, <3>2, <4>1, <4>2, <4>3
      <3>3. QED
        BY <3>1, <3>2
    <2>3. Store!InOrder(new)
      <3>1. SUFFICES ASSUME NEW j \in DOMAIN new, NEW k \in DOMAIN new, j < k
                     PROVE  new[j] < new[k]
        BY DEF Store!InOrder
      <3>2. j \in Int /\ k \in Int
        BY <1>91, <2>1
      <3>3. CASE k <= a
        <4>1. j <= a
          BY <1>91, <3>1, <3>2, <3>3
        <4>2. /\ j \in DOMAIN m_out /\ new[j] = m_out[j]
              /\ k \in DOMAIN m_out /\ new[k] = m_out[k]
          BY <2>2, <3>3, <4>1
        <4>3. QED
          BY <1>9, <3>1, <4>2 DEF Store!InOrder
      <3>4. CASE ~(k <= a)
        <4>1. new[k] = c + (m_pos + (k - a)) /\ k - a > 0
          <5>1. new[k] = c + (m_pos + (k - a)) /\ k - a \in 1 .. r
            <6>1. k \notin DOMAIN m_out
              BY <1>91, <3>4
            <6>2. QED
              BY <2>2, <6>1
          <5>2. QED
            BY <1>91, <5>1
        <4>2. CASE j <= a
          <5>1. PICK i \in 1 .. m_pos : new[j] = c + i
            BY <2>2, <4>2
          <5>2. k - a \in Int /\ i \in Int
            BY <1>91, <3>2
          <5>3. QED
            BY <1>7, <4>1, <5>1, <5>2
        <4>3. CASE ~(j <= a)
          <5>1. new[j] = c + (m_pos + (j - a))
            <6>1. j \notin DOMAIN m_out
              BY <1>91, <4>3
            <6>2. QED
              BY <2>2, <6>1
          <5>2. QED
            BY <1>7, <1>91, <3>1, <3>2, <4>1, <5>1
        <4>4. QED
          BY <4>2, <4>3
      <3>5. QED
        BY <3>3, <3>4
    <2>4. m_pos' = end /\ m_pos' \in 0 .. Len(m_file)
      BY <1>4, <1>7, <1>91, <1>10
    <2>5. ASSUME NEW j \in DOMAIN new
          PROVE  \E k \in 1 .. end : new[j] = m_file[k]
      <3>1. \E k \in 1 .. end : new[j] = c + k
        <4>1. CASE \E k \in 1 .. m_pos : new[j] = c + k
          <5>1. PICK k \in 1 .. m_pos : new[j] = c + k
            BY <4>1
          <5>2. k \in 1 .. end
            BY <1>7
          <5>3. QED
            BY <5>1, <5>2
        <4>2. CASE /\ new[j] = c + (m_pos + (j - a))
                   /\ j - a \in 1 .. r
          <5>1. m_pos + (j - a) \in 1 .. end
            BY <1>7, <1>91, <4>2
          <5>2. QED
            BY <4>2, <5>1
        <4>3. QED
          BY <2>2, <4>1, <4>2
      <3>2. \A k \in 1 .. end : m_file[k] = c + k
        BY <1>4, <1>7
      <3>3. QED
        BY <3>1, <3>2
    <2>6. ASSUME ~m_failed' PROVE new = SubSeq(m_file, 1, end)
      <3>1. m_out = SubSeq(m_file, 1, m_pos) /\ part = read
        BY <1>9, <1>10, <2>00, <2>6
      <3>2. /\ 1 \in 1 .. Len(m_file) + 1 /\ m_pos \in (1 - 1) .. Len(m_file)
            /\ end \in m_pos .. Len(m_file)
        BY <1>4, <1>7
      <3>3. SubSeq(m_file, 1, m_pos) \o SubSeq(m_file, m_pos + 1, end)
              = SubSeq(m_file, 1, end)
        BY <1>4, <3>2, ConcatAdjacentSubSeq
      <3>4. QED
        BY <1>6, <3>1, <3>3 DEF new
    <2>7. Printed'
      <3>1. m_out' = new
        BY <1>10 DEF new, part
      <3>2. QED
        BY <1>2, <1>4, <2>1, <2>3, <2>4, <2>5, <2>6, <3>1 DEF Printed, Store!InOrder
    <2>8. QED
      BY <1>2, <1>10, <2>7 DEF MemoryInv, Store!MemoryIsKept
  <1>11. ASSUME m_out' = m_out \o read, m_pos' = m_pos + Len(read),
                UNCHANGED <<m_pc, m_status, m_failed>>
         PROVE  MemoryInv'
    <2>1. r \in 0 .. r /\ m_out' = m_out \o SubSeq(read, 1, r)
      BY <1>8, <1>91, <1>11, SubSeqFull
    <2> HIDE DEF r
    <2>2. QED
      BY <1>10, <1>11, <2>1
  <1>111. ASSUME NEW w \in 0 .. (Len(read) - 1), m_out' = m_out \o SubSeq(read, 1, w),
                 m_pos' = m_pos + Len(read), m_failed' = TRUE, UNCHANGED <<m_pc, m_status>>
          PROVE  MemoryInv'
    <2> HIDE DEF r
    <2>1. w \in 0 .. r
      BY <1>91, <1>111
    <2>2. QED
      BY <1>10, <1>111, <2>1
  <1>12. CASE read = <<>> /\ Store!Exit("done") /\ UNCHANGED <<m_out, m_pos, m_failed>>
    <2>1. m_pos = n
      BY <1>7, <1>8, <1>12, EmptySeq
    <2>2. Store!ToSet(m_out) \subseteq Store!ToSet(m_before)
      <3>1. DOMAIN m_file = 1 .. n
        BY <1>4, LenProperties
      <3>2. QED
        BY <1>2, <1>9, <2>1, <3>1 DEF Store!ToSet
    <2>3. ~m_failed => m_out = m_before
      BY <1>2, <1>4, <1>9, <2>1, SubSeqFull
    <2>4. /\ Store!InOrder(m_out') /\ Store!ToSet(m_out') \subseteq Store!ToSet(m_before')
          /\ ~m_failed' => m_out' = m_before'
      BY <1>2, <1>9, <1>12, <2>2, <2>3
    <2>5. QED
      BY <1>2, <1>12, <2>4 DEF MemoryInv, Store!MemoryIsKept, Store!Exit
  <1>13. CASE Store!Exit("Operation Failed") /\ UNCHANGED <<m_out, m_pos, m_failed>>
    BY <1>2, <1>13 DEF MemoryInv, Store!MemoryIsKept, Store!Exit
  <1>14. QED
    BY <1>1, <1>5, <1>6, <1>11, <1>111, <1>12, <1>13 DEF Store!PrintChunk

LEMMA MemoryKeeps == MemoryInv /\ [Next]_vars => MemoryInv'
  <1>1. MemoryInv /\ Store!Next => MemoryInv'
    BY RunKeeps, AgainKeeps, ParseKeeps, OpenSetKeeps, WriteChunkKeeps, ReadChunkKeeps,
       SetDoneKeeps, OpenGetKeeps, PrintChunkKeeps DEF Store!Next
  <1>2. QED
    BY <1>1, MemoryStays DEF Next, vars

(* For every size of the buffer that holds the command's line and more,    *)
(* every input of the model and every way in which read, write and open    *)
(* fail: what memory.c's set stores is what was sent, from the first byte  *)
(* on and as long as announced, across every boundary of the buffer, one   *)
(* byte of the header before it if the header has an empty line; get       *)
(* prints all of it when no write fails, and some of its bytes in order    *)
(* when one does; and what is refused changes nothing.                     *)
THEOREM MemoryIsRight == Spec => []MemoryIsKept
  <1>1. Init => MemoryInv
    BY MemoryInit DEF Init
  <1>2. MemoryInv => MemoryIsKept
    BY DEF MemoryInv, MemoryIsKept
  <1>3. QED
    BY <1>1, <1>2, MemoryKeeps, PTL DEF Spec

-----------------------------------------------------------------------------
(* The sorter                                                              *)
LineSet == [rank : Nat, ended : BOOLEAN]

\* The lines that the program reserves room for: one in an empty file.
Room == IF x_input = <<>> THEN 1 ELSE Len(x_input)

\* The list holds the indices of the lines read so far, in the order of the lines.
Sorted ==
  /\ x_L \in Seq(Nat) /\ Len(x_L) = x_k
  /\ Sorter!ToSet(x_L) = 0 .. (x_k - 1)
  /\ \A m, n \in DOMAIN x_L : m < n =>
       /\ ~Sorter!After(x_arr[x_L[m]], x_arr[x_L[n]])
       /\ x_arr[x_L[m]] = x_arr[x_L[n]] => x_L[m] < x_L[n]

\* The lines in the order of the list.
Ordered == [m \in 1 .. x_k |-> x_arr[x_L[m]]]

\* The first p lines of l, each by itself.
Wholes(l, p) == [m \in 1 .. p |-> Sorter!Whole(l[m])]

\* The output o when those have been written.
Written(l, p, o) ==
  /\ (\A q \in 1 .. (p - 1) : l[q].ended) => o = Wholes(l, p)
  /\ \A q \in 1 .. (p - 1) : ~l[q].ended => o = Sorter!Glued(Wholes(l, p), q)

LexInv ==
  /\ x_pc \in {"start", "count", "read", "next", "insert", "write", "done", "failed"}
  /\ x_input \in Seq(LineSet)
  /\ \A m \in 1 .. (Len(x_input) - 1) : x_input[m].ended
  /\ x_pc \in {"read", "next", "insert", "write", "done"} => x_lineCount = Room
  /\ x_pc \in {"start", "count", "read", "next", "insert"} => x_out = <<>>
  /\ x_pc \in {"next", "insert", "write", "done"} =>
       /\ x_arr = [m \in 0 .. (x_lineCount - 1) |->
                     IF m < Len(x_input) THEN x_input[m + 1] ELSE Sorter!Indeterminate]
       /\ x_k \in 1 .. x_lineCount
       /\ Sorted
  /\ x_pc = "insert" =>
       /\ x_k < x_lineCount /\ x_j \in -1 .. (x_k - 1)
       /\ \A m \in DOMAIN x_L : m > x_j + 1 =>
            Sorter!After(x_arr[x_L[m]], x_arr[x_k])
  /\ x_pc \in {"write", "done"} => x_k = x_lineCount
  /\ x_pc = "write" =>
       /\ x_j \in -1 .. (x_k - 1)
       /\ x_input # <<>> =>
            Written(Ordered, IF x_j >= 0 THEN x_j ELSE x_k, x_out)
  /\ x_pc = "done" /\ x_input # <<>> => Written(Ordered, x_k, x_out)

LEMMA LexCardinality ==
  ASSUME NEW S
  PROVE  Sorter!Cardinality(S) = Cardinality(S)
  BY DEF Sorter!Cardinality, Cardinality

LEMMA LexInit == Sorter!Init => LexInv
  BY EmptySeq DEF Sorter!Init, LexInv

LEMMA LexStays == LexInv /\ UNCHANGED lexVars => LexInv'
  <1>1. SUFFICES ASSUME LexInv, UNCHANGED lexVars
                 PROVE  LexInv'
    OBVIOUS
  <1>2. UNCHANGED <<x_input, x_lineCount, x_arr, x_L, x_j, x_k, x_out, x_pc>>
    BY <1>1 DEF lexVars
  <1>3. Sorted' = Sorted /\ Room' = Room /\ Ordered' = Ordered
    BY <1>2 DEF Sorted, Room, Ordered
  <1>4. QED
    BY <1>1, <1>2, <1>3 DEF LexInv

LEMMA OpenKeeps == LexInv /\ Sorter!Open => LexInv'
  <1>1. SUFFICES ASSUME LexInv, Sorter!Open
                 PROVE  LexInv'
    OBVIOUS
  <1>0. PICK n \in 0 .. MaxLines, ended \in BOOLEAN :
               \E ranks \in [1 .. n -> Ranks] :
                 x_input' = [m \in 1 .. n |-> Sorter!Line(ranks[m], m < n \/ ended)]
    BY <1>1 DEF Sorter!Open
  <1>2. PICK ranks \in [1 .. n -> Ranks] :
               x_input' = [m \in 1 .. n |-> Sorter!Line(ranks[m], m < n \/ ended)]
    BY <1>0
  <1>3. n \in Nat /\ x_input' \in [1 .. n -> LineSet]
    <2>1. n \in Nat
      BY <1>0, ProgramsAssumption
    <2>2. ASSUME NEW m \in 1 .. n
          PROVE  Sorter!Line(ranks[m], m < n \/ ended) \in LineSet
      <3>1. ranks[m] \in Nat
        BY <1>2, ProgramsAssumption
      <3>2. (m < n \/ ended) \in BOOLEAN
        BY Zenon
      <3>3. QED
        BY <3>1, <3>2, Zenon DEF Sorter!Line, LineSet
    <2>3. QED
      BY <1>2, <2>1, <2>2
  <1>4. x_input' \in Seq(LineSet) /\ Len(x_input') = n
    BY <1>3, FunIsSeq
  <1>5. ASSUME NEW m \in 1 .. (n - 1) PROVE x_input'[m].ended
    <2>1. m \in 1 .. n /\ m < n
      BY <1>3
    <2>2. QED
      BY <1>2, <2>1 DEF Sorter!Line
  <1>6. x_pc' = "count" /\ x_out' = <<>>
    BY <1>1 DEF Sorter!Open, LexInv
  <1>7. QED
    BY <1>4, <1>5, <1>6 DEF LexInv

LEMMA OpenFailsKeeps == LexInv /\ Sorter!OpenFails => LexInv'
  BY DEF LexInv, Sorter!OpenFails

LEMMA CountLinesKeeps == LexInv /\ Sorter!CountLines => LexInv'
  <1>1. SUFFICES ASSUME LexInv, Sorter!CountLines
                 PROVE  LexInv'
    OBVIOUS
  <1> DEFINE n == Len(x_input)
             ended == {m \in DOMAIN x_input : x_input[m].ended}
  <1>2. /\ x_input \in Seq(LineSet) /\ n \in Nat /\ DOMAIN x_input = 1 .. n
        /\ \A m \in 1 .. (n - 1) : x_input[m].ended
        /\ x_input = <<>> <=> n = 0
    BY <1>1, LenProperties, EmptySeq DEF LexInv
  <1>21. x_out' = <<>>
    BY <1>1 DEF LexInv, Sorter!CountLines
  <1>3. /\ x_pc' = "read" /\ UNCHANGED x_input
        /\ x_lineCount' = Cardinality(ended)
             + (IF x_input # <<>> /\ x_input[n].ended THEN 0 ELSE 1)
    BY <1>1, LexCardinality DEF Sorter!CountLines, Sorter!Last
  <1> HIDE DEF n
  <1>4. CASE n = 0
    <2>1. ended = {} /\ x_input = <<>>
      BY <1>2, <1>4
    <2>2. x_lineCount' = 1
      BY <1>3, <2>1, FS_EmptySet
    <2>3. QED
      BY <1>1, <1>21, <1>3, <2>1, <2>2 DEF LexInv, Room
  <1>5. CASE n > 0 /\ x_input[n].ended
    <2>1. ended = 1 .. n
      BY <1>2, <1>5
    <2>2. Cardinality(1 .. n) = n
      BY <1>2, <1>5, FS_Interval
    <2>3. x_lineCount' = n
      <3>1. Cardinality(ended) = n
        BY <2>1, <2>2
      <3>2. x_input # <<>>
        BY <1>2, <1>5
      <3> HIDE DEF ended
      <3>3. QED
        BY <1>2, <1>3, <1>5, <3>1, <3>2
    <2>4. QED
      BY <1>1, <1>2, <1>21, <1>3, <1>5, <2>3 DEF LexInv, Room, n
  <1>6. CASE n > 0 /\ ~x_input[n].ended
    <2>1. ended = 1 .. (n - 1)
      BY <1>2, <1>6
    <2>2. Cardinality(1 .. (n - 1)) = n - 1
      BY <1>2, <1>6, FS_Interval
    <2>3. x_lineCount' = n
      <3>1. Cardinality(ended) = n - 1
        BY <2>1, <2>2
      <3>2. x_input # <<>>
        BY <1>2, <1>6
      <3> HIDE DEF ended
      <3>3. QED
        BY <1>2, <1>3, <1>6, <3>1, <3>2
    <2>4. QED
      BY <1>1, <1>2, <1>21, <1>3, <1>6, <2>3 DEF LexInv, Room, n
  <1>7. QED
    BY <1>2, <1>4, <1>5, <1>6

LEMMA ReadLinesKeeps == LexInv /\ Sorter!ReadLines => LexInv'
  <1>1. SUFFICES ASSUME LexInv, Sorter!ReadLines
                 PROVE  LexInv'
    OBVIOUS
  <1>2. /\ x_pc = "read" /\ x_input \in Seq(LineSet) /\ x_lineCount = Room
        /\ x_pc' = "next" /\ UNCHANGED <<x_input, x_lineCount>>
        /\ x_arr' = [m \in 0 .. (x_lineCount - 1) |->
                       IF m < Len(x_input) THEN x_input[m + 1] ELSE Sorter!Indeterminate]
        /\ x_L' = <<0>> /\ x_k' = 1 /\ x_out' = <<>>
    BY <1>1 DEF LexInv, Sorter!ReadLines
  <1>3. x_lineCount \in Nat /\ x_lineCount >= 1
    BY <1>2, LenProperties, EmptySeq DEF Room
  <1>4. Sorted'
    <2>1. /\ <<0>> \in Seq(Nat) /\ Len(<<0>>) = 1 /\ DOMAIN <<0>> = {1} /\ <<0>>[1] = 0
      OBVIOUS
    <2>2. Sorter!ToSet(<<0>>) = 0 .. (1 - 1)
      BY <2>1 DEF Sorter!ToSet
    <2>3. QED
      BY <1>2, <2>1, <2>2 DEF Sorted
  <1>5. QED
    BY <1>1, <1>2, <1>3, <1>4 DEF LexInv, Room

LEMMA MoveBackKeeps == LexInv /\ Sorter!MoveBack => LexInv'
  <1>1. SUFFICES ASSUME LexInv, Sorter!MoveBack
                 PROVE  LexInv'
    OBVIOUS
  <1>2. /\ x_pc = "next" /\ x_k < x_lineCount /\ x_pc' = "insert" /\ x_j' = Len(x_L) - 1
        /\ UNCHANGED <<x_input, x_lineCount, x_arr, x_L, x_k, x_out>>
    BY <1>1 DEF Sorter!MoveBack
  <1>3. /\ Sorted /\ Len(x_L) = x_k /\ x_k \in Int /\ x_k >= 1
        /\ DOMAIN x_L = 1 .. x_k
    BY <1>1, <1>2, LenProperties DEF LexInv, Sorted
  <1>4. Sorted' /\ Room' = Room
    BY <1>2, <1>3 DEF Sorted, Room
  <1>5. x_j' \in -1 .. (x_k - 1) /\ \A m \in DOMAIN x_L : ~(m > x_j' + 1)
    BY <1>2, <1>3
  <1>6. QED
    BY <1>1, <1>2, <1>4, <1>5 DEF LexInv

LEMMA MovePrevKeeps == LexInv /\ Sorter!MovePrev => LexInv'
  <1>1. SUFFICES ASSUME LexInv, Sorter!MovePrev
                 PROVE  LexInv'
    OBVIOUS
  <1>2. /\ x_pc = "insert" /\ x_j >= 0 /\ x_j' = x_j - 1
        /\ Sorter!After(x_arr[x_L[x_j + 1]], x_arr[x_k])
        /\ UNCHANGED <<x_input, x_lineCount, x_arr, x_L, x_k, x_out, x_pc>>
    BY <1>1 DEF Sorter!MovePrev, Sorter!Passes
  <1>3. /\ Sorted /\ x_j \in -1 .. (x_k - 1) /\ x_k \in Int /\ DOMAIN x_L = 1 .. x_k
        /\ \A m \in DOMAIN x_L : m > x_j + 1 => Sorter!After(x_arr[x_L[m]], x_arr[x_k])
    BY <1>1, <1>2, LenProperties DEF LexInv, Sorted
  <1>4. Sorted' /\ Room' = Room
    BY <1>2, <1>3 DEF Sorted, Room
  <1>5. ASSUME NEW m \in DOMAIN x_L, m > x_j' + 1
        PROVE  Sorter!After(x_arr[x_L[m]], x_arr[x_k])
    <2>1. m = x_j + 1 \/ m > x_j + 1
      BY <1>2, <1>3, <1>5
    <2>2. QED
      BY <1>2, <1>3, <2>1
  <1>6. x_j' \in -1 .. (x_k - 1)
    BY <1>2, <1>3
  <1>7. QED
    BY <1>1, <1>2, <1>4, <1>5, <1>6 DEF LexInv

(* strcmp orders the lines: it is false of a line and itself, and what is  *)
(* not after a line is not after one that is not before that line.         *)
LEMMA AfterOrders ==
  ASSUME NEW a \in LineSet, NEW b \in LineSet, NEW c \in LineSet
  PROVE  /\ ~Sorter!After(a, a)
         /\ Sorter!After(a, b) => ~Sorter!After(b, a)
         /\ ~Sorter!After(a, b) /\ ~Sorter!After(b, c) => ~Sorter!After(a, c)
  <1>1. a.rank \in Nat /\ b.rank \in Nat /\ c.rank \in Nat
    BY DEF LineSet
  <1>2. QED
    BY <1>1 DEF Sorter!After

LEMMA InsertKeeps == LexInv /\ Sorter!Insert => LexInv'
  <1>1. SUFFICES ASSUME LexInv, Sorter!Insert
                 PROVE  LexInv'
    OBVIOUS
  <1>2. /\ x_pc = "insert" /\ x_pc' = "next"
        /\ x_L' = Sorter!InsertAt(x_L, x_j + 2, x_k) /\ x_k' = x_k + 1
        /\ x_j < 0 \/ ~Sorter!After(x_arr[x_L[x_j + 1]], x_arr[x_k])
        /\ UNCHANGED <<x_input, x_lineCount, x_arr, x_j, x_out>>
    BY <1>1 DEF LexInv, Sorter!Insert, Sorter!Passes
  <1>3. /\ Sorted /\ x_j \in -1 .. (x_k - 1) /\ x_k \in Nat /\ x_k >= 1
        /\ x_k < x_lineCount /\ x_lineCount \in Nat /\ x_input \in Seq(LineSet)
        /\ x_arr = [m \in 0 .. (x_lineCount - 1) |->
                      IF m < Len(x_input) THEN x_input[m + 1] ELSE Sorter!Indeterminate]
        /\ \A m \in DOMAIN x_L : m > x_j + 1 => Sorter!After(x_arr[x_L[m]], x_arr[x_k])
    <2>1. x_lineCount \in Nat
      BY <1>1, <1>2, LenProperties DEF LexInv, Room
    <2>2. QED
      BY <1>1, <1>2, <2>1 DEF LexInv
  <1>4. ASSUME NEW a \in 0 .. (x_lineCount - 1) PROVE x_arr[a] \in LineSet
    <2>1. CASE a < Len(x_input)
      <3>1. Len(x_input) \in Nat /\ a + 1 \in 1 .. Len(x_input)
        BY <1>3, <2>1, LenProperties
      <3>2. QED
        BY <1>3, <2>1, <3>1, ElementOfSeq
    <2>2. CASE ~(a < Len(x_input))
      BY <1>3, <2>2 DEF Sorter!Indeterminate, Sorter!Line, LineSet
    <2>3. QED
      BY <2>1, <2>2
  <1>5. /\ x_L \in Seq(Nat) /\ Len(x_L) = x_k /\ DOMAIN x_L = 1 .. x_k
        /\ \A i \in 1 .. x_k : x_L[i] \in 0 .. (x_k - 1)
    <2>1. x_L \in Seq(Nat) /\ Len(x_L) = x_k /\ Sorter!ToSet(x_L) = 0 .. (x_k - 1)
      BY <1>3 DEF Sorted
    <2>2. DOMAIN x_L = 1 .. x_k
      BY <2>1, LenProperties
    <2>3. \A i \in DOMAIN x_L : x_L[i] \in 0 .. (x_k - 1)
      BY <2>1 DEF Sorter!ToSet
    <2>4. QED
      BY <2>1, <2>2, <2>3
  <1>6. PICK at : at = x_j + 1
    OBVIOUS
  <1>61. at \in Nat /\ x_k \in Nat /\ at <= x_k /\ x_j + 2 = at + 1
    BY <1>3, <1>6
  <1>7. /\ at \in 0 .. x_k /\ x_j + 2 = at + 1
        /\ at > 0 => ~Sorter!After(x_arr[x_L[at]], x_arr[x_k])
        /\ \A m \in 1 .. x_k : m > at => Sorter!After(x_arr[x_L[m]], x_arr[x_k])
    <2>1. at > 0 => ~(x_j < 0)
      BY <1>3, <1>6
    <2>2. \A m \in DOMAIN x_L : m > at => Sorter!After(x_arr[x_L[m]], x_arr[x_k])
      BY <1>3, <1>6
    <2>3. at > 0 => ~Sorter!After(x_arr[x_L[at]], x_arr[x_k])
      BY <1>2, <1>6, <2>1
    <2>4. at \in 0 .. x_k
      BY <1>61
    <2>5. QED
      BY <1>5, <1>61, <2>2, <2>3, <2>4
  <1> DEFINE new == Inserted(x_L, at, x_k)
  <1>8. /\ new \in Seq(Nat) /\ Len(new) = x_k + 1 /\ DOMAIN new = 1 .. (x_k + 1)
        /\ \A i \in 1 .. (x_k + 1) :
             new[i] = IF i <= at THEN x_L[i] ELSE IF i = at + 1 THEN x_k ELSE x_L[i - 1]
    <2>1. x_L \in Seq(Nat) /\ at \in 0 .. Len(x_L) /\ x_k \in Nat
      BY <1>5, <1>61
    <2> HIDE DEF new
    <2>2. PICK S, s, k, d : S = Nat /\ s = x_L /\ k = at /\ d = x_k
      OBVIOUS
    <2>3. s \in Seq(S) /\ k \in 0 .. Len(s) /\ d \in S
      BY <2>1, <2>2
    <2>4. /\ Inserted(s, k, d) \in Seq(S) /\ Len(Inserted(s, k, d)) = Len(s) + 1
          /\ \A i \in 1 .. (Len(s) + 1) :
               Inserted(s, k, d)[i] = IF i <= k THEN s[i] ELSE IF i = k + 1 THEN d ELSE s[i - 1]
      <3>1. Inserted(s, k, d) \in Seq(S)
        BY <2>3, InsertedIs
      <3>2. Len(Inserted(s, k, d)) = Len(s) + 1
        BY <2>3, InsertedIs
      <3>3. ASSUME NEW i \in 1 .. (Len(s) + 1)
            PROVE  Inserted(s, k, d)[i] = IF i <= k THEN s[i]
                                          ELSE IF i = k + 1 THEN d ELSE s[i - 1]
        BY <2>3, InsertedIs
      <3>4. QED
        BY <3>1, <3>2, <3>3
    <2>5. new = Inserted(s, k, d)
      BY <2>2 DEF new
    <2>6. QED
      BY <1>5, <2>2, <2>4, <2>5, LenProperties
  <1>9. x_L' = new
    BY <1>2, <1>7 DEF Sorter!InsertAt, Inserted
  <1> HIDE DEF new
  <1> DEFINE Before(a, c) == /\ ~Sorter!After(x_arr[a], x_arr[c])
                             /\ x_arr[a] = x_arr[c] => a < c
  <1>10. \A m, n \in 1 .. x_k : m < n => Before(x_L[m], x_L[n])
    BY <1>3, <1>5 DEF Sorted
  <1>11. x_k \in 0 .. (x_lineCount - 1) /\ \A i \in 1 .. x_k : x_L[i] \in 0 .. (x_lineCount - 1)
    BY <1>3, <1>5
  <1>12. ASSUME NEW i \in 1 .. x_k, i <= at PROVE Before(x_L[i], x_k)
    <2>1. at \in 1 .. x_k /\ ~Sorter!After(x_arr[x_L[at]], x_arr[x_k])
      BY <1>7, <1>12
    <2>2. i = at \/ ~Sorter!After(x_arr[x_L[i]], x_arr[x_L[at]])
      BY <1>10, <1>12, <2>1
    <2>3. ~Sorter!After(x_arr[x_L[i]], x_arr[x_k])
      BY <1>4, <1>11, <2>1, <2>2, AfterOrders
    <2>4. x_L[i] < x_k
      BY <1>3, <1>5
    <2>5. QED
      BY <2>3, <2>4
  <1>13. ASSUME NEW i \in 1 .. x_k, i > at PROVE Before(x_k, x_L[i])
    <2>1. Sorter!After(x_arr[x_L[i]], x_arr[x_k])
      BY <1>7, <1>13
    <2>2. ~Sorter!After(x_arr[x_k], x_arr[x_L[i]]) /\ x_arr[x_k] # x_arr[x_L[i]]
      BY <1>4, <1>11, <2>1, AfterOrders
    <2>3. QED
      BY <2>2
  <1> HIDE DEF Before
  <1>14. ASSUME NEW m \in 1 .. (x_k + 1), NEW n \in 1 .. (x_k + 1), m < n
         PROVE  Before(new[m], new[n])
    <2>1. m \in Int /\ n \in Int /\ at \in Int
      BY <1>61
    <2>2. CASE n <= at
      <3>1. m <= at /\ m \in 1 .. x_k /\ n \in 1 .. x_k
        BY <1>61, <1>14, <2>2
      <3>2. new[m] = x_L[m] /\ new[n] = x_L[n]
        BY <1>8, <2>2, <3>1
      <3>3. QED
        BY <1>10, <1>14, <3>1, <3>2
    <2>3. CASE n = at + 1
      <3>1. m <= at /\ m \in 1 .. x_k /\ ~(n <= at)
        BY <1>61, <1>14, <2>1, <2>3
      <3>2. new[m] = x_L[m] /\ new[n] = x_k
        BY <1>8, <2>3, <3>1
      <3>3. QED
        BY <1>12, <3>1, <3>2
    <2>4. CASE n > at + 1
      <3>1. new[n] = x_L[n - 1] /\ n - 1 \in 1 .. x_k /\ n - 1 > at
        <4>1. n - 1 \in 1 .. x_k /\ n - 1 > at /\ ~(n <= at) /\ n # at + 1
          BY <1>61, <2>4
        <4>2. QED
          BY <1>8, <4>1
      <3>2. CASE m <= at
        <4>1. m \in 1 .. x_k /\ m < n - 1 /\ new[m] = x_L[m]
          <5>1. m \in 1 .. x_k /\ m < n - 1
            BY <1>61, <2>1, <2>4, <3>2
          <5>2. QED
            BY <1>8, <3>2, <5>1
        <4>2. QED
          BY <1>10, <3>1, <4>1
      <3>3. CASE m = at + 1
        <4>1. ~(m <= at)
          BY <1>61, <3>3
        <4>2. new[m] = x_k
          BY <1>8, <3>3, <4>1
        <4>3. QED
          BY <1>13, <3>1, <4>2
      <3>4. CASE m > at + 1
        <4>1. m - 1 \in 1 .. x_k /\ m - 1 < n - 1 /\ new[m] = x_L[m - 1]
          <5>1. m - 1 \in 1 .. x_k /\ m - 1 < n - 1 /\ ~(m <= at) /\ m # at + 1
            BY <1>14, <1>61, <2>1, <3>4
          <5>2. QED
            BY <1>8, <5>1
        <4>2. QED
          BY <1>10, <3>1, <4>1
      <3>5. QED
        BY <2>1, <3>2, <3>3, <3>4
    <2>5. QED
      BY <2>1, <2>2, <2>3, <2>4
  <1>15. Sorter!ToSet(new) = 0 .. ((x_k + 1) - 1)
    <2>1. ASSUME NEW i \in 1 .. (x_k + 1) PROVE new[i] \in 0 .. x_k
      <3>1. CASE i <= at
        <4>1. i \in 1 .. x_k /\ new[i] = x_L[i]
          <5>1. i \in 1 .. x_k
            BY <1>61, <3>1
          <5>2. QED
            BY <1>8, <3>1, <5>1
        <4>2. QED
          BY <1>3, <1>5, <4>1
      <3>2. CASE i = at + 1
        <4>1. ~(i <= at)
          BY <1>61, <3>2
        <4>2. new[i] = x_k
          BY <1>8, <3>2, <4>1
        <4>3. QED
          BY <1>61, <4>2
      <3>3. CASE i > at + 1
        <4>1. i - 1 \in 1 .. x_k /\ new[i] = x_L[i - 1]
          <5>1. i - 1 \in 1 .. x_k /\ ~(i <= at) /\ i # at + 1
            BY <1>61, <3>3
          <5>2. QED
            BY <1>8, <5>1
        <4>2. QED
          BY <1>3, <1>5, <4>1
      <3>4. QED
        BY <1>61, <3>1, <3>2, <3>3
    <2>2. ASSUME NEW v \in 0 .. x_k PROVE \E i \in 1 .. (x_k + 1) : new[i] = v
      <3>1. CASE v = x_k
        <4>1. at + 1 \in 1 .. (x_k + 1) /\ new[at + 1] = x_k
          <5>1. at + 1 \in 1 .. (x_k + 1) /\ ~(at + 1 <= at)
            BY <1>61
          <5>2. QED
            BY <1>8, <5>1
        <4>2. QED
          BY <3>1, <4>1
      <3>2. CASE v # x_k
        <4>1. v \in 0 .. (x_k - 1)
          BY <1>3, <3>2
        <4>2. PICK i \in 1 .. x_k : x_L[i] = v
          <5>1. Sorter!ToSet(x_L) = 0 .. (x_k - 1)
            BY <1>3 DEF Sorted
          <5>2. \E i \in DOMAIN x_L : x_L[i] = v
            BY <4>1, <5>1 DEF Sorter!ToSet
          <5>3. QED
            BY <1>5, <5>2
        <4>3. CASE i <= at
          <5>1. i \in 1 .. (x_k + 1)
            BY <1>61
          <5>2. QED
            BY <1>8, <4>2, <4>3, <5>1
        <4>4. CASE ~(i <= at)
          <5>1. /\ i + 1 \in 1 .. (x_k + 1) /\ ~(i + 1 <= at) /\ i + 1 # at + 1
                /\ (i + 1) - 1 = i
            BY <1>61, <4>4
          <5>2. new[i + 1] = x_L[i]
            BY <1>8, <5>1
          <5>3. QED
            BY <4>2, <5>1, <5>2
        <4>5. QED
          BY <4>3, <4>4
      <3>3. QED
        BY <3>1, <3>2
    <2>3. (x_k + 1) - 1 = x_k
      BY <1>3
    <2>4. QED
      <3>1. Sorter!ToSet(new) = {new[i] : i \in 1 .. (x_k + 1)}
        BY <1>8 DEF Sorter!ToSet
      <3>2. {new[i] : i \in 1 .. (x_k + 1)} = 0 .. x_k
        BY <2>1, <2>2
      <3>3. QED
        BY <2>3, <3>1, <3>2
  <1>16. Sorted'
    <2>1. \A m, n \in DOMAIN new : m < n =>
            /\ ~Sorter!After(x_arr[new[m]], x_arr[new[n]])
            /\ x_arr[new[m]] = x_arr[new[n]] => new[m] < new[n]
      BY <1>8, <1>14 DEF Before
    <2>2. QED
      BY <1>2, <1>8, <1>9, <1>15, <2>1 DEF Sorted
  <1>17. Room' = Room /\ x_k' \in 1 .. x_lineCount
    BY <1>2, <1>3 DEF Room
  <1>18. QED
    BY <1>1, <1>2, <1>16, <1>17 DEF LexInv

LEMMA StartWriteKeeps == LexInv /\ Sorter!StartWrite => LexInv'
  <1>1. SUFFICES ASSUME LexInv, Sorter!StartWrite
                 PROVE  LexInv'
    OBVIOUS
  <1>2. /\ x_pc = "next" /\ x_pc' = "write" /\ x_k >= x_lineCount /\ x_j' = 0
        /\ UNCHANGED <<x_input, x_lineCount, x_arr, x_L, x_k, x_out>>
        /\ x_out = <<>>
    BY <1>1 DEF Sorter!StartWrite, LexInv
  <1>3. x_lineCount \in Nat /\ x_k \in 1 .. x_lineCount
    BY <1>1, <1>2, LenProperties DEF LexInv, Room
  <1>4. x_k = x_lineCount /\ x_k >= 1 /\ x_j' \in -1 .. (x_k - 1)
    BY <1>2, <1>3
  <1>5. Sorted' /\ Room' = Room
    BY <1>1, <1>2 DEF LexInv, Sorted, Room
  <1>6. ASSUME NEW l PROVE Written(l, 0, <<>>)
    <2>1. Wholes(l, 0) = <<>> /\ 1 .. (0 - 1) = {}
      BY DEF Wholes
    <2>2. QED
      BY <2>1 DEF Written
  <1>7. QED
    BY <1>1, <1>2, <1>4, <1>5, <1>6 DEF LexInv

OutLines == [text : Seq(Nat), ended : BOOLEAN]

LEMMA GluedIs ==
  ASSUME NEW s \in Seq(OutLines), NEW q \in 1 .. (Len(s) - 1)
  PROVE  /\ Sorter!Glued(s, q) \in Seq(OutLines)
         /\ Len(Sorter!Glued(s, q)) = Len(s) - 1
  <1> DEFINE t == Sorter!Glued(s, q)
  <1>1. /\ Len(s) \in Nat /\ DOMAIN s = 1 .. Len(s) /\ Len(s) - 1 \in Nat
        /\ q \in 1 .. Len(s) /\ q + 1 \in 1 .. Len(s)
    BY LenProperties
  <1>2. \A m \in 1 .. Len(s) : s[m] \in OutLines
    BY <1>1
  <1>3. ASSUME NEW m \in 1 .. (Len(s) - 1)
        PROVE  (IF m < q THEN s[m]
                ELSE IF m = q THEN [text |-> s[q].text \o s[q + 1].text, ended |-> s[q + 1].ended]
                ELSE s[m + 1]) \in OutLines
    <2>1. m \in 1 .. Len(s) /\ m + 1 \in 1 .. Len(s)
      BY <1>1
    <2>2. /\ s[q].text \in Seq(Nat) /\ s[q + 1].text \in Seq(Nat)
          /\ s[q + 1].ended \in BOOLEAN
      BY <1>1, <1>2 DEF OutLines
    <2>3. s[q].text \o s[q + 1].text \in Seq(Nat)
      BY <2>2, ConcatProperties
    <2>4. [text |-> s[q].text \o s[q + 1].text, ended |-> s[q + 1].ended] \in OutLines
      BY <2>2, <2>3, Zenon DEF OutLines
    <2>5. s[m] \in OutLines /\ s[m + 1] \in OutLines
      BY <1>2, <2>1
    <2>6. QED
      BY <2>4, <2>5
  <1>4. t \in [1 .. (Len(s) - 1) -> OutLines]
    BY <1>3 DEF Sorter!Glued
  <1> HIDE DEF t
  <1>5. QED
    BY <1>1, <1>4, FunIsSeq DEF t

(* fputs of the lines of l, one after the other: they are the lines of the *)
(* file, but for the one that goes on a line without a newline.            *)
LEMMA FputsIs ==
  ASSUME NEW p \in Nat, NEW l, \A m \in 1 .. (p + 1) : l[m] \in LineSet,
         \A q, t \in 1 .. p : ~l[q].ended /\ ~l[t].ended => q = t,
         NEW o, Written(l, p, o)
  PROVE  Written(l, p + 1, Sorter!Fputs(o, l[p + 1]))
  <1>0. PICK w, v : w = Wholes(l, p) /\ v = Wholes(l, p + 1)
    OBVIOUS
  <1> DEFINE e == Sorter!Whole(l[p + 1])
             u == Sorter!Fputs(o, l[p + 1])
  <1>1. /\ p + 1 \in Nat /\ p + 1 \in 1 .. (p + 1)
        /\ \A m \in 1 .. p : m \in 1 .. (p + 1)
    OBVIOUS
  <1>2. ASSUME NEW m \in 1 .. (p + 1)
        PROVE  /\ Sorter!Whole(l[m]) \in OutLines
               /\ Sorter!Whole(l[m]).ended = l[m].ended
    <2>1. l[m].rank \in Nat /\ l[m].ended \in BOOLEAN
      BY DEF LineSet
    <2>2. <<l[m].rank>> \in Seq(Nat)
      BY <2>1
    <2>3. QED
      BY <2>1, <2>2, Zenon DEF Sorter!Whole, OutLines
  <1>3. /\ w \in Seq(OutLines) /\ Len(w) = p
        /\ \A m \in 1 .. p : w[m] = Sorter!Whole(l[m])
    <2>1. w \in [1 .. p -> OutLines] /\ \A m \in 1 .. p : w[m] = Sorter!Whole(l[m])
      BY <1>0, <1>1, <1>2 DEF Wholes
    <2>2. QED
      BY <2>1, FunIsSeq
  <1>4. /\ v \in Seq(OutLines) /\ Len(v) = p + 1
        /\ \A m \in 1 .. (p + 1) : v[m] = Sorter!Whole(l[m])
    <2>1. /\ v \in [1 .. (p + 1) -> OutLines]
          /\ \A m \in 1 .. (p + 1) : v[m] = Sorter!Whole(l[m])
      BY <1>0, <1>2 DEF Wholes
    <2>2. QED
      BY <1>1, <2>1, FunIsSeq
  <1>5. e \in OutLines /\ v[p + 1] = e
    BY <1>1, <1>2, <1>4
  <1>6. \A m \in 1 .. p : w[m] = v[m]
    BY <1>1, <1>3, <1>4
  <1>7. u = IF o = <<>> \/ o[Len(o)].ended THEN Append(o, e)
            ELSE Sorter!Glued(Append(o, e), Len(o))
    BY DEF Sorter!Fputs, Sorter!Last
  <1> HIDE DEF e, u
  <1>8. Append(w, e) = v
    <2>1. /\ Append(w, e) \in Seq(OutLines) /\ Len(Append(w, e)) = p + 1
          /\ \A m \in 1 .. p : Append(w, e)[m] = w[m]
          /\ Append(w, e)[p + 1] = e
      BY <1>3, <1>5, AppendProperties
    <2>2. ASSUME NEW m \in 1 .. (p + 1) PROVE Append(w, e)[m] = v[m]
      BY <1>5, <1>6, <2>1
    <2>3. QED
      BY <1>4, <2>1, <2>2, SeqEqual
  <1>9. ASSUME \A q \in 1 .. (p - 1) : l[q].ended
        PROVE  /\ (\A q \in 1 .. p : l[q].ended) => u = v
               /\ \A q \in 1 .. p : ~l[q].ended => u = Sorter!Glued(v, q)
    <2>1. o = w
      BY <1>0, <1>9 DEF Written
    <2>2. CASE p = 0
      <3>1. o = <<>>
        BY <1>3, <2>1, <2>2, EmptySeq
      <3>2. u = v /\ 1 .. p = {}
        BY <1>7, <1>8, <2>1, <2>2, <3>1
      <3>3. QED
        BY <3>2
    <2>3. CASE p > 0
      <3>1. /\ p \in 1 .. p /\ o # <<>> /\ o[Len(o)] = Sorter!Whole(l[p])
            /\ o[Len(o)].ended = l[p].ended
        BY <1>1, <1>2, <1>3, <2>1, <2>3, EmptySeq
      <3>2. \A q \in 1 .. p : q = p \/ l[q].ended
        <4>1. \A q \in 1 .. p : q = p \/ q \in 1 .. (p - 1)
          BY <2>3
        <4>2. QED
          BY <1>9, <4>1
      <3>3. CASE l[p].ended
        <4>1. u = v /\ \A q \in 1 .. p : l[q].ended
          BY <1>7, <1>8, <2>1, <3>1, <3>2, <3>3
        <4>2. QED
          BY <4>1
      <3>4. CASE ~l[p].ended
        <4>1. u = Sorter!Glued(v, p)
          BY <1>3, <1>7, <1>8, <2>1, <3>1, <3>4
        <4>2. QED
          BY <3>1, <3>2, <3>4, <4>1
      <3>5. QED
        BY <3>3, <3>4
    <2>4. QED
      BY <2>2, <2>3
  <1>10. ASSUME NEW q \in 1 .. (p - 1), ~l[q].ended
         PROVE  /\ q \in 1 .. p /\ u = Sorter!Glued(v, q)
                /\ \A t \in 1 .. p : ~l[t].ended => t = q
    <2>0. o = Sorter!Glued(w, q)
      BY <1>0, <1>10 DEF Written
    <2>1. /\ o = Sorter!Glued(w, q) /\ p > 1 /\ q \in Int /\ q < p /\ q >= 1
          /\ q \in 1 .. p /\ p \in 1 .. p /\ p # q /\ p - 1 \in 1 .. (p - 1)
      BY <1>10, <2>0
    <2>2. l[p].ended
      BY <1>10, <2>1
    <2>3. o \in Seq(OutLines) /\ Len(o) = p - 1
      BY <1>3, <1>10, <2>1, GluedIs
    <2>4. ASSUME NEW m \in 1 .. (p - 1)
          PROVE  o[m] = IF m < q THEN w[m]
                        ELSE IF m = q THEN [text |-> w[q].text \o w[q + 1].text,
                                            ended |-> w[q + 1].ended]
                        ELSE w[m + 1]
      BY <1>3, <2>1 DEF Sorter!Glued
    <2>5. o # <<>> /\ o[Len(o)].ended
      <3>1. w[p].ended
        BY <1>1, <1>2, <1>3, <2>1, <2>2
      <3>2. o[p - 1].ended = w[p].ended
        <4>0. o[p - 1] = IF p - 1 < q THEN w[p - 1]
                         ELSE IF p - 1 = q THEN [text |-> w[q].text \o w[q + 1].text,
                                                 ended |-> w[q + 1].ended]
                         ELSE w[(p - 1) + 1]
          BY <2>1, <2>4, Zenon
        <4>00. ~(p - 1 < q) /\ (p - 1) + 1 = p
          BY <2>1
        <4>1. CASE p - 1 = q
          <5>1. /\ o[p - 1] = [text |-> w[q].text \o w[q + 1].text, ended |-> w[q + 1].ended]
                /\ q + 1 = p
            BY <4>0, <4>00, <4>1
          <5>2. QED
            BY <5>1
        <4>2. CASE p - 1 # q
          <5>1. o[p - 1] = w[(p - 1) + 1] /\ (p - 1) + 1 = p
            BY <4>0, <4>00, <4>2
          <5>2. QED
            BY <5>1
        <4>3. QED
          BY <4>1, <4>2
      <3>3. o # <<>>
        BY <2>1, <2>3, EmptySeq
      <3>4. QED
        BY <2>3, <3>1, <3>2, <3>3
    <2>6. u = Append(o, e)
      BY <1>7, <2>5
    <2>7. /\ u \in Seq(OutLines) /\ Len(u) = p
          /\ \A m \in 1 .. (p - 1) : u[m] = o[m]
          /\ u[p] = e
      <3>1. /\ Append(o, e) \in Seq(OutLines) /\ Len(Append(o, e)) = Len(o) + 1
            /\ \A m \in 1 .. Len(o) : Append(o, e)[m] = o[m]
            /\ Append(o, e)[Len(o) + 1] = e
        BY <1>5, <2>3, AppendProperties
      <3>2. Len(o) + 1 = p
        BY <2>3
      <3>3. QED
        BY <2>3, <2>6, <3>1, <3>2
    <2>8. Sorter!Glued(v, q) \in Seq(OutLines) /\ Len(Sorter!Glued(v, q)) = p
      <3>1. q \in 1 .. (Len(v) - 1)
        BY <1>4, <2>1
      <3>2. QED
        BY <1>4, <3>1, GluedIs
    <2>9. ASSUME NEW m \in 1 .. p
          PROVE  u[m] = Sorter!Glued(v, q)[m]
      <3>1. Sorter!Glued(v, q)[m]
              = IF m < q THEN v[m]
                ELSE IF m = q THEN [text |-> v[q].text \o v[q + 1].text, ended |-> v[q + 1].ended]
                ELSE v[m + 1]
        <4>1. m \in 1 .. (Len(v) - 1)
          BY <1>4
        <4>2. QED
          BY <4>1 DEF Sorter!Glued
      <3>2. CASE m = p
        BY <1>5, <2>1, <2>7, <3>1, <3>2
      <3>3. CASE m # p
        <4>1. m \in 1 .. (p - 1) /\ m + 1 \in 1 .. p /\ q + 1 \in 1 .. p
          BY <2>1, <3>3
        <4>2. w[m] = v[m] /\ w[m + 1] = v[m + 1] /\ w[q] = v[q] /\ w[q + 1] = v[q + 1]
          BY <1>6, <2>1, <4>1
        <4>3. u[m] = IF m < q THEN w[m]
                     ELSE IF m = q THEN [text |-> w[q].text \o w[q + 1].text,
                                         ended |-> w[q + 1].ended]
                     ELSE w[m + 1]
          BY <2>4, <2>7, <4>1, Zenon
        <4>4. QED
          BY <3>1, <4>2, <4>3, Zenon
      <3>4. QED
        BY <3>2, <3>3
    <2>10. u = Sorter!Glued(v, q)
      BY <2>7, <2>8, <2>9, SeqEqual
    <2>11. QED
      BY <1>10, <2>1, <2>10
  <1>11. /\ (\A q \in 1 .. p : l[q].ended) => u = v
         /\ \A q \in 1 .. p : ~l[q].ended => u = Sorter!Glued(v, q)
    BY <1>9, <1>10
  <1>12. (p + 1) - 1 = p
    OBVIOUS
  <1>13. Written(l, p + 1, u)
    BY <1>0, <1>11, <1>12 DEF Written
  <1>14. QED
    BY <1>13 DEF u

(* A line goes to the list once, and only the last line of a file lacks    *)
(* its newline.                                                            *)
LEMMA OneUnended ==
  ASSUME LexInv, x_pc \in {"write", "done"}, x_input # <<>>
  PROVE  /\ x_k = Len(x_input) /\ x_k \in Nat /\ Len(x_L) = x_k /\ DOMAIN x_L = 1 .. x_k
         /\ \A m \in 1 .. x_k : /\ x_L[m] + 1 \in 1 .. x_k
                                 /\ x_arr[x_L[m]] = x_input[x_L[m] + 1]
                                 /\ x_arr[x_L[m]] \in LineSet
         /\ \A q, t \in 1 .. x_k : ~x_arr[x_L[q]].ended /\ ~x_arr[x_L[t]].ended => q = t
  <1>1. /\ x_k = Len(x_input) /\ Sorted /\ x_k \in Nat /\ x_input \in Seq(LineSet)
        /\ x_arr = [m \in 0 .. (x_k - 1) |->
                      IF m < Len(x_input) THEN x_input[m + 1] ELSE Sorter!Indeterminate]
        /\ \A m \in 1 .. (Len(x_input) - 1) : x_input[m].ended
    BY LenProperties DEF LexInv, Room
  <1>2. /\ DOMAIN x_L = 1 .. x_k /\ Len(x_L) = x_k
        /\ \A m \in 1 .. x_k : x_L[m] \in 0 .. (x_k - 1)
    BY <1>1, LenProperties DEF Sorted, Sorter!ToSet
  <1>3. ASSUME NEW m \in 1 .. x_k
        PROVE  /\ x_L[m] + 1 \in 1 .. x_k
               /\ x_arr[x_L[m]] = x_input[x_L[m] + 1]
               /\ x_arr[x_L[m]] \in LineSet
               /\ ~x_arr[x_L[m]].ended => x_L[m] = x_k - 1
    <2>1. x_L[m] \in 0 .. (x_k - 1) /\ x_L[m] + 1 \in 1 .. x_k /\ x_L[m] < Len(x_input)
      BY <1>1, <1>2
    <2>2. x_arr[x_L[m]] = x_input[x_L[m] + 1]
      BY <1>1, <2>1
    <2>3. x_input[x_L[m] + 1] \in LineSet
      BY <1>1, <2>1, ElementOfSeq
    <2>4. x_L[m] = x_k - 1 \/ x_L[m] + 1 \in 1 .. (x_k - 1)
      <3>1. PICK a : a = x_L[m]
        OBVIOUS
      <3>2. a \in 0 .. (x_k - 1) /\ x_k \in Nat
        BY <1>1, <2>1, <3>1
      <3>3. a = x_k - 1 \/ a + 1 \in 1 .. (x_k - 1)
        BY <3>2
      <3>4. QED
        BY <3>1, <3>3
    <2>5. QED
      BY <1>1, <2>1, <2>2, <2>3, <2>4
  <1>4. ASSUME NEW q \in 1 .. x_k, NEW t \in 1 .. x_k, q < t,
               ~x_arr[x_L[q]].ended, ~x_arr[x_L[t]].ended
        PROVE  FALSE
    <2>1. x_L[q] = x_k - 1 /\ x_L[t] = x_k - 1
      BY <1>3, <1>4
    <2>2. x_L[q] < x_L[t]
      BY <1>1, <1>2, <1>4, <2>1 DEF Sorted
    <2>3. QED
      BY <1>1, <2>1, <2>2
  <1>5. \A q, t \in 1 .. x_k : ~x_arr[x_L[q]].ended /\ ~x_arr[x_L[t]].ended => q = t
    <2>1. \A q, t \in 1 .. x_k : q < t \/ t < q \/ q = t
      BY <1>1
    <2>2. QED
      BY <1>4, <2>1
  <1>6. QED
    BY <1>1, <1>2, <1>3, <1>5

LEMMA WriteLineKeeps == LexInv /\ Sorter!WriteLine => LexInv'
  <1>1. SUFFICES ASSUME LexInv, Sorter!WriteLine
                 PROVE  LexInv'
    OBVIOUS
  <1>2. /\ x_pc = "write" /\ x_pc' = "write" /\ x_j >= 0 /\ x_k = x_lineCount
        /\ x_j' = IF x_j + 1 < Len(x_L) THEN x_j + 1 ELSE -1
        /\ UNCHANGED <<x_input, x_lineCount, x_arr, x_L, x_k>>
        /\ x_input # <<>> => x_out' = Sorter!Fputs(x_out, x_arr[x_L[x_j + 1]])
    BY <1>1 DEF Sorter!WriteLine, LexInv
  <1>3. /\ x_k \in 1 .. x_lineCount /\ x_lineCount \in Nat /\ x_j \in 0 .. (x_k - 1)
        /\ Len(x_L) = x_k
    BY <1>1, <1>2, LenProperties DEF LexInv, Room, Sorted
  <1>4. /\ x_j' \in -1 .. (x_k - 1)
        /\ (IF x_j' >= 0 THEN x_j' ELSE x_k) = x_j + 1
    BY <1>2, <1>3
  <1>5. Sorted' /\ Room' = Room
    BY <1>1, <1>2 DEF LexInv, Sorted, Room
  <1>6. ASSUME x_input # <<>>
        PROVE  Written(Ordered, x_j + 1, x_out')
    <2>1. PICK p \in Nat : p = x_j /\ p + 1 \in 1 .. x_k /\ p <= x_k
      BY <1>3
    <2>2. PICK l : l = Ordered
      OBVIOUS
    <2>3. /\ x_k \in Nat /\ \A m \in 1 .. x_k : l[m] = x_arr[x_L[m]] /\ l[m] \in LineSet
          /\ \A q, t \in 1 .. x_k : ~l[q].ended /\ ~l[t].ended => q = t
      BY <1>1, <1>2, <1>6, <2>2, OneUnended DEF Ordered
    <2>4. /\ \A m \in 1 .. (p + 1) : m \in 1 .. x_k
          /\ \A m \in 1 .. p : m \in 1 .. x_k
      BY <2>1, <2>3
    <2>5. /\ \A m \in 1 .. (p + 1) : l[m] \in LineSet
          /\ \A q, t \in 1 .. p : ~l[q].ended /\ ~l[t].ended => q = t
      BY <2>3, <2>4
    <2>6. PICK o : o = x_out
      OBVIOUS
    <2>7. Written(l, p, o)
      <3>1. Written(Ordered, IF x_j >= 0 THEN x_j ELSE x_k, x_out)
        BY <1>1, <1>2, <1>6 DEF LexInv
      <3>2. QED
        BY <1>2, <2>1, <2>2, <2>6, <3>1
    <2>8. Written(l, p + 1, Sorter!Fputs(o, l[p + 1]))
      BY <2>5, <2>7, FputsIs
    <2>9. x_out' = Sorter!Fputs(o, l[p + 1])
      BY <1>2, <1>6, <2>1, <2>3, <2>6
    <2>10. QED
      BY <2>1, <2>2, <2>8, <2>9
  <1>7. Ordered' = Ordered /\ (IF x_j' >= 0 THEN x_j' ELSE x_k') = x_j + 1
    BY <1>2, <1>4 DEF Ordered
  <1>8. QED
    BY <1>1, <1>2, <1>3, <1>4, <1>5, <1>6, <1>7 DEF LexInv

LEMMA EndWriteKeeps == LexInv /\ Sorter!EndWrite => LexInv'
  <1>1. SUFFICES ASSUME LexInv, Sorter!EndWrite
                 PROVE  LexInv'
    OBVIOUS
  <1>2. /\ x_pc = "write" /\ x_pc' = "done" /\ x_j < 0
        /\ UNCHANGED <<x_input, x_lineCount, x_arr, x_L, x_j, x_k, x_out>>
    BY <1>1 DEF Sorter!EndWrite
  <1>3. Sorted' /\ Room' = Room /\ Ordered' = Ordered
    BY <1>1, <1>2 DEF LexInv, Sorted, Room, Ordered
  <1>4. ~(x_j >= 0)
    BY <1>1, <1>2 DEF LexInv
  <1>5. x_input # <<>> => Written(Ordered, x_k, x_out)
    BY <1>1, <1>2, <1>4 DEF LexInv
  <1>6. QED
    BY <1>1, <1>2, <1>3, <1>5 DEF LexInv

LEMMA LexKeeps == LexInv /\ [Next]_vars => LexInv'
  <1>1. LexInv /\ Sorter!Next => LexInv'
    BY OpenKeeps, OpenFailsKeeps, CountLinesKeeps, ReadLinesKeeps, MoveBackKeeps,
       MovePrevKeeps, InsertKeeps, StartWriteKeeps, WriteLineKeeps, EndWriteKeeps
       DEF Sorter!Next
  <1>2. QED
    BY <1>1, LexStays DEF Next, vars

LEMMA LexInvSorts == LexInv => LexSorts
  <1>1. SUFFICES ASSUME LexInv
                 PROVE  Sorter!LexSorts
    BY DEF LexSorts
  <1>2. ASSUME x_pc \in {"next", "insert", "write", "done"}
        PROVE  /\ Sorter!ToSet(x_L) = 0 .. (x_k - 1) /\ Len(x_L) = x_k
               /\ \A m, n \in DOMAIN x_L : m < n =>
                    /\ ~Sorter!After(x_arr[x_L[m]], x_arr[x_L[n]])
                    /\ x_arr[x_L[m]] = x_arr[x_L[n]] => x_L[m] < x_L[n]
    BY <1>1, <1>2 DEF LexInv, Sorted
  <1> DEFINE n == Len(x_input)
             line == [m \in 1 .. n |-> x_input[x_L[m] + 1]]
             lines == [m \in 1 .. n |-> Sorter!Whole(line[m])]
  <1>3. ASSUME x_pc = "done", x_input # <<>>
        PROVE  /\ Len(x_L) = n
               /\ (\A q \in 1 .. (n - 1) : line[q].ended) => x_out = lines
               /\ \A q \in 1 .. (n - 1) : ~line[q].ended => x_out = Sorter!Glued(lines, q)
    <2>1. /\ x_k = n /\ n \in Nat /\ Len(x_L) = n
          /\ \A m \in 1 .. n : x_arr[x_L[m]] = x_input[x_L[m] + 1]
      BY <1>1, <1>3, OneUnended
    <2>2. Written(Ordered, x_k, x_out)
      BY <1>1, <1>3 DEF LexInv
    <2> HIDE DEF n
    <2>3. Ordered = line
      BY <2>1 DEF Ordered
    <2>4. Wholes(line, n) = lines
      BY DEF Wholes
    <2> HIDE DEF lines, line
    <2>5. Written(line, n, x_out)
      BY <2>1, <2>2, <2>3
    <2>6. QED
      BY <2>1, <2>4, <2>5 DEF Written
  <1>4. QED
    BY <1>2, <1>3 DEF Sorter!LexSorts

(* For a file of any number of lines: at every moment the list of Lex.c    *)
(* holds the index of each line read so far once, in the order of strcmp   *)
(* and of the file among lines that are the same.  What is written of a    *)
(* file that is not empty are its lines in that order, each once, with one *)
(* put on the line before it if that has no newline.                       *)
THEOREM LexIsRight == Spec => []LexSorts
  <1>1. Init => LexInv
    BY LexInit DEF Init
  <1>2. QED
    BY <1>1, LexKeeps, LexInvSorts, PTL DEF Spec

-----------------------------------------------------------------------------
(* The graph of FindPath, and how far its vertices are from each other     *)
IsGraph(g, n) ==
  g \in [neighbors : [1 .. n -> Seq(1 .. n)], color : [1 .. n -> Colors],
         parent : [1 .. n -> 0 .. n], distance : [1 .. n -> Int],
         size : Int, source : 0 .. n]

\* The vertices that x has an arc to.
Succ(g, x) == Path!ToSet(g.neighbors[x])

LEMMA SuccIs ==
  ASSUME NEW g, NEW n \in Nat, IsGraph(g, n), NEW x \in 1 .. n
  PROVE  /\ Succ(g, x) \in SUBSET (1 .. n) /\ g.neighbors[x] \in Seq(1 .. n)
         /\ Len(g.neighbors) = n /\ DOMAIN g.neighbors = 1 .. n
         /\ \A y : y \in Succ(g, x) <=>
              \E k \in DOMAIN g.neighbors[x] : g.neighbors[x][k] = y
  <1>1. g.neighbors \in [1 .. n -> Seq(1 .. n)]
    BY DEF IsGraph
  <1>2. Len(g.neighbors) = n /\ DOMAIN g.neighbors = 1 .. n
    BY <1>1, FunIsSeq
  <1>3. g.neighbors[x] \in Seq(1 .. n)
    BY <1>1
  <1>4. \A k \in DOMAIN g.neighbors[x] : g.neighbors[x][k] \in 1 .. n
    BY <1>3, LenProperties, ElementOfSeq
  <1>5. QED
    BY <1>2, <1>3, <1>4 DEF Succ, Path!ToSet

(* Within is what its recursion says.                                      *)
Widened(g, B) == B \cup UNION {Path!ToSet(g.neighbors[x]) : x \in B}

LEMMA WithinIs ==
  ASSUME NEW g, NEW n \in Nat, IsGraph(g, n), NEW s \in 1 .. n
  PROVE  LET b == Path!Within(g, s)
         IN  /\ DOMAIN b = 0 .. n /\ b[0] = {s}
             /\ \A k \in 1 .. n : b[k] = Widened(g, b[k - 1])
             /\ \A k \in 0 .. n : b[k] \in SUBSET (1 .. n)
  <1> DEFINE Along(f) == [k \in 0 .. Len(g.neighbors) |->
                            IF k = 0 THEN {s}
                            ELSE f[k - 1] \cup UNION {Path!ToSet(g.neighbors[x]) : x \in f[k - 1]}]
             step == [B \in SUBSET (1 .. n) |-> Widened(g, B)]
             b == Path!Within(g, s)
  <1>1. Len(g.neighbors) = n
    BY SuccIs
  <1>2. \A B \in SUBSET (1 .. n) : Widened(g, B) \in SUBSET (1 .. n)
    <2>1. \A x \in 1 .. n : Path!ToSet(g.neighbors[x]) \in SUBSET (1 .. n)
      BY SuccIs DEF Succ
    <2>2. SUFFICES ASSUME NEW B \in SUBSET (1 .. n), NEW y \in Widened(g, B)
                   PROVE  y \in 1 .. n
      OBVIOUS
    <2>3. y \in B \/ \E x \in B : y \in Path!ToSet(g.neighbors[x])
      BY DEF Widened
    <2>4. QED
      BY <2>1, <2>3
  <1>3. step \in [SUBSET (1 .. n) -> SUBSET (1 .. n)] /\ {s} \in SUBSET (1 .. n)
    BY <1>2
  <1> HIDE DEF step
  <1>4. PICK it \in [0 .. n -> SUBSET (1 .. n)] : Iteration(step, {s}, n, it)
    BY <1>3, Iterates
  <1>5. it = Along(it)
    <2>1. it = [k \in 0 .. n |-> IF k = 0 THEN {s} ELSE step[it[k - 1]]]
      BY <1>4 DEF Iteration
    <2>2. ASSUME NEW k \in 0 .. n, k # 0 PROVE step[it[k - 1]] = Widened(g, it[k - 1])
      <3>1. k - 1 \in 0 .. n
        BY <2>2
      <3>2. QED
        BY <3>1 DEF step
    <2>3. \A k \in 0 .. n : it[k] = IF k = 0 THEN {s} ELSE Widened(g, it[k - 1])
      BY <2>1, <2>2
    <2>4. \A k \in 0 .. n : it[k] = Along(it)[k]
      BY <1>1, <2>3 DEF Widened
    <2>5. QED
      BY <1>1, <2>4
  <1>6. b = CHOOSE f : f = Along(f)
    BY DEF Path!Within
  <1>7. b = Along(b)
    <2> HIDE DEF Along, b
    <2>1. QED
      BY <1>5, <1>6
  <1>8. DOMAIN b = 0 .. n /\ \A k \in 0 .. n : b[k] = IF k = 0 THEN {s} ELSE Widened(g, b[k - 1])
    <2> HIDE DEF b
    <2>1. QED
      BY <1>1, <1>7 DEF Widened
  <1> HIDE DEF Along, b
  <1>9. \A k \in 0 .. n : b[k] \in SUBSET (1 .. n)
    <2> DEFINE S == {k \in Nat : k <= n => b[k] \in SUBSET (1 .. n)}
    <2>1. 0 \in S
      BY <1>3, <1>8
    <2>2. ASSUME NEW k \in S PROVE k + 1 \in S
      <3>1. CASE k + 1 <= n
        <4>1. k + 1 \in 0 .. n /\ k + 1 # 0 /\ (k + 1) - 1 = k /\ k <= n
          BY <3>1
        <4>2. QED
          BY <1>2, <1>8, <4>1
      <3>2. CASE ~(k + 1 <= n)
        BY <3>2
      <3>3. QED
        BY <3>1, <3>2
    <2>3. S \in SUBSET Nat
      OBVIOUS
    <2> HIDE DEF S
    <2>4. S = Nat
      BY <2>1, <2>2, <2>3, EveryNat
    <2>5. QED
      BY <2>4 DEF S
  <1>10. b[0] = {s} /\ \A k \in 1 .. n : b[k] = Widened(g, b[k - 1])
    <2>1. 0 \in 0 .. n /\ \A k \in 1 .. n : k \in 0 .. n /\ k # 0
      OBVIOUS
    <2>2. QED
      BY <1>8, <2>1
  <1>11. QED
    BY <1>8, <1>9, <1>10 DEF b

-----------------------------------------------------------------------------
(* What there is to know of distances: D counts the arcs of a shortest     *)
(* path from s, and is negative where there is none.                       *)
Distances(D, g, n, s) ==
  /\ D \in [1 .. n -> Int]
  /\ \A v \in 1 .. n : (D[v] = 0 <=> v = s) /\ (D[v] < 0 => D[v] = Path!INF) /\ D[v] <= n
  /\ \A x \in 1 .. n : D[x] >= 0 => \A y \in Succ(g, x) : D[y] >= 0 /\ D[y] <= D[x] + 1
  /\ \A y \in 1 .. n : D[y] > 0 => \E x \in 1 .. n : D[x] = D[y] - 1 /\ y \in Succ(g, x)

DistancesOf(g, n, s) == [v \in 1 .. n |-> Path!Dist(g, s, v)]

\* The first k for which v is within k arcs.
FirstAt(b, n, v, k) == k \in 0 .. n /\ v \in b[k] /\ \A j \in 0 .. n : v \in b[j] => k <= j

LEMMA DistIs ==
  ASSUME NEW g, NEW n \in Nat, IsGraph(g, n), NEW s \in 1 .. n, NEW v \in 1 .. n
  PROVE  LET b == Path!Within(g, s)
         IN  \/ Path!Dist(g, s, v) = Path!INF /\ \A k \in 0 .. n : v \notin b[k]
             \/ FirstAt(b, n, v, Path!Dist(g, s, v))
  <1> DEFINE b == Path!Within(g, s)
             hops == {k \in DOMAIN b : v \in b[k]}
  <1>1. Path!Dist(g, s, v) = IF hops = {} THEN Path!INF ELSE Path!Min(hops)
    BY DEF Path!Dist
  <1>2. DOMAIN b = 0 .. n
    BY WithinIs
  <1> HIDE DEF b
  <1>3. hops \in SUBSET Nat
    BY <1>2
  <1>4. CASE hops = {}
    BY <1>1, <1>2, <1>4 DEF b
  <1>5. CASE hops # {}
    <2> HIDE DEF hops
    <2>1. \E m \in hops : \A k \in hops : m <= k
      BY <1>3, <1>5, HasLeast
    <2>2. Path!Min(hops) \in hops /\ \A k \in hops : Path!Min(hops) <= k
      BY <2>1 DEF Path!Min
    <2>3. FirstAt(b, n, v, Path!Min(hops))
      BY <1>2, <2>2 DEF hops, FirstAt
    <2>4. QED
      BY <1>1, <1>5, <2>3 DEF b
  <1>6. QED
    BY <1>4, <1>5

\* One more arc leads from a vertex within k arcs to one within k + 1.
LEMMA FirstNext ==
  ASSUME NEW g, NEW n \in Nat, IsGraph(g, n), NEW s \in 1 .. n,
         NEW y \in 1 .. n, NEW k \in 1 .. n, FirstAt(Path!Within(g, s), n, y, k)
  PROVE  \E x \in 1 .. n : FirstAt(Path!Within(g, s), n, x, k - 1) /\ y \in Succ(g, x)
  <1> DEFINE b == Path!Within(g, s)
  <1>1. /\ b[0] = {s} /\ \A j \in 1 .. n : b[j] = Widened(g, b[j - 1])
        /\ \A j \in 0 .. n : b[j] \in SUBSET (1 .. n)
    BY WithinIs
  <1>2. FirstAt(b, n, y, k)
    OBVIOUS
  <1> HIDE DEF b
  <1>3. k - 1 \in 0 .. n /\ ~(k <= k - 1)
    OBVIOUS
  <1>4. y \in b[k] /\ y \notin b[k - 1]
    BY <1>2, <1>3 DEF FirstAt
  <1>5. PICK x \in b[k - 1] : y \in Succ(g, x)
    BY <1>1, <1>4 DEF Widened, Succ
  <1>6. x \in 1 .. n
    BY <1>1, <1>3, <1>5
  <1>7. ASSUME NEW j \in 0 .. n, x \in b[j] PROVE k - 1 <= j
    <2>1. SUFFICES ASSUME j < k - 1 PROVE FALSE
      OBVIOUS
    <2>2. j + 1 \in 1 .. n /\ (j + 1) - 1 = j /\ j + 1 \in 0 .. n /\ ~(k <= j + 1)
      BY <2>1
    <2>3. y \in b[j + 1]
      BY <1>1, <1>5, <1>7, <2>2 DEF Widened, Succ
    <2>4. QED
      BY <1>2, <2>2, <2>3 DEF FirstAt
  <1>8. QED
    BY <1>3, <1>5, <1>6, <1>7 DEF FirstAt, b

(* There are no more distances than there are vertices.                    *)
LEMMA NoneIsFarther ==
  ASSUME NEW n \in Nat, NEW D \in [1 .. n -> Int],
         \A y \in 1 .. n : D[y] > 0 => \E x \in 1 .. n : D[x] = D[y] - 1
  PROVE  \A v \in 1 .. n : D[v] < n
  <1>1. SUFFICES ASSUME NEW v \in 1 .. n, ~(D[v] < n)
                 PROVE  FALSE
    OBVIOUS
  <1>2. D[v] \in Nat /\ D[v] >= n
    BY <1>1
  <1> DEFINE S == {j \in Nat : j <= D[v] => \E w \in 1 .. n : D[w] = D[v] - j}
  <1>3. 0 \in S
    BY <1>2
  <1>4. ASSUME NEW j \in S PROVE j + 1 \in S
    <2>1. CASE j + 1 <= D[v]
      <3>1. PICK w \in 1 .. n : D[w] = D[v] - j
        BY <1>2, <2>1
      <3>2. D[w] > 0
        BY <1>2, <2>1, <3>1
      <3>3. PICK x \in 1 .. n : D[x] = D[w] - 1
        BY <3>2
      <3>4. D[x] = D[v] - (j + 1)
        BY <1>2, <3>1, <3>3
      <3>5. QED
        BY <3>4
    <2>2. CASE ~(j + 1 <= D[v])
      BY <2>2
    <2>3. QED
      BY <2>1, <2>2
  <1>5. S \in SUBSET Nat
    OBVIOUS
  <1> HIDE DEF S
  <1>6. S = Nat
    BY <1>3, <1>4, <1>5, EveryNat
  <1>7. \A j \in 0 .. n : \E w \in 1 .. n : D[w] = j
    <2>1. SUFFICES ASSUME NEW j \in 0 .. n
                   PROVE  \E w \in 1 .. n : D[w] = j
      OBVIOUS
    <2>2. D[v] - j \in Nat /\ D[v] - j <= D[v] /\ D[v] - (D[v] - j) = j
      BY <1>2
    <2>3. D[v] - j \in S
      BY <1>6, <2>2
    <2>4. QED
      BY <2>2, <2>3 DEF S
  <1> DEFINE at == [j \in 0 .. n |-> CHOOSE w \in 1 .. n : D[w] = j]
  <1>8. \A j \in 0 .. n : at[j] \in 1 .. n /\ D[at[j]] = j
    BY <1>7
  <1>9. at \in Injection(0 .. n, 1 .. n)
    <2>1. at \in [0 .. n -> 1 .. n]
      BY <1>8
    <2> HIDE DEF at
    <2>2. \A i, j \in 0 .. n : at[i] = at[j] => i = j
      BY <1>8
    <2>3. QED
      BY <2>1, <2>2, Fun_IsInj
  <1>10. /\ IsFiniteSet(1 .. n) /\ Cardinality(1 .. n) = n /\ Cardinality(0 .. n) = n + 1
    BY FS_Interval
  <1> HIDE DEF at
  <1>11. Cardinality(0 .. n) <= Cardinality(1 .. n)
    BY <1>9, <1>10, FS_Injection
  <1>12. QED
    BY <1>10, <1>11

LEMMA DistancesAre ==
  ASSUME NEW g, NEW n \in Nat, IsGraph(g, n), NEW s \in 1 .. n
  PROVE  Distances(DistancesOf(g, n, s), g, n, s)
  <1> DEFINE D == DistancesOf(g, n, s)
             b == Path!Within(g, s)
  <1>1. /\ b[0] = {s} /\ \A j \in 1 .. n : b[j] = Widened(g, b[j - 1])
    BY WithinIs, SMTT(30)
  <1>2. \A v \in 1 .. n : \/ D[v] = Path!INF /\ \A k \in 0 .. n : v \notin b[k]
                          \/ FirstAt(b, n, v, D[v])
    BY DistIs DEF DistancesOf
  <1>3. D \in [1 .. n -> Int] /\ \A v \in 1 .. n : D[v] = Path!INF \/ D[v] \in 0 .. n
    <2>1. \A v \in 1 .. n : D[v] = Path!INF \/ D[v] \in 0 .. n
      BY <1>2 DEF FirstAt
    <2>2. Path!INF \in Int
      BY DEF Path!INF
    <2>3. \A v \in 1 .. n : D[v] \in Int
      BY <2>1, <2>2
    <2>4. D = [v \in 1 .. n |-> D[v]]
      BY DEF DistancesOf
    <2> HIDE DEF D
    <2>5. QED
      BY <2>1, <2>3, <2>4
  <1> HIDE DEF D
  <1>4. \A v \in 1 .. n : D[v] >= 0 <=> FirstAt(b, n, v, D[v])
    BY <1>2, <1>3 DEF FirstAt, Path!INF
  <1>5. ASSUME NEW y \in 1 .. n, D[y] > 0
        PROVE  \E x \in 1 .. n : D[x] = D[y] - 1 /\ y \in Succ(g, x)
    <2>1. D[y] \in 1 .. n /\ FirstAt(b, n, y, D[y])
      BY <1>3, <1>4, <1>5 DEF Path!INF
    <2>2. PICK x \in 1 .. n : FirstAt(b, n, x, D[y] - 1) /\ y \in Succ(g, x)
      BY <2>1, FirstNext
    <2>3. D[x] = D[y] - 1
      <3>1. FirstAt(b, n, x, D[x])
        BY <1>2, <2>2 DEF FirstAt
      <3>2. D[x] \in 0 .. n /\ D[y] - 1 \in 0 .. n /\ D[x] <= D[y] - 1 /\ D[y] - 1 <= D[x]
        BY <2>2, <3>1 DEF FirstAt
      <3>3. QED
        BY <3>2
    <2>4. QED
      BY <2>2, <2>3
  <1>6. \A v \in 1 .. n : D[v] < n
    <2>1. \A y \in 1 .. n : D[y] > 0 => \E x \in 1 .. n : D[x] = D[y] - 1
      BY <1>5
    <2>2. QED
      BY <1>3, <2>1, NoneIsFarther
  <1>7. ASSUME NEW x \in 1 .. n, D[x] >= 0, NEW y \in Succ(g, x)
        PROVE  D[y] >= 0 /\ D[y] <= D[x] + 1
    <2>1. y \in 1 .. n
      BY SuccIs
    <2>2. D[x] \in 0 .. n /\ D[x] < n /\ x \in b[D[x]]
      BY <1>3, <1>4, <1>6, <1>7 DEF FirstAt
    <2>3. D[x] + 1 \in 1 .. n /\ (D[x] + 1) - 1 = D[x] /\ D[x] + 1 \in 0 .. n
      BY <2>2
    <2>4. y \in b[D[x] + 1]
      BY <1>1, <2>2, <2>3 DEF Widened, Succ
    <2>5. FirstAt(b, n, y, D[y])
      BY <1>2, <2>1, <2>3, <2>4
    <2>6. QED
      BY <2>3, <2>4, <2>5 DEF FirstAt
  <1>8. ASSUME NEW v \in 1 .. n PROVE D[v] = 0 <=> v = s
    <2>1. 0 \in 0 .. n
      OBVIOUS
    <2>2. ASSUME D[v] = 0 PROVE v = s
      BY <1>1, <1>4, <2>2 DEF FirstAt
    <2>3. ASSUME v = s PROVE D[v] = 0
      <3>1. v \in b[0]
        BY <1>1, <2>3
      <3>2. FirstAt(b, n, v, D[v])
        BY <1>2, <2>1, <3>1
      <3>3. D[v] \in 0 .. n /\ D[v] <= 0
        BY <2>1, <3>1, <3>2 DEF FirstAt
      <3>4. QED
        BY <3>3
    <2>4. QED
      BY <2>2, <2>3
  <1>9. \A v \in 1 .. n : (D[v] < 0 => D[v] = Path!INF) /\ D[v] <= n
    BY <1>3, <1>6
  <1>10. QED
    BY <1>3, <1>5, <1>7, <1>8, <1>9 DEF Distances, D

(* Entering arcs and edges                                                 *)
LEMMA NewGraphIs ==
  ASSUME NEW n \in Nat
  PROVE  /\ IsGraph(Path!newGraph(n), n) /\ Path!newGraph(n).source = 0
         /\ Path!newGraph(n).neighbors = [v \in 1 .. n |-> <<>>]
  <1>1. <<>> \in Seq(1 .. n) /\ "WHITE" \in Colors /\ 0 \in 0 .. n /\ Path!INF \in Int
    BY DEF Colors, Path!INF
  <1>2. /\ Path!All(n, <<>>) \in [1 .. n -> Seq(1 .. n)]
        /\ Path!All(n, "WHITE") \in [1 .. n -> Colors]
        /\ Path!All(n, 0) \in [1 .. n -> 0 .. n]
        /\ Path!All(n, Path!INF) \in [1 .. n -> Int]
    BY <1>1 DEF Path!All
  <1>3. QED
    BY <1>2, <1>1 DEF IsGraph, Path!newGraph, Path!NIL, Path!All

\* h is g with y in the list of x.
HasArc(h, g, n, x, y) ==
  /\ IsGraph(h, n)
  /\ \E at : /\ Behind(g.neighbors[x], y, at)
             /\ h.neighbors = [g.neighbors EXCEPT ![x] = Inserted(g.neighbors[x], at, y)]

LEMMA AddArcIs ==
  ASSUME NEW g, NEW n \in Nat, IsGraph(g, n), NEW x \in 1 .. n, NEW y \in 1 .. n
  PROVE  HasArc(Path!addArc(g, x, y), g, n, x, y)
  <1> DEFINE L == g.neighbors[x]
             S == {0} \cup {k \in DOMAIN L : L[k] <= y}
             at == Path!Max(S)
             h == Path!addArc(g, x, y)
  <1>1. g.neighbors \in [1 .. n -> Seq(1 .. n)] /\ g.size \in Int
    BY DEF IsGraph
  <1>2. L \in Seq(1 .. n) /\ Len(L) \in Nat /\ DOMAIN L = 1 .. Len(L)
    <2>1. L \in Seq(1 .. n)
      BY <1>1
    <2>2. QED
      BY <2>1, LenProperties
  <1>3. S \in SUBSET Nat /\ 0 \in S /\ \A k \in S : k <= Len(L)
    BY <1>2
  <1>4. \E m \in S : \A k \in S : m >= k
    <2> HIDE DEF S
    <2>1. QED
      BY <1>2, <1>3, HasGreatest
  <1>5. at \in S /\ \A k \in S : at >= k
    BY <1>4 DEF Path!Max
  <1> HIDE DEF at, L
  <1>6. Behind(L, y, at)
    <2>1. at \in 0 .. Len(L) /\ (at > 0 => L[at] <= y)
      BY <1>2, <1>3, <1>5
    <2>2. ASSUME at < Len(L), L[at + 1] <= y PROVE FALSE
      <3>1. at + 1 \in DOMAIN L /\ ~(at >= at + 1)
        BY <1>2, <2>1, <2>2
      <3>2. at + 1 \in S
        BY <2>2, <3>1
      <3>3. QED
        BY <1>5, <3>1, <3>2
    <2>3. QED
      BY <2>1, <2>2 DEF Behind
  <1>7. h = [g EXCEPT !.neighbors[x] = Inserted(L, at, y), !.size = @ + 1]
    <2>1. at \in Nat /\ (at + 1) - 1 = at
      BY <1>3, <1>5
    <2>2. h = [g EXCEPT !.neighbors[x] = Path!InsertAt(L, at + 1, y), !.size = @ + 1]
      BY DEF Path!addArc, L, at
    <2>3. Path!InsertAt(L, at + 1, y) = Inserted(L, at, y)
      BY DEF Path!InsertAt, Inserted
    <2>4. QED
      BY <2>2, <2>3
  <1> HIDE DEF S, h
  <1>8. Inserted(L, at, y) \in Seq(1 .. n)
    <2>1. at \in 0 .. Len(L)
      BY <1>6 DEF Behind
    <2>2. PICK T : T = 1 .. n
      OBVIOUS
    <2>3. L \in Seq(T) /\ y \in T
      BY <1>2, <2>2
    <2>4. Inserted(L, at, y) \in Seq(T)
      BY <2>1, <2>3, InsertedIs
    <2>5. QED
      BY <2>2, <2>4
  <1>9. /\ h.neighbors = [g.neighbors EXCEPT ![x] = Inserted(L, at, y)]
        /\ IsGraph(h, n)
    <2> DEFINE nb == [g.neighbors EXCEPT ![x] = Inserted(L, at, y)]
    <2>1. nb \in [1 .. n -> Seq(1 .. n)]
      BY <1>1, <1>8
    <2>2. g.size + 1 \in Int
      BY <1>1
    <2> HIDE DEF nb
    <2>3. h = [g EXCEPT !.neighbors = nb, !.size = g.size + 1]
      BY <1>7 DEF nb, IsGraph
    <2>4. h.neighbors = nb /\ IsGraph(h, n)
      BY <2>1, <2>2, <2>3 DEF IsGraph
    <2>5. QED
      BY <2>4 DEF nb
  <1>10. QED
    BY <1>6, <1>9 DEF HasArc, h, L

\* The lists are in ascending order.
Ascends(L) == \A k \in 2 .. Len(L) : L[k - 1] <= L[k]
Ascending(g, n) == \A x \in 1 .. n : Ascends(g.neighbors[x])

LEMMA StaysAscending ==
  ASSUME NEW g, NEW h, NEW n \in Nat, IsGraph(g, n), NEW x \in 1 .. n, NEW y \in 1 .. n,
         HasArc(h, g, n, x, y), Ascending(g, n)
  PROVE  Ascending(h, n)
  <1>1. PICK at : /\ Behind(g.neighbors[x], y, at)
                  /\ h.neighbors = [g.neighbors EXCEPT ![x] = Inserted(g.neighbors[x], at, y)]
    BY DEF HasArc
  <1>2. g.neighbors \in [1 .. n -> Seq(1 .. n)]
    BY DEF IsGraph
  <1>3. PICK L \in Seq(1 .. n) : L = g.neighbors[x]
    BY <1>2
  <1>4. PICK M : M = Inserted(L, at, y)
    OBVIOUS
  <1>5. Len(L) \in Nat /\ Behind(L, y, at) /\ at \in 0 .. Len(L)
    BY <1>1, <1>3, LenProperties DEF Behind
  <1>6. \A i \in 1 .. Len(L) : L[i] \in Int
    <2>1. \A i \in 1 .. Len(L) : L[i] \in 1 .. n
      BY ElementOfSeq
    <2>2. QED
      BY <2>1
  <1>7. Rises(L, 0)
    <2>1. ASSUME NEW k \in 2 .. Len(L) PROVE L[k - 1] + 0 <= L[k]
      <3>1. L[k - 1] <= L[k]
        BY <1>3 DEF Ascending, Ascends
      <3>2. k - 1 \in 1 .. Len(L)
        BY <1>5
      <3>3. L[k - 1] \in Int
        BY <1>6, <3>2
      <3>4. QED
        BY <3>1, <3>3
    <2>2. QED
      BY <2>1 DEF Rises
  <1>8. (at > 0 => L[at] + 0 <= y) /\ (at < Len(L) => y + 0 <= L[at + 1])
    <2>1. ASSUME at > 0 PROVE L[at] + 0 <= y
      <3>1. at \in 1 .. Len(L)
        BY <1>5, <2>1
      <3>2. L[at] \in Int /\ L[at] <= y
        BY <1>5, <1>6, <2>1, <3>1 DEF Behind
      <3>3. QED
        BY <3>2
    <2>2. ASSUME at < Len(L) PROVE y + 0 <= L[at + 1]
      <3>1. at + 1 \in 1 .. Len(L)
        BY <1>5, <2>2
      <3>2. L[at + 1] \in Int /\ ~(L[at + 1] <= y)
        BY <1>5, <1>6, <2>2, <3>1 DEF Behind
      <3>3. QED
        BY <3>2
    <2>3. QED
      BY <2>1, <2>2
  <1>9. Rises(M, 0)
    BY <1>4, <1>5, <1>7, <1>8, StaysRising
  <1>10. Ascends(M)
    <2>1. M \in Seq(1 .. n)
      <3>1. PICK T : T = 1 .. n
        OBVIOUS
      <3>2. L \in Seq(T) /\ y \in T
        BY <3>1
      <3>3. M \in Seq(T)
        BY <1>4, <1>5, <3>2, InsertedIs
      <3>4. QED
        BY <3>1, <3>3
    <2>2. ASSUME NEW k \in 2 .. Len(M) PROVE M[k - 1] <= M[k]
      <3>1. k - 1 \in 1 .. Len(M)
        BY <2>1, LenProperties
      <3>2. M[k - 1] \in 1 .. n
        BY <2>1, <3>1, ElementOfSeq
      <3>3. M[k - 1] + 0 <= M[k]
        BY <1>9 DEF Rises
      <3>4. QED
        BY <3>2, <3>3
    <2>3. QED
      BY <2>2 DEF Ascends
  <1>11. QED
    <2>1. SUFFICES ASSUME NEW v \in 1 .. n
                   PROVE  Ascends(h.neighbors[v])
      BY DEF Ascending
    <2>2. h.neighbors[v] = IF v = x THEN M ELSE g.neighbors[v]
      BY <1>1, <1>2, <1>3, <1>4
    <2>3. QED
      BY <1>10, <2>2 DEF Ascending

(* How often an element occurs.                                            *)
Places(s, b) == {k \in DOMAIN s : s[k] = b}
Count(s, b)  == Cardinality(Places(s, b))

LEMMA CountIs ==
  ASSUME NEW S, NEW s \in Seq(S), NEW b
  PROVE  IsFiniteSet(Places(s, b)) /\ Count(s, b) \in Nat
  <1>1. DOMAIN s = 1 .. Len(s) /\ Len(s) \in Nat
    BY LenProperties
  <1>2. IsFiniteSet(1 .. Len(s)) /\ Places(s, b) \in SUBSET (1 .. Len(s))
    BY <1>1, FS_Interval DEF Places
  <1>3. QED
    BY <1>2, FS_Subset, FS_CardinalityType DEF Count

LEMMA InsertedCount ==
  ASSUME NEW S, NEW s \in Seq(S), NEW at \in 0 .. Len(s), NEW d \in S, NEW b
  PROVE  Count(Inserted(s, at, d), b) = Count(s, b) + IF b = d THEN 1 ELSE 0
  <1> DEFINE M == Inserted(s, at, d)
             A == Places(s, b)
             C == Places(M, b)
             f == [k \in A |-> IF k <= at THEN k ELSE k + 1]
  <1>1. DOMAIN s = 1 .. Len(s) /\ Len(s) \in Nat
    BY LenProperties
  <1>2. M \in Seq(S) /\ Len(M) = Len(s) + 1
    BY InsertedIs
  <1>3. \A i \in 1 .. (Len(s) + 1) :
          M[i] = IF i <= at THEN s[i] ELSE IF i = at + 1 THEN d ELSE s[i - 1]
    BY InsertedIs
  <1>4. DOMAIN M = 1 .. (Len(s) + 1)
    BY <1>1, <1>2, LenProperties
  <1>5. IsFiniteSet(A) /\ Cardinality(A) \in Nat
    BY CountIs DEF Count
  <1> HIDE DEF M
  <1>6. \A k \in A : k \in 1 .. Len(s) /\ s[k] = b
    BY <1>1 DEF Places
  <1>7. ASSUME NEW k \in A PROVE f[k] \in C \ {at + 1}
    <2>1. CASE k <= at
      <3>1. k \in 1 .. (Len(s) + 1) /\ k # at + 1
        BY <1>1, <1>6, <2>1
      <3>2. M[k] = s[k]
        BY <1>3, <2>1, <3>1
      <3>3. QED
        BY <1>4, <1>6, <2>1, <3>1, <3>2 DEF Places
    <2>2. CASE ~(k <= at)
      <3>1. /\ k + 1 \in 1 .. (Len(s) + 1) /\ k + 1 # at + 1 /\ ~(k + 1 <= at)
            /\ (k + 1) - 1 = k
        BY <1>1, <1>6, <2>2
      <3>2. M[k + 1] = s[k]
        BY <1>3, <3>1
      <3>3. QED
        BY <1>4, <1>6, <2>2, <3>1, <3>2 DEF Places
    <2>3. QED
      BY <2>1, <2>2
  <1>8. ASSUME NEW i \in C \ {at + 1} PROVE \E k \in A : f[k] = i
    <2>1. i \in 1 .. (Len(s) + 1) /\ M[i] = b /\ i # at + 1
      BY <1>4 DEF Places
    <2>2. CASE i <= at
      <3>1. i \in 1 .. Len(s) /\ s[i] = b
        BY <1>1, <1>3, <2>1, <2>2
      <3>2. i \in A
        BY <1>1, <3>1 DEF Places
      <3>3. QED
        BY <2>2, <3>2
    <2>3. CASE ~(i <= at)
      <3>1. i - 1 \in 1 .. Len(s) /\ ~(i - 1 <= at) /\ (i - 1) + 1 = i
        BY <1>1, <2>1, <2>3
      <3>2. s[i - 1] = b
        BY <1>3, <2>1, <2>3
      <3>3. i - 1 \in A
        BY <1>1, <3>1, <3>2 DEF Places
      <3>4. QED
        BY <3>1, <3>3
    <2>4. QED
      BY <2>2, <2>3
  <1>9. \A j, k \in A : f[j] = f[k] => j = k
    BY <1>6
  <1>10. f \in [A -> C \ {at + 1}]
    BY <1>7
  <1>11. Cardinality(C \ {at + 1}) = Cardinality(A) /\ IsFiniteSet(C \ {at + 1})
    <2> HIDE DEF f, A, C
    <2>1. f \in Bijection(A, C \ {at + 1})
      BY <1>8, <1>9, <1>10, Fun_IsBij
    <2>2. ExistsBijection(A, C \ {at + 1})
      BY <2>1 DEF ExistsBijection
    <2>3. QED
      BY <1>5, <2>2, FS_Bijection
  <1>12. at + 1 \in DOMAIN M /\ M[at + 1] = d
    <2>1. at + 1 \in 1 .. (Len(s) + 1) /\ ~(at + 1 <= at)
      BY <1>1
    <2>2. QED
      BY <1>3, <1>4, <2>1
  <1>13. CASE b = d
    <2>1. at + 1 \in C /\ C = (C \ {at + 1}) \cup {at + 1} /\ at + 1 \notin C \ {at + 1}
      BY <1>12, <1>13 DEF Places
    <2> DEFINE R == C \ {at + 1}
    <2>2. IsFiniteSet(R) /\ at + 1 \notin R /\ C = R \cup {at + 1} /\ Cardinality(R) = Cardinality(A)
      BY <1>11, <2>1
    <2> HIDE DEF A, C, R
    <2>3. Cardinality(C) = Cardinality(R) + 1
      BY <2>2, FS_AddElement
    <2>4. QED
      BY <1>13, <2>2, <2>3 DEF Count, A, C, M
  <1>14. CASE b # d
    <2>1. C = C \ {at + 1}
      BY <1>12, <1>14 DEF Places
    <2>2. Cardinality(C) = Cardinality(A)
      BY <1>11, <2>1
    <2>3. QED
      BY <1>5, <1>14, <2>2 DEF Count, M
  <1>15. QED
    BY <1>13, <1>14

LEMMA OccursIs ==
  ASSUME NEW g, NEW x, NEW y
  PROVE  Path!Occurs(g, x, y) = Count(g.neighbors[x], y)
  BY DEF Path!Occurs, Count, Places, Path!Cardinality, Cardinality

OneIf(p) == IF p THEN 1 ELSE 0

LEMMA OccursAfter ==
  ASSUME NEW g, NEW h, NEW n \in Nat, IsGraph(g, n), NEW x \in 1 .. n, NEW y \in 1 .. n,
         HasArc(h, g, n, x, y)
  PROVE  \A a, b \in 1 .. n :
           /\ Count(h.neighbors[a], b) = Count(g.neighbors[a], b) + OneIf(a = x /\ b = y)
           /\ Count(g.neighbors[a], b) \in Nat
  <1>0. SUFFICES ASSUME NEW a \in 1 .. n, NEW b \in 1 .. n
                 PROVE  /\ Count(h.neighbors[a], b)
                             = Count(g.neighbors[a], b) + OneIf(a = x /\ b = y)
                        /\ Count(g.neighbors[a], b) \in Nat
    OBVIOUS
  <1>1. PICK at : /\ Behind(g.neighbors[x], y, at)
                  /\ h.neighbors = [g.neighbors EXCEPT ![x] = Inserted(g.neighbors[x], at, y)]
    BY DEF HasArc
  <1>2. g.neighbors \in [1 .. n -> Seq(1 .. n)]
    BY DEF IsGraph
  <1>3. h.neighbors[a] = IF a = x THEN Inserted(g.neighbors[x], at, y) ELSE g.neighbors[a]
    BY <1>1, <1>2
  <1>4. /\ g.neighbors[a] \in Seq(1 .. n) /\ g.neighbors[x] \in Seq(1 .. n)
        /\ at \in 0 .. Len(g.neighbors[x])
    BY <1>1, <1>2 DEF Behind
  <1>5. Count(g.neighbors[a], b) \in Nat
    BY <1>4, CountIs
  <1>6. CASE a = x
    <2>1. PICK S, s : S = 1 .. n /\ s = g.neighbors[x]
      OBVIOUS
    <2>2. s \in Seq(S) /\ at \in 0 .. Len(s) /\ y \in S
      BY <1>4, <2>1
    <2>3. Count(Inserted(s, at, y), b) = Count(s, b) + IF b = y THEN 1 ELSE 0
      BY <2>2, InsertedCount
    <2>4. QED
      BY <1>3, <1>5, <1>6, <2>1, <2>3 DEF OneIf
  <1>7. CASE a # x
    BY <1>3, <1>5, <1>7 DEF OneIf
  <1>8. QED
    BY <1>5, <1>6, <1>7

\* An edge is entered at both its ends as often.
Symmetric(g, n) == \A x, y \in 1 .. n : Count(g.neighbors[x], y) = Count(g.neighbors[y], x)

LEMMA AddEdgeIs ==
  ASSUME NEW g, NEW n \in Nat, IsGraph(g, n), Ascending(g, n),
         NEW x \in 1 .. n, NEW y \in 1 .. n
  PROVE  LET h == Path!addEdge(g, x, y)
         IN  /\ IsGraph(h, n) /\ Ascending(h, n)
             /\ Symmetric(g, n) => Symmetric(h, n)
  <1> DEFINE e == IF x = y THEN Path!addArc(g, x, y) ELSE Path!addArc(Path!addArc(g, x, y), y, x)
             h == Path!addEdge(g, x, y)
  <1>1. h = [e EXCEPT !.size = @ - 1]
    BY DEF Path!addEdge
  <1>2. /\ IsGraph(e, n) /\ Ascending(e, n)
        /\ Symmetric(g, n) => Symmetric(e, n)
    <2>1. PICK f : f = Path!addArc(g, x, y)
      OBVIOUS
    <2>2. HasArc(f, g, n, x, y) /\ IsGraph(f, n)
      <3>1. HasArc(f, g, n, x, y)
        BY <2>1, AddArcIs
      <3>2. QED
        BY <3>1 DEF HasArc
    <2>3. \A a, b \in 1 .. n :
            /\ Count(f.neighbors[a], b) = Count(g.neighbors[a], b) + OneIf(a = x /\ b = y)
            /\ Count(g.neighbors[a], b) \in Nat
      BY <2>2, OccursAfter
    <2>4. Ascending(f, n)
      BY <2>2, StaysAscending
    <2>5. CASE x = y
      <3>1. e = f
        BY <2>1, <2>5
      <3>2. ASSUME Symmetric(g, n) PROVE Symmetric(f, n)
        <4>1. SUFFICES ASSUME NEW a \in 1 .. n, NEW b \in 1 .. n
                       PROVE  Count(f.neighbors[a], b) = Count(f.neighbors[b], a)
          BY DEF Symmetric
        <4>2. Count(f.neighbors[a], b) = Count(g.neighbors[a], b) + OneIf(a = x /\ b = y)
          BY <2>3
        <4>3. Count(f.neighbors[b], a) = Count(g.neighbors[b], a) + OneIf(b = x /\ a = y)
          BY <2>3
        <4>4. Count(g.neighbors[a], b) = Count(g.neighbors[b], a)
          BY <3>2 DEF Symmetric
        <4>5. QED
          BY <2>5, <4>2, <4>3, <4>4 DEF OneIf
      <3>3. QED
        BY <2>2, <2>4, <3>1, <3>2
    <2>6. CASE x # y
      <3>1. PICK k : k = Path!addArc(f, y, x)
        OBVIOUS
      <3>2. HasArc(k, f, n, y, x) /\ IsGraph(k, n)
        <4>1. HasArc(k, f, n, y, x)
          BY <2>2, <3>1, AddArcIs
        <4>2. QED
          BY <4>1 DEF HasArc
      <3>3. \A a, b \in 1 .. n :
              Count(k.neighbors[a], b) = Count(f.neighbors[a], b) + OneIf(a = y /\ b = x)
        BY <2>2, <3>2, OccursAfter
      <3>4. Ascending(k, n)
        BY <2>2, <2>4, <3>2, StaysAscending
      <3>5. e = k
        BY <2>1, <2>6, <3>1
      <3>6. ASSUME Symmetric(g, n) PROVE Symmetric(k, n)
        <4>1. SUFFICES ASSUME NEW a \in 1 .. n, NEW b \in 1 .. n
                       PROVE  Count(k.neighbors[a], b) = Count(k.neighbors[b], a)
          BY DEF Symmetric
        <4>2. /\ Count(f.neighbors[a], b) = Count(g.neighbors[a], b) + OneIf(a = x /\ b = y)
              /\ Count(g.neighbors[a], b) \in Nat
          BY <2>3
        <4>3. Count(f.neighbors[b], a) = Count(g.neighbors[b], a) + OneIf(b = x /\ a = y)
          BY <2>3
        <4>4. Count(k.neighbors[a], b) = Count(f.neighbors[a], b) + OneIf(a = y /\ b = x)
          BY <3>3
        <4>5. Count(k.neighbors[b], a) = Count(f.neighbors[b], a) + OneIf(b = y /\ a = x)
          BY <3>3
        <4>6. Count(g.neighbors[a], b) = Count(g.neighbors[b], a)
          BY <3>6 DEF Symmetric
        <4>7. QED
          BY <2>6, <4>2, <4>3, <4>4, <4>5, <4>6 DEF OneIf
      <3>7. QED
        BY <3>2, <3>4, <3>5, <3>6
    <2>7. QED
      BY <2>5, <2>6
  <1> HIDE DEF e, h
  <1>3. h.neighbors = e.neighbors /\ IsGraph(h, n)
    <2>1. e.size \in Int /\ e.size - 1 \in Int
      BY <1>2 DEF IsGraph
    <2>2. QED
      BY <1>1, <1>2, <2>1 DEF IsGraph
  <1>4. QED
    BY <1>2, <1>3 DEF Ascending, Symmetric, h

(* Breadth-first search                                                    *)

\* What BFS has found out: of the vertices that it has coloured the distance,
\* and a parent one arc closer; of the others nothing.
Found(g, D, n) ==
  /\ g.source \in 1 .. n /\ Distances(D, g, n, g.source)
  /\ g.color[g.source] # "WHITE" /\ g.parent[g.source] = 0
  /\ \A v \in 1 .. n : g.color[v] = "WHITE" =>
       g.distance[v] = Path!INF /\ g.parent[v] = 0
  /\ \A v \in 1 .. n : g.color[v] # "WHITE" =>
       /\ g.distance[v] = D[v] /\ D[v] >= 0
       /\ v # g.source =>
            /\ g.parent[v] \in 1 .. n /\ g.color[g.parent[v]] # "WHITE"
            /\ D[v] = D[g.parent[v]] + 1 /\ v \in Succ(g, g.parent[v])

\* The gray vertices wait in line, in order of distance.
InLine(g, D, n, q) ==
  /\ q \in Seq(1 .. n)
  /\ \A j, k \in DOMAIN q : q[j] = q[k] => j = k
  /\ \A v \in 1 .. n : g.color[v] = "GRAY" <=> \E k \in DOMAIN q : q[k] = v
  /\ \A j, k \in DOMAIN q : j < k => D[q[j]] <= D[q[k]] /\ D[q[k]] <= D[q[j]] + 1

\* No arc leads from a black vertex to a white one.
Closed(g, n) ==
  \A x \in 1 .. n : g.color[x] = "BLACK" => \A y \in Succ(g, x) : g.color[y] # "WHITE"

\* Every vertex up to this distance has been found.
Covered(g, D, n, d) == \A w \in 1 .. n : 0 <= D[w] /\ D[w] <= d => g.color[w] # "WHITE"

\* A search under way: q is the line, and the vertex that is explored, or the next
\* one to be, is first in it.
Frontier(g, D, n, q) ==
  /\ IsGraph(g, n) /\ Found(g, D, n) /\ Closed(g, n) /\ InLine(g, D, n, q)
  /\ q # <<>> => Covered(g, D, n, D[q[1]])

LEMMA DistanceIsInt ==
  ASSUME NEW D, NEW g, NEW n, NEW s, Distances(D, g, n, s)
  PROVE  \A v \in 1 .. n : D[v] \in Int
  BY DEF Distances

(* The lists alone make the distances.                                     *)
LEMMA SameDistances ==
  ASSUME NEW g, NEW h, NEW n, NEW s, g.neighbors = h.neighbors
  PROVE  /\ DistancesOf(g, n, s) = DistancesOf(h, n, s)
         /\ \A x : Succ(g, x) = Succ(h, x)
         /\ \A D : Distances(D, g, n, s) => Distances(D, h, n, s)
  <1>1. \A x : Succ(g, x) = Succ(h, x)
    BY DEF Succ
  <1>2. Path!Within(g, s) = Path!Within(h, s)
    BY DEF Path!Within
  <1>3. \A v : Path!Dist(g, s, v) = Path!Dist(h, s, v)
    BY <1>2 DEF Path!Dist
  <1>4. DistancesOf(g, n, s) = DistancesOf(h, n, s)
    BY <1>3 DEF DistancesOf
  <1>5. ASSUME NEW D, Distances(D, g, n, s) PROVE Distances(D, h, n, s)
    BY <1>1, <1>5 DEF Distances
  <1>6. QED
    BY <1>1, <1>4, <1>5

LEMMA Starting ==
  ASSUME NEW g, NEW h, NEW n \in Nat, IsGraph(g, n), NEW s \in 1 .. n,
         h = [g EXCEPT !.color = [Path!All(n, "WHITE") EXCEPT ![s] = "GRAY"],
                       !.distance = [Path!All(n, Path!INF) EXCEPT ![s] = 0],
                       !.parent = Path!All(n, Path!NIL), !.source = s]
  PROVE  h.source = s /\ Frontier(h, DistancesOf(h, n, s), n, <<s>>)
  <1>1. /\ [Path!All(n, "WHITE") EXCEPT ![s] = "GRAY"]
             = [v \in 1 .. n |-> IF v = s THEN "GRAY" ELSE "WHITE"]
        /\ [Path!All(n, Path!INF) EXCEPT ![s] = 0]
             = [v \in 1 .. n |-> IF v = s THEN 0 ELSE Path!INF]
        /\ Path!All(n, Path!NIL) = [v \in 1 .. n |-> 0]
    BY DEF Path!All, Path!NIL
  <1>2. /\ h.color = [v \in 1 .. n |-> IF v = s THEN "GRAY" ELSE "WHITE"]
        /\ h.distance = [v \in 1 .. n |-> IF v = s THEN 0 ELSE Path!INF]
        /\ h.parent = [v \in 1 .. n |-> 0]
        /\ h.source = s /\ h.neighbors = g.neighbors
    BY <1>1 DEF IsGraph
  <1>3. IsGraph(h, n)
    <2>1. /\ h.color \in [1 .. n -> Colors] /\ h.distance \in [1 .. n -> Int]
          /\ h.parent \in [1 .. n -> 0 .. n] /\ s \in 0 .. n
      <3>1. "GRAY" \in Colors /\ "WHITE" \in Colors /\ Path!INF \in Int /\ 0 \in 0 .. n
        BY DEF Colors, Path!INF
      <3>2. [v \in 1 .. n |-> IF v = s THEN "GRAY" ELSE "WHITE"] \in [1 .. n -> Colors]
        BY <3>1
      <3>3. [v \in 1 .. n |-> IF v = s THEN 0 ELSE Path!INF] \in [1 .. n -> Int]
        BY <3>1
      <3>4. [v \in 1 .. n |-> 0] \in [1 .. n -> 0 .. n]
        BY <3>1
      <3>5. s \in 0 .. n
        OBVIOUS
      <3>6. h.color \in [1 .. n -> Colors]
        BY <1>2, <3>2
      <3>7. h.distance \in [1 .. n -> Int]
        BY <1>2, <3>3
      <3>8. h.parent \in [1 .. n -> 0 .. n]
        BY <1>2, <3>4
      <3>9. QED
        BY <3>5, <3>6, <3>7, <3>8
    <2>2. h = [g EXCEPT !.color = h.color, !.distance = h.distance, !.parent = h.parent,
                        !.source = s]
      BY <1>1 DEF IsGraph
    <2>3. QED
      BY <1>2, <2>1, <2>2 DEF IsGraph
  <1>4. PICK D : D = DistancesOf(h, n, s)
    OBVIOUS
  <1>5. Distances(D, h, n, s)
    BY <1>3, <1>4, DistancesAre
  <1>6. \A v \in 1 .. n : (D[v] = 0 <=> v = s) /\ D[v] \in Int
    BY <1>5 DEF Distances
  <1>7. Found(h, D, n)
    <2>1. \A v \in 1 .. n : h.color[v] # "WHITE" => v = s
      BY <1>2
    <2>2. \A v \in 1 .. n : h.color[v] = "WHITE" => h.distance[v] = Path!INF /\ h.parent[v] = 0
      BY <1>2
    <2>3. h.color[s] # "WHITE" /\ h.parent[s] = 0 /\ h.distance[s] = 0 /\ D[s] = 0
      BY <1>2, <1>6
    <2>4. QED
      BY <1>2, <1>5, <2>1, <2>2, <2>3 DEF Found
  <1>8. Closed(h, n)
    BY <1>2 DEF Closed
  <1>9. InLine(h, D, n, <<s>>)
    <2>1. <<s>> \in Seq(1 .. n) /\ DOMAIN <<s>> = {1} /\ <<s>>[1] = s
      OBVIOUS
    <2>2. \A v \in 1 .. n : h.color[v] = "GRAY" <=> v = s
      BY <1>2
    <2>3. QED
      BY <2>1, <2>2 DEF InLine
  <1>10. Covered(h, D, n, D[s])
    BY <1>2, <1>6 DEF Covered
  <1>11. QED
    BY <1>2, <1>3, <1>4, <1>7, <1>8, <1>9, <1>10 DEF Frontier

LEMMA Discovering ==
  ASSUME NEW g, NEW h, NEW D, NEW n \in Nat, NEW q, NEW u, NEW v, Frontier(g, D, n, q),
         q # <<>>, q[1] = u, v \in Succ(g, u), g.color[v] = "WHITE",
         h = [g EXCEPT !.color[v] = "GRAY", !.distance[v] = g.distance[u] + 1, !.parent[v] = u]
  PROVE  Frontier(h, D, n, Append(q, v))
  <1>0. /\ IsGraph(g, n) /\ Found(g, D, n) /\ Closed(g, n) /\ InLine(g, D, n, q)
        /\ Covered(g, D, n, D[u]) /\ 1 \in DOMAIN q
    <2>1. InLine(g, D, n, q)
      BY DEF Frontier
    <2>2. 1 \in DOMAIN q
      BY <2>1, LenProperties, EmptySeq DEF InLine
    <2>3. QED
      BY <2>1, <2>2 DEF Frontier
  <1> USE <1>0
  <1>1. /\ q \in Seq(1 .. n) /\ u \in 1 .. n /\ DOMAIN q = 1 .. Len(q) /\ Len(q) \in Nat
        /\ g.color[u] = "GRAY"
    <2>1. q \in Seq(1 .. n)
      BY DEF InLine
    <2>2. DOMAIN q = 1 .. Len(q) /\ Len(q) \in Nat /\ u \in 1 .. n
      BY <2>1, LenProperties, ElementOfSeq
    <2>3. QED
      BY <2>1, <2>2 DEF InLine
  <1>2. v \in 1 .. n
    BY <1>1, SuccIs
  <1>3. /\ g.color \in [1 .. n -> Colors] /\ g.distance \in [1 .. n -> Int]
        /\ g.parent \in [1 .. n -> 0 .. n]
    BY DEF IsGraph
  <1>4. /\ h.color = [g.color EXCEPT ![v] = "GRAY"]
        /\ h.distance = [g.distance EXCEPT ![v] = g.distance[u] + 1]
        /\ h.parent = [g.parent EXCEPT ![v] = u]
        /\ h.source = g.source /\ h.neighbors = g.neighbors
        /\ h = [g EXCEPT !.color = h.color, !.distance = h.distance, !.parent = h.parent]
    BY DEF IsGraph
  <1>5. IsGraph(h, n)
    <2>1. g.distance[u] + 1 \in Int /\ "GRAY" \in Colors /\ u \in 0 .. n
      BY <1>1, <1>3 DEF Colors
    <2>2. /\ h.color \in [1 .. n -> Colors] /\ h.distance \in [1 .. n -> Int]
          /\ h.parent \in [1 .. n -> 0 .. n]
      <3>1. [g.color EXCEPT ![v] = "GRAY"] \in [1 .. n -> Colors]
        BY <1>3, <2>1
      <3>2. [g.distance EXCEPT ![v] = g.distance[u] + 1] \in [1 .. n -> Int]
        BY <1>3, <2>1
      <3>3. [g.parent EXCEPT ![v] = u] \in [1 .. n -> 0 .. n]
        BY <1>3, <2>1
      <3>4. QED
        BY <1>4, <3>1, <3>2, <3>3
    <2>3. QED
      BY <1>4, <2>2 DEF IsGraph
  <1>6. /\ \A w \in 1 .. n : h.color[w] = IF w = v THEN "GRAY" ELSE g.color[w]
        /\ \A w \in 1 .. n : h.distance[w] = IF w = v THEN g.distance[u] + 1 ELSE g.distance[w]
        /\ \A w \in 1 .. n : h.parent[w] = IF w = v THEN u ELSE g.parent[w]
    BY <1>2, <1>3, <1>4
  <1>7. \A x : Succ(h, x) = Succ(g, x)
    BY <1>4 DEF Succ
  <1>8. Distances(D, g, n, g.source) /\ Distances(D, h, n, h.source)
    <2>1. Distances(D, g, n, g.source)
      BY DEF Found
    <2>2. Distances(D, h, n, g.source)
      BY <1>7, <2>1 DEF Distances
    <2>3. QED
      BY <1>4, <2>1, <2>2
  <1>9. \A w \in 1 .. n : D[w] \in Int
    BY <1>8, DistanceIsInt
  <1>10. D[v] = D[u] + 1 /\ D[u] >= 0 /\ g.distance[u] = D[u]
    <2>1. D[u] >= 0 /\ g.distance[u] = D[u]
      BY <1>1 DEF Found
    <2>2. D[v] >= 0 /\ D[v] <= D[u] + 1
      BY <1>1, <1>8, <2>1 DEF Distances
    <2>3. ~(D[v] <= D[u])
      BY <1>2, <2>2 DEF Covered
    <2>4. QED
      BY <1>1, <1>2, <1>9, <2>1, <2>2, <2>3
  <1>11. v # g.source /\ v # u
    BY <1>1 DEF Found
  <1>12. Found(h, D, n)
    <2>1. h.color[h.source] # "WHITE" /\ h.parent[h.source] = 0 /\ h.source \in 1 .. n
      BY <1>4, <1>6, <1>11 DEF Found
    <2>2. ASSUME NEW w \in 1 .. n, h.color[w] = "WHITE"
          PROVE  h.distance[w] = Path!INF /\ h.parent[w] = 0
      BY <1>6, <2>2 DEF Found
    <2>3. ASSUME NEW w \in 1 .. n, h.color[w] # "WHITE"
          PROVE  /\ h.distance[w] = D[w] /\ D[w] >= 0
                 /\ w # h.source =>
                      /\ h.parent[w] \in 1 .. n /\ h.color[h.parent[w]] # "WHITE"
                      /\ D[w] = D[h.parent[w]] + 1 /\ w \in Succ(h, h.parent[w])
      <3>1. CASE w = v
        <4>1. h.distance[w] = D[w] /\ D[w] >= 0
          BY <1>1, <1>6, <1>9, <1>10, <3>1
        <4>2. h.parent[w] = u /\ h.color[u] # "WHITE"
          BY <1>1, <1>6, <1>11, <3>1
        <4>3. QED
          BY <1>1, <1>7, <1>10, <3>1, <4>1, <4>2
      <3>2. CASE w # v
        <4>1. g.color[w] # "WHITE" /\ h.distance[w] = g.distance[w] /\ h.parent[w] = g.parent[w]
          BY <1>6, <2>3, <3>2
        <4>2. /\ g.distance[w] = D[w] /\ D[w] >= 0
              /\ w # g.source =>
                   /\ g.parent[w] \in 1 .. n /\ g.color[g.parent[w]] # "WHITE"
                   /\ D[w] = D[g.parent[w]] + 1 /\ w \in Succ(g, g.parent[w])
          BY <4>1 DEF Found
        <4>3. g.parent[w] \in 1 .. n /\ g.color[g.parent[w]] # "WHITE" =>
                h.color[g.parent[w]] # "WHITE"
          BY <1>6
        <4>4. QED
          BY <1>4, <1>7, <4>1, <4>2, <4>3
      <3>3. QED
        BY <3>1, <3>2
    <2>4. QED
      BY <1>8, <2>1, <2>2, <2>3 DEF Found
  <1>13. \A w \in 1 .. n : g.color[w] # "WHITE" => h.color[w] # "WHITE"
    BY <1>6
  <1>14. Closed(h, n)
    <2>1. SUFFICES ASSUME NEW x \in 1 .. n, h.color[x] = "BLACK", NEW y \in Succ(h, x)
                   PROVE  h.color[y] # "WHITE"
      BY DEF Closed
    <2>2. g.color[x] = "BLACK" /\ y \in Succ(g, x)
      BY <1>6, <1>7, <2>1
    <2>3. y \in 1 .. n
      BY <2>2, SuccIs
    <2>4. QED
      BY <1>13, <2>2, <2>3 DEF Closed
  <1>15. Covered(h, D, n, D[u])
    BY <1>13 DEF Covered
  <1>16. InLine(h, D, n, Append(q, v))
    <2> DEFINE r == Append(q, v)
    <2>1. /\ r \in Seq(1 .. n) /\ DOMAIN r = 1 .. (Len(q) + 1)
          /\ r[Len(q) + 1] = v /\ \A k \in 1 .. Len(q) : r[k] = q[k]
      BY <1>1, <1>2
    <2> HIDE DEF r
    <2>2. \A k \in 1 .. Len(q) : q[k] \in 1 .. n /\ g.color[q[k]] = "GRAY" /\ q[k] # v
      <3>1. \A k \in 1 .. Len(q) : q[k] \in 1 .. n
        BY <1>1, ElementOfSeq
      <3>2. QED
        BY <1>1, <3>1 DEF InLine
    <2>3. ASSUME NEW j \in DOMAIN r, NEW k \in DOMAIN r, r[j] = r[k] PROVE j = k
      <3>1. j = Len(q) + 1 \/ j \in 1 .. Len(q)
        BY <1>1, <2>1
      <3>2. k = Len(q) + 1 \/ k \in 1 .. Len(q)
        BY <1>1, <2>1
      <3>3. QED
        BY <1>1, <2>1, <2>2, <2>3, <3>1, <3>2 DEF InLine
    <2>4. ASSUME NEW w \in 1 .. n
          PROVE  h.color[w] = "GRAY" <=> \E k \in DOMAIN r : r[k] = w
      <3>1. CASE w = v
        <4>1. Len(q) + 1 \in DOMAIN r
          BY <1>1, <2>1
        <4>2. QED
          BY <1>6, <2>1, <3>1, <4>1
      <3>2. CASE w # v
        <4>1. h.color[w] = "GRAY" <=> \E k \in 1 .. Len(q) : q[k] = w
          BY <1>1, <1>6, <3>2 DEF InLine
        <4>2. (\E k \in 1 .. Len(q) : q[k] = w) => \E k \in DOMAIN r : r[k] = w
          <5>1. \A k \in 1 .. Len(q) : k \in DOMAIN r
            BY <1>1, <2>1
          <5>2. QED
            BY <2>1, <5>1
        <4>3. ASSUME NEW k \in DOMAIN r, r[k] = w PROVE \E i \in 1 .. Len(q) : q[i] = w
          <5>1. k = Len(q) + 1 \/ k \in 1 .. Len(q)
            BY <1>1, <2>1
          <5>2. k # Len(q) + 1
            BY <2>1, <3>2, <4>3
          <5>3. QED
            BY <2>1, <4>3, <5>1, <5>2
        <4>4. QED
          BY <4>1, <4>2, <4>3
      <3>3. QED
        BY <3>1, <3>2
    <2>5. ASSUME NEW j \in DOMAIN r, NEW k \in DOMAIN r, j < k
          PROVE  D[r[j]] <= D[r[k]] /\ D[r[k]] <= D[r[j]] + 1
      <3>1. j \in 1 .. Len(q) /\ r[j] = q[j]
        BY <1>1, <2>1, <2>5
      <3>2. CASE k \in 1 .. Len(q)
        BY <1>1, <2>1, <2>5, <3>1, <3>2 DEF InLine
      <3>3. CASE k = Len(q) + 1
        <4>1. r[k] = v
          BY <2>1, <3>3
        <4>2. j = 1 \/ 1 < j
          BY <3>1
        <4>3. D[u] <= D[q[j]] /\ D[q[j]] <= D[u] + 1
          <5>1. CASE j = 1
            BY <1>1, <1>9, <5>1
          <5>2. CASE 1 < j
            BY <1>1, <3>1, <5>2 DEF InLine
          <5>3. QED
            BY <4>2, <5>1, <5>2
        <4>4. D[q[j]] \in Int /\ D[u] \in Int
          BY <1>1, <1>9, <2>2, <3>1
        <4>5. QED
          BY <1>10, <3>1, <4>1, <4>3, <4>4
      <3>4. k = Len(q) + 1 \/ k \in 1 .. Len(q)
        BY <1>1, <2>1
      <3>5. QED
        BY <3>2, <3>3, <3>4
    <2>6. QED
      BY <2>1, <2>3, <2>4, <2>5 DEF InLine, r
  <1>17. Append(q, v)[1] = u
    BY <1>0, <1>1, <1>2, AppendProperties
  <1>18. QED
    BY <1>5, <1>12, <1>14, <1>15, <1>16, <1>17 DEF Frontier

LEMMA Finishing ==
  ASSUME NEW g, NEW h, NEW D, NEW n \in Nat, NEW q, NEW u, Frontier(g, D, n, q),
         q # <<>>, q[1] = u,
         \A y \in Succ(g, u) : g.color[y] # "WHITE",
         h = [g EXCEPT !.color[u] = "BLACK"]
  PROVE  Frontier(h, D, n, Tail(q))
  <1>0. /\ IsGraph(g, n) /\ Found(g, D, n) /\ Closed(g, n) /\ InLine(g, D, n, q)
        /\ Covered(g, D, n, D[u])
    BY DEF Frontier
  <1> USE <1>0
  <1>1. /\ q \in Seq(1 .. n) /\ u \in 1 .. n /\ DOMAIN q = 1 .. Len(q) /\ Len(q) \in Nat
        /\ Len(q) >= 1 /\ g.color[u] = "GRAY"
    <2>1. q \in Seq(1 .. n)
      BY DEF InLine
    <2>2. DOMAIN q = 1 .. Len(q) /\ Len(q) \in Nat /\ Len(q) >= 1
      BY <2>1, LenProperties, EmptySeq
    <2>3. 1 \in DOMAIN q /\ u \in 1 .. n
      BY <2>1, <2>2, ElementOfSeq
    <2>4. QED
      BY <2>1, <2>2, <2>3 DEF InLine
  <1>2. g.color \in [1 .. n -> Colors] /\ "BLACK" \in Colors
    BY DEF IsGraph, Colors
  <1>3. /\ h.color = [g.color EXCEPT ![u] = "BLACK"]
        /\ h.distance = g.distance /\ h.parent = g.parent
        /\ h.source = g.source /\ h.neighbors = g.neighbors
        /\ h = [g EXCEPT !.color = h.color]
    BY DEF IsGraph
  <1>4. IsGraph(h, n)
    <2>1. h.color \in [1 .. n -> Colors]
      <3>1. [g.color EXCEPT ![u] = "BLACK"] \in [1 .. n -> Colors]
        BY <1>2
      <3>2. QED
        BY <1>3, <3>1
    <2>2. QED
      BY <1>3, <2>1 DEF IsGraph
  <1>5. \A w \in 1 .. n : h.color[w] = IF w = u THEN "BLACK" ELSE g.color[w]
    BY <1>1, <1>2, <1>3
  <1>6. \A w \in 1 .. n : h.color[w] = "WHITE" <=> g.color[w] = "WHITE"
    BY <1>1, <1>5
  <1>7. \A x : Succ(h, x) = Succ(g, x)
    BY <1>3 DEF Succ
  <1>8. Distances(D, g, n, g.source) /\ Distances(D, h, n, h.source)
    <2>1. Distances(D, g, n, g.source)
      BY DEF Found
    <2>2. Distances(D, h, n, g.source)
      BY <1>7, <2>1 DEF Distances
    <2>3. QED
      BY <1>3, <2>1, <2>2
  <1>9. \A w \in 1 .. n : D[w] \in Int
    BY <1>8, DistanceIsInt
  <1>10. Found(h, D, n)
    BY <1>3, <1>6, <1>7, <1>8 DEF Found
  <1>11. Closed(h, n)
    <2>1. SUFFICES ASSUME NEW x \in 1 .. n, h.color[x] = "BLACK", NEW y \in Succ(h, x)
                   PROVE  h.color[y] # "WHITE"
      BY DEF Closed
    <2>2. y \in Succ(g, x) /\ y \in 1 .. n
      BY <1>7, <2>1, SuccIs
    <2>3. g.color[y] # "WHITE"
      BY <1>5, <2>1, <2>2 DEF Closed
    <2>4. QED
      BY <1>6, <2>2, <2>3
  <1>12. InLine(h, D, n, Tail(q))
    <2> DEFINE r == Tail(q)
    <2>1. /\ r \in Seq(1 .. n) /\ DOMAIN r = 1 .. (Len(q) - 1)
          /\ \A k \in 1 .. (Len(q) - 1) : r[k] = q[k + 1]
      <3>1. r \in Seq(1 .. n) /\ Len(r) = Len(q) - 1 /\ \A k \in 1 .. Len(r) : r[k] = q[k + 1]
        BY <1>1, HeadTailProperties
      <3> HIDE DEF r
      <3>2. QED
        BY <3>1, LenProperties
    <2> HIDE DEF r
    <2>2. \A k \in 1 .. (Len(q) - 1) : k + 1 \in DOMAIN q /\ k + 1 # 1
      BY <1>1
    <2>3. ASSUME NEW j \in DOMAIN r, NEW k \in DOMAIN r, r[j] = r[k] PROVE j = k
      <3>1. j + 1 = k + 1
        BY <2>1, <2>2, <2>3 DEF InLine
      <3>2. QED
        BY <2>1, <3>1
    <2>4. ASSUME NEW w \in 1 .. n
          PROVE  h.color[w] = "GRAY" <=> \E k \in DOMAIN r : r[k] = w
      <3>1. g.color[w] = "GRAY" <=> \E k \in DOMAIN q : q[k] = w
        BY DEF InLine
      <3>2. CASE w = u
        <4>1. \A k \in DOMAIN q : q[k] = u => k = 1
          <5>1. 1 \in DOMAIN q /\ q[1] = u
            BY <1>1
          <5>2. \A j, k \in DOMAIN q : q[j] = q[k] => j = k
            BY DEF InLine
          <5>3. QED
            BY <5>1, <5>2
        <4>2. \A k \in DOMAIN r : r[k] # u
          BY <2>1, <2>2, <4>1
        <4>3. QED
          BY <1>5, <3>2, <4>2
      <3>3. CASE w # u
        <4>1. h.color[w] = "GRAY" <=> \E k \in DOMAIN q : q[k] = w
          BY <1>5, <3>1, <3>3
        <4>2. ASSUME NEW k \in DOMAIN q, q[k] = w PROVE \E i \in DOMAIN r : r[i] = w
          <5>1. k # 1
            BY <3>3, <4>2
          <5>2. k - 1 \in 1 .. (Len(q) - 1) /\ (k - 1) + 1 = k
            BY <1>1, <5>1
          <5>3. QED
            BY <2>1, <4>2, <5>2
        <4>3. ASSUME NEW i \in DOMAIN r, r[i] = w PROVE \E k \in DOMAIN q : q[k] = w
          BY <2>1, <2>2, <4>3
        <4>4. QED
          BY <4>1, <4>2, <4>3
      <3>4. QED
        BY <3>2, <3>3
    <2>5. ASSUME NEW j \in DOMAIN r, NEW k \in DOMAIN r, j < k
          PROVE  D[r[j]] <= D[r[k]] /\ D[r[k]] <= D[r[j]] + 1
      <3>1. j + 1 \in DOMAIN q /\ k + 1 \in DOMAIN q /\ r[j] = q[j + 1] /\ r[k] = q[k + 1]
        BY <2>1, <2>2
      <3>2. j + 1 < k + 1
        BY <2>1, <2>5
      <3>3. QED
        BY <3>1, <3>2 DEF InLine
    <2>6. QED
      BY <2>1, <2>3, <2>4, <2>5 DEF InLine, r
  <1>13. ASSUME Tail(q) # <<>> PROVE Covered(h, D, n, D[Tail(q)[1]])
    <2>1. Tail(q)[1] = q[2] /\ 2 \in DOMAIN q /\ 1 \in DOMAIN q
      <3>1. /\ Tail(q) \in Seq(1 .. n) /\ Len(Tail(q)) = Len(q) - 1
            /\ \A k \in 1 .. Len(Tail(q)) : Tail(q)[k] = q[k + 1]
        BY <1>1, HeadTailProperties
      <3>2. Len(Tail(q)) >= 1
        BY <1>13, <3>1, EmptySeq, LenProperties
      <3>3. Tail(q)[1] = q[1 + 1] /\ Len(q) >= 2
        BY <1>1, <3>1, <3>2
      <3>4. QED
        BY <1>1, <3>3
    <2>2. PICK d : d = q[2]
      OBVIOUS
    <2>3. d \in 1 .. n /\ D[u] <= D[d] /\ D[d] <= D[u] + 1
      <3>1. d \in 1 .. n
        BY <1>1, <2>1, <2>2, ElementOfSeq
      <3>2. QED
        BY <2>1, <2>2, <3>1 DEF InLine
    <2>4. SUFFICES ASSUME NEW w \in 1 .. n, 0 <= D[w], D[w] <= D[d]
                   PROVE  h.color[w] # "WHITE"
      BY <2>1, <2>2 DEF Covered
    <2>5. CASE D[w] <= D[u]
      BY <1>6, <2>4, <2>5 DEF Covered
    <2>6. CASE ~(D[w] <= D[u])
      <3>1. D[w] = D[u] + 1 /\ D[d] = D[u] + 1 /\ D[u] >= 0
        <4>1. D[u] >= 0
          BY <1>1 DEF Found
        <4>2. QED
          BY <1>1, <1>9, <2>3, <2>4, <2>6, <4>1, SMTT(30)
      <3>2. PICK x \in 1 .. n : D[x] = D[w] - 1 /\ w \in Succ(g, x)
        <4>1. D[w] > 0
          BY <1>1, <1>9, <3>1
        <4>2. QED
          BY <1>8, <4>1 DEF Distances
      <3>3. D[x] = D[u] /\ D[x] >= 0
        BY <1>1, <1>9, <3>1, <3>2
      <3>4. g.color[x] # "WHITE"
        BY <1>1, <1>9, <3>3 DEF Covered
      <3>5. CASE g.color[x] = "BLACK"
        BY <1>6, <3>2, <3>5 DEF Closed
      <3>6. CASE g.color[x] = "GRAY"
        <4>1. PICK k \in DOMAIN q : q[k] = x
          BY <3>6 DEF InLine
        <4>2. k = 1
          <5>1. SUFFICES ASSUME k # 1 PROVE FALSE
            OBVIOUS
          <5>2. k = 2 \/ 2 < k
            BY <1>1, <5>1
          <5>3. D[d] <= D[x]
            <6>1. CASE k = 2
              BY <1>9, <2>2, <2>3, <4>1, <6>1
            <6>2. CASE 2 < k
              BY <2>1, <2>2, <4>1, <6>2 DEF InLine
            <6>3. QED
              BY <5>2, <6>1, <6>2
          <5>4. QED
            BY <1>1, <1>9, <3>1, <3>3, <5>3
        <4>3. QED
          BY <1>6, <3>2, <4>1, <4>2
      <3>7. QED
        BY <1>2, <3>4, <3>5, <3>6 DEF Colors
    <2>7. QED
      BY <2>5, <2>6
  <1>14. QED
    BY <1>4, <1>10, <1>11, <1>12, <1>13 DEF Frontier

\* The search is over: what can be reached has been found.
Searched(g, D, n) ==
  Found(g, D, n) /\ \A w \in 1 .. n : D[w] >= 0 => g.color[w] # "WHITE"

LEMMA Ending ==
  ASSUME NEW g, NEW D, NEW n \in Nat, IsGraph(g, n),
         Found(g, D, n), Closed(g, n), InLine(g, D, n, <<>>)
  PROVE  Searched(g, D, n)
  <1> DEFINE S == {k \in Nat : \A w \in 1 .. n : D[w] = k => g.color[w] # "WHITE"}
  <1>1. Distances(D, g, n, g.source) /\ g.color[g.source] # "WHITE"
    BY DEF Found
  <1>2. \A w \in 1 .. n : g.color[w] = "WHITE" \/ g.color[w] = "BLACK"
    BY DEF InLine, IsGraph, Colors
  <1>3. 0 \in S
    BY <1>1 DEF Distances
  <1>4. ASSUME NEW k \in S PROVE k + 1 \in S
    <2>1. SUFFICES ASSUME NEW w \in 1 .. n, D[w] = k + 1
                   PROVE  g.color[w] # "WHITE"
      OBVIOUS
    <2>2. D[w] > 0 /\ D[w] - 1 = k
      BY <2>1
    <2>3. PICK x \in 1 .. n : D[x] = k /\ w \in Succ(g, x)
      BY <1>1, <2>2 DEF Distances
    <2>4. g.color[x] = "BLACK"
      BY <1>2, <2>3
    <2>5. QED
      BY <2>3, <2>4 DEF Closed
  <1>5. S \in SUBSET Nat
    OBVIOUS
  <1> HIDE DEF S
  <1>6. S = Nat
    BY <1>3, <1>4, <1>5, EveryNat
  <1>7. ASSUME NEW w \in 1 .. n, D[w] >= 0 PROVE g.color[w] # "WHITE"
    <2>1. D[w] \in S
      BY <1>1, <1>6, <1>7 DEF Distances
    <2>2. QED
      BY <2>1 DEF S
  <1>8. QED
    BY <1>7 DEF Searched

(* The loops over parents.                                                 *)
LEMMA AncestorsAre ==
  ASSUME NEW g, NEW n \in Nat, IsGraph(g, n), NEW v \in 1 .. n,
         NEW up, up = Path!Ancestors(g, v)
  PROVE  /\ DOMAIN up = 0 .. n /\ up[0] = v
         /\ \A k \in 1 .. n : up[k] = IF up[k - 1] = 0 THEN 0 ELSE g.parent[up[k - 1]]
  <1> DEFINE Along(f) == [k \in 0 .. Len(g.parent) |->
                            IF k = 0 THEN v
                            ELSE IF f[k - 1] = Path!NIL THEN Path!NIL ELSE g.parent[f[k - 1]]]
             step == [x \in 0 .. n |-> IF x = 0 THEN 0 ELSE g.parent[x]]
  <1>1. g.parent \in [1 .. n -> 0 .. n] /\ Len(g.parent) = n /\ Path!NIL = 0
    <2>1. g.parent \in [1 .. n -> 0 .. n]
      BY DEF IsGraph
    <2>2. QED
      BY <2>1, FunIsSeq DEF Path!NIL
  <1>2. step \in [0 .. n -> 0 .. n] /\ v \in 0 .. n
    <2>1. \A x \in 0 .. n : x # 0 => x \in 1 .. n
      OBVIOUS
    <2>2. QED
      BY <1>1, <2>1
  <1> HIDE DEF step
  <1>3. PICK it \in [0 .. n -> 0 .. n] : Iteration(step, v, n, it)
    BY <1>2, Iterates
  <1>4. it = Along(it)
    <2>1. it = [k \in 0 .. n |-> IF k = 0 THEN v ELSE step[it[k - 1]]]
      BY <1>3 DEF Iteration
    <2>2. ASSUME NEW k \in 0 .. n, k # 0
          PROVE  step[it[k - 1]] = IF it[k - 1] = 0 THEN 0 ELSE g.parent[it[k - 1]]
      <3>1. k - 1 \in 0 .. n
        BY <2>2
      <3>2. it[k - 1] \in 0 .. n
        BY <3>1
      <3>3. QED
        BY <3>2 DEF step
    <2>3. \A k \in 0 .. n : it[k] = Along(it)[k]
      BY <1>1, <2>1, <2>2
    <2>4. QED
      BY <1>1, <2>3
  <1>5. up = CHOOSE f : f = Along(f)
    BY DEF Path!Ancestors
  <1>6. up = Along(up)
    <2> HIDE DEF Along
    <2>1. QED
      BY <1>4, <1>5
  <1>7. /\ DOMAIN up = 0 .. n
        /\ \A k \in 0 .. n : up[k] = IF k = 0 THEN v
                                     ELSE IF up[k - 1] = 0 THEN 0 ELSE g.parent[up[k - 1]]
    BY <1>1, <1>6
  <1> HIDE DEF Along
  <1>8. 0 \in 0 .. n /\ \A k \in 1 .. n : k \in 0 .. n /\ k # 0
    OBVIOUS
  <1>9. up[0] = v /\ \A k \in 1 .. n : up[k] = IF up[k - 1] = 0 THEN 0 ELSE g.parent[up[k - 1]]
    BY <1>7, <1>8
  <1>10. QED
    BY <1>7, <1>9

\* The answer a to the query of s and d is right.
Right(g, s, d, a) ==
  /\ a.distance = Path!Dist(g, s, d)
  /\ IF a.distance = Path!INF THEN a.path = <<Path!NIL>>
     ELSE /\ Len(a.path) = a.distance + 1
          /\ a.path[1] = s /\ Path!Last(a.path) = d
          /\ Path!IsPath(g, a.path)

LEMMA AnswerIsRight ==
  ASSUME NEW g, NEW n \in Nat, IsGraph(g, n), NEW v \in 1 .. n,
         Searched(g, DistancesOf(g, n, g.source), n)
  PROVE  Right(g, g.source, v, [distance |-> Path!getDist(g, v), path |-> Path!getPath(g, v)])
  <1>1. PICK D : D = DistancesOf(g, n, g.source)
    OBVIOUS
  <1>2. Found(g, D, n) /\ \A w \in 1 .. n : D[w] >= 0 => g.color[w] # "WHITE"
    BY <1>1 DEF Searched
  <1>3. PICK s : s = g.source
    OBVIOUS
  <1>4. /\ s \in 1 .. n /\ Distances(D, g, n, s)
        /\ \A w \in 1 .. n : g.color[w] # "WHITE" <=> D[w] >= 0
        /\ \A w \in 1 .. n : g.color[w] = "WHITE" =>
             g.distance[w] = Path!INF /\ g.parent[w] = 0
        /\ \A w \in 1 .. n : g.color[w] # "WHITE" =>
             /\ g.distance[w] = D[w]
             /\ w # s => /\ g.parent[w] \in 1 .. n /\ g.color[g.parent[w]] # "WHITE"
                         /\ D[w] = D[g.parent[w]] + 1 /\ w \in Succ(g, g.parent[w])
    BY <1>2, <1>3 DEF Found
  <1>5. /\ \A w \in 1 .. n : D[w] \in Int /\ D[w] <= n /\ (D[w] = 0 <=> w = s)
        /\ \A w \in 1 .. n : ~(D[w] >= 0) => D[w] = Path!INF
    <2>1. \A w \in 1 .. n : D[w] \in Int
      BY <1>4, DistanceIsInt
    <2>2. \A w \in 1 .. n : (D[w] = 0 <=> w = s) /\ (D[w] < 0 => D[w] = Path!INF) /\ D[w] <= n
      BY <1>4 DEF Distances
    <2>3. QED
      BY <2>1, <2>2
  <1>6. D[v] = Path!Dist(g, s, v)
    BY <1>1, <1>3 DEF DistancesOf
  <1>7. Path!getDist(g, v) = D[v]
    <2>1. Path!getDist(g, v) = g.distance[v]
      BY <1>3, <1>4 DEF Path!getDist, Path!NIL
    <2>2. g.distance[v] = D[v]
      BY <1>4, <1>5
    <2>3. QED
      BY <2>1, <2>2
  <1>8. PICK up : up = Path!Ancestors(g, v)
    OBVIOUS
  <1>9. /\ DOMAIN up = 0 .. n /\ up[0] = v
        /\ \A k \in 1 .. n : up[k] = IF up[k - 1] = 0 THEN 0 ELSE g.parent[up[k - 1]]
    BY <1>8, AncestorsAre
  <1> DEFINE steps == {k \in DOMAIN up : up[k] = s}
  <1>10. Path!getPath(g, v) =
           IF steps = {} THEN <<Path!NIL>>
           ELSE Path!Reverse([k \in 1 .. (Path!Min(steps) + 1) |-> up[k - 1]])
    BY <1>3, <1>8 DEF Path!getPath
  <1>11. CASE ~(D[v] >= 0)
    <2>1. g.parent[v] = 0 /\ v # s /\ D[v] = Path!INF /\ s # 0
      BY <1>4, <1>5, <1>11
    <2> DEFINE S == {k \in Nat : k + 1 <= n => up[k + 1] = 0}
    <2>2. 0 \in S
      <3>1. 1 <= n => up[1] = 0
        <4>1. 1 - 1 = 0 /\ v # 0
          OBVIOUS
        <4>2. QED
          BY <1>9, <2>1, <4>1
      <3>2. QED
        BY <3>1
    <2>3. ASSUME NEW k \in S PROVE k + 1 \in S
      <3>1. CASE (k + 1) + 1 <= n
        <4>1. /\ (k + 1) + 1 \in 1 .. n /\ ((k + 1) + 1) - 1 = k + 1 /\ k + 1 <= n
          BY <3>1
        <4>2. QED
          BY <1>9, <4>1
      <3>2. CASE ~((k + 1) + 1 <= n)
        BY <3>2
      <3>3. QED
        BY <3>1, <3>2
    <2>4. S \in SUBSET Nat
      OBVIOUS
    <2> HIDE DEF S
    <2>5. S = Nat
      BY <2>2, <2>3, <2>4, EveryNat
    <2>6. ASSUME NEW k \in 0 .. n PROVE up[k] # s
      <3>1. CASE k = 0
        BY <1>9, <2>1, <3>1
      <3>2. CASE k # 0
        <4>1. k - 1 \in S /\ (k - 1) + 1 = k /\ (k - 1) + 1 <= n
          BY <2>5, <3>2
        <4>2. up[k] = 0
          BY <4>1 DEF S
        <4>3. QED
          BY <2>1, <4>2
      <3>3. QED
        BY <3>1, <3>2
    <2>7. steps = {}
      BY <1>9, <2>6
    <2>8. QED
      BY <1>3, <1>6, <1>7, <1>10, <2>1, <2>7 DEF Right
  <1>12. CASE D[v] >= 0
    <2>1. PICK d : d = D[v]
      OBVIOUS
    <2>2. d \in Nat /\ d <= n
      BY <1>5, <1>12, <2>1
    <2> DEFINE S == {k \in Nat : k <= d => up[k] \in 1 .. n /\ D[up[k]] = d - k}
    <2>3. 0 \in S
      BY <1>9, <2>1, <2>2
    <2>4. ASSUME NEW k \in S, k < d
          PROVE  /\ up[k + 1] \in 1 .. n /\ D[up[k + 1]] = d - (k + 1)
                 /\ up[k] \in Succ(g, up[k + 1])
      <3>1. up[k] \in 1 .. n /\ D[up[k]] = d - k /\ D[up[k]] > 0
        BY <2>2, <2>4
      <3>2. up[k + 1] = g.parent[up[k]]
        <4>1. k + 1 \in 1 .. n /\ (k + 1) - 1 = k /\ up[k] # 0
          BY <2>2, <2>4, <3>1
        <4>2. QED
          BY <1>9, <4>1
      <3>3. g.color[up[k]] # "WHITE" /\ up[k] # s
        BY <1>4, <1>5, <3>1
      <3>4. /\ up[k + 1] \in 1 .. n /\ D[up[k]] = D[up[k + 1]] + 1
            /\ up[k] \in Succ(g, up[k + 1])
        BY <1>4, <3>1, <3>2, <3>3
      <3>5. D[up[k + 1]] \in Int
        BY <1>5, <3>4
      <3>6. QED
        BY <2>2, <3>1, <3>4, <3>5
    <2>5. ASSUME NEW k \in S PROVE k + 1 \in S
      <3>1. CASE k < d
        BY <2>4, <3>1
      <3>2. CASE ~(k < d)
        BY <2>2, <3>2
      <3>3. QED
        BY <3>1, <3>2
    <2>6. S \in SUBSET Nat
      OBVIOUS
    <2> HIDE DEF S
    <2>7. S = Nat
      BY <2>3, <2>5, <2>6, EveryNat
    <2>8. /\ \A k \in 0 .. d : up[k] \in 1 .. n /\ D[up[k]] = d - k
          /\ \A k \in 0 .. (d - 1) : up[k] \in Succ(g, up[k + 1])
      <3>1. \A k \in 0 .. d : up[k] \in 1 .. n /\ D[up[k]] = d - k
        BY <2>2, <2>7 DEF S
      <3>2. \A k \in 0 .. (d - 1) : k \in S /\ k < d
        BY <2>2, <2>7
      <3>3. QED
        BY <2>4, <3>1, <3>2
    <2>9. up[d] = s /\ \A k \in 0 .. n : up[k] = s => d <= k
      <3>1. up[d] = s
        BY <1>5, <2>2, <2>8
      <3>2. ASSUME NEW k \in 0 .. n, up[k] = s, k < d PROVE FALSE
        <4>1. up[k] \in 1 .. n /\ D[up[k]] = d - k
          BY <2>2, <2>8, <3>2
        <4>2. d - k # 0
          BY <2>2, <3>2
        <4>3. QED
          BY <1>5, <3>2, <4>1, <4>2
      <3>3. \A k \in 0 .. n : up[k] = s => d <= k
        BY <2>2, <3>2
      <3>4. QED
        BY <3>1, <3>3
    <2>10. steps # {} /\ Path!Min(steps) = d
      <3>1. d \in steps
        BY <1>9, <2>2, <2>9
      <3>2. \A k \in steps : d <= k /\ k \in Nat
        BY <1>9, <2>9
      <3> HIDE DEF steps
      <3>3. \A m \in steps : (\A k \in steps : m <= k) => m = d
        BY <2>2, <3>1, <3>2
      <3>4. Path!Min(steps) \in steps /\ \A k \in steps : Path!Min(steps) <= k
        BY <3>1, <3>2 DEF Path!Min
      <3>5. QED
        BY <3>1, <3>3, <3>4
    <2>11. PICK p : p = Path!getPath(g, v)
      OBVIOUS
    <2>12. /\ Len(p) = d + 1
           /\ \A k \in 1 .. (d + 1) : p[k] = up[(d + 1) - k]
      <3> DEFINE f == [k \in 1 .. (d + 1) |-> up[k - 1]]
      <3>1. p = Path!Reverse(f)
        BY <1>10, <2>10, <2>11
      <3>2. f \in [1 .. (d + 1) -> 1 .. n]
        <4>1. \A k \in 1 .. (d + 1) : k - 1 \in 0 .. d
          BY <2>2
        <4>2. QED
          BY <2>8, <4>1
      <3>3. Len(f) = d + 1
        BY <2>2, <3>2, FunIsSeq
      <3>4. p = [k \in 1 .. (d + 1) |-> f[((d + 1) - k) + 1]]
        <4> HIDE DEF f
        <4>1. QED
          BY <3>1, <3>3 DEF Path!Reverse
      <3>5. \A k \in 1 .. (d + 1) : ((d + 1) - k) + 1 \in 1 .. (d + 1)
                                    /\ (((d + 1) - k) + 1) - 1 = (d + 1) - k
        BY <2>2
      <3>6. \A k \in 1 .. (d + 1) : f[((d + 1) - k) + 1] = up[(d + 1) - k]
        BY <3>5
      <3>7. p \in [1 .. (d + 1) -> 1 .. n]
        <4> HIDE DEF f
        <4>1. \A k \in 1 .. (d + 1) : f[((d + 1) - k) + 1] \in 1 .. n
          BY <3>2, <3>5
        <4>2. QED
          BY <3>4, <4>1
      <3>8. Len(p) = d + 1
        BY <2>2, <3>7, FunIsSeq
      <3> HIDE DEF f
      <3>9. QED
        BY <3>4, <3>6, <3>8
    <2>13. p[1] = s /\ Path!Last(p) = v
      <3>1. 1 \in 1 .. (d + 1) /\ d + 1 \in 1 .. (d + 1) /\ (d + 1) - 1 = d
            /\ (d + 1) - (d + 1) = 0
        BY <2>2
      <3>2. QED
        BY <1>9, <2>9, <2>12, <3>1 DEF Path!Last
    <2>14. Path!IsPath(g, p)
      <3>1. SUFFICES ASSUME NEW k \in 1 .. d
                     PROVE  p[k + 1] \in Succ(g, p[k])
        <4>1. (d + 1) - 1 = d
          BY <2>2
        <4>2. QED
          BY <2>12, <4>1 DEF Path!IsPath, Succ
      <3>2. /\ k \in 1 .. (d + 1) /\ k + 1 \in 1 .. (d + 1)
            /\ (d + 1) - (k + 1) = d - k /\ (d + 1) - k = (d - k) + 1 /\ d - k \in 0 .. (d - 1)
        BY <2>2
      <3>3. p[k + 1] = up[d - k] /\ p[k] = up[(d - k) + 1]
        BY <2>12, <3>2
      <3>4. QED
        BY <2>8, <3>2, <3>3
    <2>15. d # Path!INF
      BY <2>2 DEF Path!INF
    <2>16. QED
      BY <1>3, <1>6, <1>7, <2>1, <2>11, <2>12, <2>13, <2>14, <2>15 DEF Right
  <1>13. QED
    BY <1>11, <1>12

-----------------------------------------------------------------------------
(* The program FindPath                                                    *)
Hops(n) == DistancesOf(p_G, n, p_G.source)

\* Those that wait, the vertex that is being explored first.
Line == IF p_pc = "scan" THEN <<p_u>> \o p_l ELSE p_l

Exploring(n) ==
  /\ Frontier(p_G, Hops(n), n, Line) /\ p_l \in Seq(1 .. n)
  /\ p_pc = "scan" =>
       /\ p_u \in 1 .. n /\ p_i \in Nat \ {0}
       /\ \A k \in DOMAIN p_G.neighbors[p_u] :
            k < p_i => p_G.color[p_G.neighbors[p_u][k]] # "WHITE"

BFSInv(n) ==
  /\ IsGraph(p_G, n) /\ p_pc \in {"idle", "dequeue", "scan"}
  /\ p_pc # "idle" => Exploring(n)

PathInvOf(n) ==
  /\ BFSInv(n)
  /\ Ascending(p_G, n) /\ (p_main # Path!Client => Symmetric(p_G, n))
  /\ p_pc # "idle" => p_main \in {"answering", Path!Client}
  /\ p_main = "answering" =>
       /\ p_query[1] = p_G.source /\ p_answer = Path!NoAnswer
       /\ p_pc = "idle" => Searched(p_G, Hops(n), n)
  /\ p_answer # Path!NoAnswer =>
       p_main = "queries" /\ Right(p_G, p_query[1], p_query[2], p_answer)

PathInv == \E n \in Nat : PathInvOf(n)

LEMMA StartKeeps ==
  ASSUME NEW n \in Nat, BFSInv(n), NEW s \in Path!Vertices(p_G), Path!StartBFS(s)
  PROVE  /\ BFSInv(n)' /\ p_pc' # "idle" /\ s \in 1 .. n
         /\ p_G'.neighbors = p_G.neighbors /\ p_G'.source = s
  <1>1. IsGraph(p_G, n) /\ s \in 1 .. n /\ Len(p_G.neighbors) = n
    <2>1. IsGraph(p_G, n)
      BY DEF BFSInv
    <2>2. p_G.neighbors \in [1 .. n -> Seq(1 .. n)]
      BY <2>1 DEF IsGraph
    <2>3. s \in 1 .. n
      BY <2>2 DEF Path!Vertices
    <2>4. QED
      BY <2>1, <2>2, <2>3, FunIsSeq
  <1>2. /\ p_G' = [p_G EXCEPT !.color = [Path!All(n, "WHITE") EXCEPT ![s] = "GRAY"],
                       !.distance = [Path!All(n, Path!INF) EXCEPT ![s] = 0],
                       !.parent = Path!All(n, Path!NIL), !.source = s]
        /\ p_pc' = "dequeue" /\ p_l' = <<s>>
    BY <1>1 DEF Path!StartBFS
  <1>3. PICK g, h, D : g = p_G /\ h = p_G' /\ D = DistancesOf(h, n, s)
    OBVIOUS
  <1>4. Frontier(p_G', D, n, <<s>>) /\ p_G'.source = s
    <2>1. IsGraph(g, n) /\ s \in 1 .. n
      BY <1>1, <1>3
    <2>2. h = [g EXCEPT !.color = [Path!All(n, "WHITE") EXCEPT ![s] = "GRAY"],
                        !.distance = [Path!All(n, Path!INF) EXCEPT ![s] = 0],
                        !.parent = Path!All(n, Path!NIL), !.source = s]
      BY <1>2, <1>3
    <2>3. h.source = s /\ Frontier(h, DistancesOf(h, n, s), n, <<s>>)
      BY <2>1, <2>2, Starting
    <2>4. QED
      BY <1>3, <2>3
  <1>5. Hops(n)' = D
    BY <1>3, <1>4 DEF Hops
  <1>6. Line' = <<s>> /\ p_l' \in Seq(1 .. n)
    BY <1>1, <1>2 DEF Line
  <1>7. Exploring(n)'
    BY <1>2, <1>4, <1>5, <1>6 DEF Exploring
  <1>8. p_G'.neighbors = p_G.neighbors
    BY <1>1, <1>2 DEF IsGraph
  <1>9. QED
    BY <1>1, <1>2, <1>4, <1>7, <1>8 DEF BFSInv, Frontier

\* What a step of BFS leaves alone, and what the last one has reached.
StepOf(n) ==
  /\ BFSInv(n)'
  /\ p_G'.neighbors = p_G.neighbors /\ p_G'.source = p_G.source
  /\ p_pc' = "idle" => Searched(p_G', Hops(n)', n)

LEMMA DequeueKeeps ==
  ASSUME NEW n \in Nat, BFSInv(n), Path!Dequeue
  PROVE  StepOf(n)
  <1>1. /\ p_pc = "dequeue" /\ p_l # <<>> /\ p_u' = Head(p_l) /\ p_l' = Tail(p_l)
        /\ p_i' = 1 /\ p_pc' = "scan" /\ p_G' = p_G
    BY DEF Path!Dequeue
  <1>2. Exploring(n) /\ IsGraph(p_G, n)
    BY <1>1 DEF BFSInv
  <1>3. /\ p_l \in Seq(1 .. n) /\ Line = p_l
    BY <1>1, <1>2 DEF Exploring, Line
  <1>4. /\ Head(p_l) \in 1 .. n /\ Tail(p_l) \in Seq(1 .. n)
        /\ <<Head(p_l)>> \o Tail(p_l) = p_l
    BY <1>1, <1>3
  <1>5. Line' = Line /\ Hops(n)' = Hops(n)
    BY <1>1, <1>3, <1>4 DEF Line, Hops
  <1>6. Exploring(n)'
    <2>1. ASSUME NEW k \in DOMAIN p_G'.neighbors[p_u'], k < p_i' PROVE FALSE
      <3>1. p_G.neighbors[Head(p_l)] \in Seq(1 .. n)
        BY <1>2, <1>4 DEF IsGraph
      <3>2. k \in Nat \ {0}
        BY <1>1, <2>1, <3>1, LenProperties
      <3>3. QED
        BY <1>1, <2>1, <3>2
    <2>2. QED
      BY <1>1, <1>2, <1>4, <1>5, <2>1 DEF Exploring
  <1>7. QED
    BY <1>1, <1>2, <1>6 DEF BFSInv, StepOf

\* The vertex that is explored is first in line.
LEMMA ScanLine ==
  ASSUME NEW n \in Nat, BFSInv(n), p_pc = "scan"
  PROVE  /\ IsGraph(p_G, n) /\ Exploring(n) /\ p_u \in 1 .. n /\ p_l \in Seq(1 .. n)
         /\ Line = <<p_u>> \o p_l /\ Line # <<>> /\ Line[1] = p_u
         /\ 1 \in DOMAIN Line /\ Tail(Line) = p_l
         /\ \A y \in 1 .. n : Append(Line, y) = <<p_u>> \o Append(p_l, y)
  <1>1. IsGraph(p_G, n) /\ Exploring(n)
    BY DEF BFSInv
  <1>2. p_u \in 1 .. n /\ p_l \in Seq(1 .. n) /\ Line = <<p_u>> \o p_l
    BY <1>1 DEF Exploring, Line
  <1>3. /\ Line \in Seq(1 .. n) /\ Line # <<>> /\ Line[1] = p_u /\ Tail(Line) = p_l
        /\ \A y \in 1 .. n : Append(Line, y) = <<p_u>> \o Append(p_l, y)
    BY <1>2, ConsIs, SMTT(30)
  <1>4. 1 \in DOMAIN Line
    BY <1>3, LenProperties, EmptySeq
  <1>5. QED
    BY <1>1, <1>2, <1>3, <1>4

LEMMA ScanKeeps ==
  ASSUME NEW n \in Nat, BFSInv(n), Path!Scan
  PROVE  StepOf(n)
  <1>1. /\ p_pc = "scan" /\ p_i <= Len(p_G.neighbors[p_u])
        /\ Path!Discover(p_G.neighbors[p_u][p_i]) /\ p_i' = p_i + 1
        /\ p_pc' = "scan" /\ p_u' = p_u
    BY DEF Path!Scan
  <1>2. /\ IsGraph(p_G, n) /\ Exploring(n) /\ p_u \in 1 .. n /\ p_l \in Seq(1 .. n)
        /\ Line = <<p_u>> \o p_l /\ Line # <<>> /\ Line[1] = p_u /\ 1 \in DOMAIN Line
        /\ \A y \in 1 .. n : Append(Line, y) = <<p_u>> \o Append(p_l, y)
    BY <1>1, ScanLine
  <1>3. PICK D : D = Hops(n)
    OBVIOUS
  <1>4. PICK q : q = Line
    OBVIOUS
  <1>5. PICK v : v = p_G.neighbors[p_u][p_i]
    OBVIOUS
  <1>6. /\ Frontier(p_G, D, n, q)
        /\ p_i \in Nat \ {0}
        /\ \A k \in DOMAIN p_G.neighbors[p_u] :
             k < p_i => p_G.color[p_G.neighbors[p_u][k]] # "WHITE"
    BY <1>1, <1>2, <1>3, <1>4 DEF Exploring
  <1>7. /\ p_G.neighbors[p_u] \in Seq(1 .. n)
        /\ DOMAIN p_G.neighbors[p_u] = 1 .. Len(p_G.neighbors[p_u])
        /\ Len(p_G.neighbors[p_u]) \in Nat
    <2>1. p_G.neighbors[p_u] \in Seq(1 .. n)
      BY <1>2 DEF IsGraph
    <2>2. QED
      BY <2>1, LenProperties
  <1>8. p_i \in DOMAIN p_G.neighbors[p_u]
    BY <1>1, <1>6, <1>7
  <1>9. v \in Succ(p_G, p_u) /\ v \in 1 .. n
    BY <1>2, <1>5, <1>8, SuccIs
  <1>10. \A k \in DOMAIN p_G.neighbors[p_u] :
           p_G.neighbors[p_u][k] \in 1 .. n /\ (k < p_i + 1 => k < p_i \/ k = p_i)
    BY <1>6, <1>7, ElementOfSeq
  <1>11. CASE p_G.color[v] = "WHITE"
    <2>1. /\ p_G' = [p_G EXCEPT !.color[v] = "GRAY", !.distance[v] = p_G.distance[p_u] + 1,
                                !.parent[v] = p_u]
          /\ p_l' = Append(p_l, v)
      BY <1>1, <1>5, <1>11 DEF Path!Discover
    <2>2. PICK u : u = p_u
      OBVIOUS
    <2>3. PICK g, h : g = p_G /\ h = p_G'
      OBVIOUS
    <2>4. /\ Frontier(g, D, n, q) /\ q # <<>> /\ q[1] = u
          /\ v \in Succ(g, u) /\ g.color[v] = "WHITE"
          /\ h = [g EXCEPT !.color[v] = "GRAY", !.distance[v] = g.distance[u] + 1,
                           !.parent[v] = u]
      BY <1>2, <1>4, <1>6, <1>9, <1>11, <2>1, <2>2, <2>3
    <2>5. /\ Frontier(h, D, n, Append(q, v))
          /\ h.neighbors = g.neighbors /\ h.source = g.source
          /\ \A w \in 1 .. n : g.color[w] # "WHITE" => h.color[w] # "WHITE"
          /\ h.color[v] # "WHITE"
      <3>1. Frontier(h, D, n, Append(q, v))
        BY <2>4, Discovering
      <3>2. /\ h.neighbors = g.neighbors /\ h.source = g.source
            /\ h.color = [g.color EXCEPT ![v] = "GRAY"] /\ DOMAIN g.color = 1 .. n
        BY <1>2, <2>3, <2>4 DEF IsGraph
      <3>3. QED
        BY <1>9, <3>1, <3>2
    <2>6. Hops(n)' = D
      <3>1. DistancesOf(g, n, g.source) = DistancesOf(h, n, h.source)
        BY <2>5, SameDistances
      <3>2. QED
        BY <1>3, <2>3, <3>1 DEF Hops
    <2>7. Line' = Append(q, v) /\ p_l' \in Seq(1 .. n)
      BY <1>1, <1>2, <1>4, <1>9, <2>1, SMTT(30) DEF Line
    <2>8. \A k \in DOMAIN p_G'.neighbors[p_u'] :
            k < p_i' => p_G'.color[p_G'.neighbors[p_u'][k]] # "WHITE"
      <3>1. p_G'.neighbors[p_u'] = p_G.neighbors[p_u]
        BY <1>1, <2>3, <2>5
      <3>2. ASSUME NEW k \in DOMAIN p_G.neighbors[p_u], k < p_i + 1
            PROVE  p_G'.color[p_G.neighbors[p_u][k]] # "WHITE"
        BY <1>5, <1>6, <1>10, <2>3, <2>5, <3>2
      <3>3. QED
        BY <1>1, <3>1, <3>2
    <2>9. Exploring(n)'
      BY <1>1, <1>2, <1>6, <2>3, <2>5, <2>6, <2>7, <2>8 DEF Exploring
    <2>10. QED
      BY <1>1, <2>3, <2>5, <2>9 DEF BFSInv, StepOf, Frontier
  <1>12. CASE p_G.color[v] # "WHITE"
    <2>1. p_G' = p_G /\ p_l' = p_l
      BY <1>1, <1>5, <1>12 DEF Path!Discover
    <2>2. Line' = Line /\ Hops(n)' = Hops(n)
      BY <1>1, <2>1 DEF Line, Hops
    <2>3. \A k \in DOMAIN p_G'.neighbors[p_u'] :
            k < p_i' => p_G'.color[p_G'.neighbors[p_u'][k]] # "WHITE"
      BY <1>1, <1>5, <1>6, <1>10, <1>12, <2>1
    <2>4. Exploring(n)'
      BY <1>1, <1>2, <1>6, <2>1, <2>2, <2>3 DEF Exploring
    <2>5. QED
      BY <1>1, <1>2, <2>1, <2>4 DEF BFSInv, StepOf
  <1>13. QED
    BY <1>11, <1>12

LEMMA ExploredKeeps ==
  ASSUME NEW n \in Nat, BFSInv(n), Path!Explored
  PROVE  StepOf(n)
  <1>1. /\ p_pc = "scan" /\ p_i > Len(p_G.neighbors[p_u])
        /\ p_G' = [p_G EXCEPT !.color[p_u] = "BLACK"]
        /\ p_pc' = "dequeue" /\ p_l' = p_l
    BY DEF Path!Explored
  <1>2. /\ IsGraph(p_G, n) /\ Exploring(n) /\ p_u \in 1 .. n /\ p_l \in Seq(1 .. n)
        /\ Line # <<>> /\ Line[1] = p_u /\ Tail(Line) = p_l
    BY <1>1, ScanLine
  <1>3. PICK D, q, u, g, h : D = Hops(n) /\ q = Line /\ u = p_u /\ g = p_G /\ h = p_G'
    OBVIOUS
  <1>4. /\ Frontier(g, D, n, q)
        /\ p_i \in Nat \ {0}
        /\ \A k \in DOMAIN g.neighbors[u] : k < p_i => g.color[g.neighbors[u][k]] # "WHITE"
    BY <1>1, <1>2, <1>3 DEF Exploring
  <1>5. \A y \in Succ(g, u) : g.color[y] # "WHITE"
    <2>1. g.neighbors[u] \in Seq(1 .. n)
      BY <1>2, <1>3 DEF IsGraph
    <2>2. \A k \in DOMAIN g.neighbors[u] : k < p_i
      BY <1>1, <1>3, <1>4, <2>1, LenProperties
    <2>3. \A y \in Succ(g, u) : \E k \in DOMAIN g.neighbors[u] : g.neighbors[u][k] = y
      <3>1. IsGraph(g, n) /\ u \in 1 .. n
        BY <1>2, <1>3
      <3>2. QED
        BY <3>1, SuccIs
    <2>4. QED
      BY <1>4, <2>2, <2>3
  <1>6. Frontier(h, D, n, Tail(q)) /\ h.neighbors = g.neighbors /\ h.source = g.source
    <2>1. q # <<>> /\ q[1] = u /\ h = [g EXCEPT !.color[u] = "BLACK"]
      BY <1>1, <1>2, <1>3
    <2>2. Frontier(h, D, n, Tail(q))
      BY <1>4, <1>5, <2>1, Finishing
    <2>3. QED
      BY <1>2, <1>3, <2>1, <2>2 DEF IsGraph
  <1>7. Hops(n)' = D
    <2>1. DistancesOf(g, n, g.source) = DistancesOf(h, n, h.source)
      BY <1>6, SameDistances
    <2>2. QED
      BY <1>3, <2>1 DEF Hops
  <1>8. Line' = Tail(q)
    BY <1>1, <1>2, <1>3 DEF Line
  <1>9. Exploring(n)'
    BY <1>1, <1>2, <1>3, <1>6, <1>7, <1>8 DEF Exploring
  <1>10. QED
    BY <1>1, <1>3, <1>6, <1>9 DEF BFSInv, StepOf, Frontier

LEMMA EndKeeps ==
  ASSUME NEW n \in Nat, BFSInv(n), Path!EndBFS
  PROVE  StepOf(n)
  <1>1. p_pc = "dequeue" /\ p_l = <<>> /\ p_pc' = "idle" /\ p_G' = p_G
    BY DEF Path!EndBFS
  <1>2. IsGraph(p_G, n) /\ Exploring(n) /\ Line = <<>>
    BY <1>1 DEF BFSInv, Line
  <1>3. Searched(p_G, Hops(n), n)
    BY <1>2, Ending DEF Exploring, Frontier
  <1>4. Hops(n)' = Hops(n)
    BY <1>1 DEF Hops
  <1>5. QED
    BY <1>1, <1>2, <1>3, <1>4 DEF BFSInv, StepOf

LEMMA BFSStepKeeps ==
  ASSUME NEW n \in Nat, BFSInv(n), Path!BFSStep
  PROVE  StepOf(n)
  BY DequeueKeeps, ScanKeeps, ExploredKeeps, EndKeeps DEF Path!BFSStep

(* Every step of FindPath and of the general client.                       *)
LEMMA VerticesAre ==
  ASSUME NEW g, NEW n \in Nat, IsGraph(g, n)
  PROVE  Path!Vertices(g) = 1 .. n /\ Len(g.neighbors) = n
  <1>1. g.neighbors \in [1 .. n -> Seq(1 .. n)]
    BY DEF IsGraph
  <1>2. Len(g.neighbors) = n
    BY <1>1, FunIsSeq
  <1>3. QED
    BY <1>1, <1>2 DEF Path!Vertices

LEMMA NewGraphIsSound ==
  ASSUME NEW n \in Nat
  PROVE  /\ IsGraph(Path!newGraph(n), n) /\ Ascending(Path!newGraph(n), n)
         /\ Symmetric(Path!newGraph(n), n)
  <1>1. /\ IsGraph(Path!newGraph(n), n)
        /\ Path!newGraph(n).neighbors = [v \in 1 .. n |-> <<>>]
    BY NewGraphIs
  <1>2. PICK g : g = Path!newGraph(n)
    OBVIOUS
  <1>3. \A x \in 1 .. n : g.neighbors[x] = <<>>
    BY <1>1, <1>2
  <1>4. Ascending(g, n)
    BY <1>3 DEF Ascending, Ascends
  <1>5. Symmetric(g, n)
    <2>1. \A x, y \in 1 .. n : Places(g.neighbors[x], y) = {}
      BY <1>3 DEF Places
    <2>2. QED
      BY <2>1 DEF Symmetric, Count
  <1>6. QED
    BY <1>1, <1>2, <1>4, <1>5

\* A sound graph that nothing is being asked of.
LEMMA AtRest ==
  ASSUME NEW n \in Nat, IsGraph(p_G', n), Ascending(p_G', n),
         p_main' # Path!Client => Symmetric(p_G', n),
         p_pc' = "idle", p_main' # "answering", p_answer' = Path!NoAnswer
  PROVE  PathInv'
  <1>1. BFSInv(n)'
    BY DEF BFSInv
  <1>2. PathInvOf(n)'
    BY <1>1 DEF PathInvOf
  <1>3. QED
    BY <1>2 DEF PathInv

LEMMA PathInit ==
  ASSUME Path!FindPathInit
  PROVE  PathInv
  <1>1. /\ p_G = Path!newGraph(0) /\ p_pc = "idle"
        /\ p_main \in {"order", Path!Client} /\ p_answer = Path!NoAnswer
    BY DEF Path!FindPathInit, Path!Init, Path!MainInit
  <1>2. p_main # "answering"
    BY <1>1 DEF Path!Client
  <1>3. IsGraph(p_G, 0) /\ Ascending(p_G, 0) /\ Symmetric(p_G, 0)
    BY <1>1, NewGraphIsSound
  <1>4. BFSInv(0)
    BY <1>1, <1>3 DEF BFSInv
  <1>5. PathInvOf(0)
    BY <1>1, <1>2, <1>3, <1>4 DEF PathInvOf
  <1>6. QED
    BY <1>5 DEF PathInv

LEMMA StepKeepsPath ==
  ASSUME NEW n \in Nat, PathInvOf(n), Path!BFSStep,
         p_main \in {"answering", Path!Client},
         p_main' = p_main, p_query' = p_query, p_answer' = p_answer
  PROVE  PathInv'
  <1>1. BFSInv(n)
    BY DEF PathInvOf
  <1>2. StepOf(n)
    BY <1>1, BFSStepKeeps
  <1>3. /\ Ascending(p_G, n)' /\ (p_main # Path!Client => Symmetric(p_G, n))'
    BY <1>2 DEF StepOf, PathInvOf, Ascending, Symmetric
  <1>4. p_answer = Path!NoAnswer
    BY DEF PathInvOf, Path!Client
  <1>5. PathInvOf(n)'
    BY <1>2, <1>3, <1>4 DEF StepOf, PathInvOf
  <1>6. QED
    BY <1>5 DEF PathInv

LEMMA MainKeepsPath ==
  ASSUME NEW n \in Nat, PathInvOf(n), ProgramsAssumption, Path!MainStep
  PROVE  PathInv'
  <1> DEFINE sound(m) == IsGraph(p_G', m) /\ Ascending(p_G', m) /\ Symmetric(p_G', m)
  <1>1. /\ BFSInv(n) /\ IsGraph(p_G, n) /\ Ascending(p_G, n)
        /\ p_main # Path!Client => Symmetric(p_G, n)
        /\ p_pc # "idle" => p_main \in {"answering", Path!Client}
        /\ p_answer # Path!NoAnswer => p_main = "queries"
    BY DEF PathInvOf, BFSInv
  <1>2. Path!Vertices(p_G) = 1 .. n
    BY <1>1, VerticesAre
  <1>3. /\ Path!Client \notin {"order", "edges", "queries", "answering", "done", "failed"}
    BY DEF Path!Client
  <1>4. CASE Path!ReadOrder
    <2>1. PICK m \in Orders : p_G' = Path!newGraph(m)
      BY <1>4 DEF Path!ReadOrder
    <2>2. m \in Nat
      BY <2>1 DEF ProgramsAssumption
    <2>3. sound(m)
      BY <2>1, <2>2, NewGraphIsSound
    <2>4. p_pc' = "idle" /\ p_main' = "edges" /\ p_answer' = Path!NoAnswer
      BY <1>1, <1>3, <1>4 DEF Path!ReadOrder, Path!bfs
    <2>5. QED
      BY <2>2, <2>3, <2>4, AtRest
  <1>5. CASE Path!ReadEdge
    <2>1. PICK x \in 1 .. n, y \in 1 .. n : p_G' = Path!addEdge(p_G, x, y)
      BY <1>2, <1>5 DEF Path!ReadEdge
    <2>2. p_pc' = "idle" /\ p_main' = "edges" /\ p_main = "edges" /\ p_answer' = Path!NoAnswer
      BY <1>1, <1>3, <1>5 DEF Path!ReadEdge, Path!bfs
    <2>3. sound(n)
      <3>1. PICK g : g = p_G
        OBVIOUS
      <3>2. IsGraph(g, n) /\ Ascending(g, n) /\ Symmetric(g, n)
        BY <1>1, <1>3, <2>2, <3>1
      <3>3. /\ IsGraph(Path!addEdge(g, x, y), n) /\ Ascending(Path!addEdge(g, x, y), n)
            /\ Symmetric(g, n) => Symmetric(Path!addEdge(g, x, y), n)
        BY <3>2, AddEdgeIs
      <3>4. QED
        BY <2>1, <3>1, <3>2, <3>3
    <2>4. QED
      BY <2>2, <2>3, AtRest
  <1>6. CASE Path!ReadZeros
    <2>1. /\ p_G' = p_G /\ p_pc' = "idle" /\ p_main' = "queries" /\ p_main = "edges"
          /\ p_answer' = Path!NoAnswer
      BY <1>1, <1>3, <1>6 DEF Path!ReadZeros, Path!bfs
    <2>2. sound(n)
      BY <1>1, <1>3, <2>1
    <2>3. QED
      BY <2>1, <2>2, AtRest
  <1>7. CASE Path!ReadFails \/ Path!Finish
    <2>1. /\ p_G' = Path!newGraph(0) /\ p_pc' = "idle" /\ p_main' \in {"failed", "done"}
          /\ p_answer' = Path!NoAnswer
      BY <1>1, <1>3, <1>7 DEF Path!ReadFails, Path!Finish, Path!freeGraph, Path!bfs
    <2>2. sound(0)
      BY <2>1, NewGraphIsSound
    <2>3. QED
      BY <2>1, <2>2, AtRest
  <1>8. CASE Path!ReadQuery
    <2>1. PICK s \in Path!Vertices(p_G), d \in 0 .. (Len(p_G.neighbors) + 1) :
            Path!StartBFS(s) /\ p_query' = <<s, d>>
      BY <1>8 DEF Path!ReadQuery
    <2>2. p_main = "queries" /\ p_main' = "answering" /\ p_answer' = Path!NoAnswer
      BY <1>8 DEF Path!ReadQuery
    <2>3. /\ BFSInv(n)' /\ p_pc' # "idle"
          /\ p_G'.neighbors = p_G.neighbors /\ p_G'.source = s
      BY <1>1, <2>1, StartKeeps
    <2>4. Ascending(p_G, n)' /\ Symmetric(p_G, n)'
      BY <1>1, <1>3, <2>2, <2>3 DEF Ascending, Symmetric
    <2>5. p_query'[1] = p_G'.source
      BY <2>1, <2>3
    <2>6. PathInvOf(n)'
      BY <2>2, <2>3, <2>4, <2>5 DEF PathInvOf
    <2>7. QED
      BY <2>6 DEF PathInv
  <1>9. CASE Path!Answer
    <2>1. /\ p_G' = p_G /\ p_pc = "idle" /\ p_pc' = p_pc /\ p_main = "answering"
          /\ p_query' = p_query
      BY <1>9 DEF Path!Answer, Path!bfs
    <2>2. /\ p_query[1] = p_G.source /\ p_answer = Path!NoAnswer
          /\ Searched(p_G, Hops(n), n)
      BY <2>1 DEF PathInvOf
    <2>3. sound(n)
      BY <1>1, <1>3, <2>1
    <2>4. CASE p_query[2] \in Path!Vertices(p_G)
      <3>1. /\ p_answer' = [distance |-> Path!getDist(p_G, p_query[2]),
                            path |-> Path!getPath(p_G, p_query[2])]
            /\ p_main' = "queries"
        BY <1>9, <2>4 DEF Path!Answer
      <3>2. Right(p_G, p_query[1], p_query[2], p_answer')
        <4>1. PICK v, g : v = p_query[2] /\ g = p_G
          OBVIOUS
        <4>2. v \in 1 .. n /\ IsGraph(g, n) /\ Searched(g, DistancesOf(g, n, g.source), n)
          BY <1>1, <1>2, <2>2, <2>4, <4>1 DEF Hops
        <4>3. Right(g, g.source, v, [distance |-> Path!getDist(g, v),
                                     path |-> Path!getPath(g, v)])
          BY <4>2, AnswerIsRight
        <4>4. QED
          BY <2>2, <3>1, <4>1, <4>3
      <3>3. BFSInv(n)'
        BY <2>1, <2>3 DEF BFSInv
      <3>4. Right(p_G, p_query[1], p_query[2], p_answer)'
        BY <2>1, <3>2
      <3>5. PathInvOf(n)'
        BY <2>1, <2>3, <3>1, <3>3, <3>4 DEF PathInvOf
      <3>6. QED
        BY <3>5 DEF PathInv
    <2>5. CASE p_query[2] \notin Path!Vertices(p_G)
      <3>1. p_answer' = Path!NoAnswer /\ p_main' = "failed"
        BY <1>9, <2>2, <2>5 DEF Path!Answer
      <3>2. QED
        BY <2>1, <2>3, <3>1, AtRest
    <2>6. QED
      BY <2>4, <2>5
  <1>10. CASE p_main = "answering" /\ Path!BFSStep /\ UNCHANGED <<p_main, p_query, p_answer>>
    BY <1>10, StepKeepsPath
  <1>11. QED
    BY <1>4, <1>5, <1>6, <1>7, <1>8, <1>9, <1>10 DEF Path!MainStep

LEMMA ClientKeepsPath ==
  ASSUME NEW n \in Nat, PathInvOf(n), ProgramsAssumption, p_main = Path!Client,
         Path!ClientStep, UNCHANGED <<p_main, p_query, p_answer>>
  PROVE  PathInv'
  <1>1. /\ BFSInv(n) /\ IsGraph(p_G, n) /\ Ascending(p_G, n)
        /\ p_answer = Path!NoAnswer /\ p_main # "answering" /\ p_main # "queries"
    BY DEF PathInvOf, BFSInv, Path!Client
  <1>2. Path!Vertices(p_G) = 1 .. n /\ Len(p_G.neighbors) = n
    BY <1>1, VerticesAre
  <1>3. ASSUME NEW m \in Nat, NEW g, IsGraph(g, m), Ascending(g, m), p_G' = g, p_pc' = "idle"
        PROVE  PathInv'
    BY <1>1, <1>3, AtRest
  <1>4. CASE Path!CallNew
    <2>1. PICK m \in Orders : p_G' = Path!newGraph(m) /\ p_pc' = "idle"
      BY <1>4 DEF Path!CallNew, Path!Call, Path!bfs
    <2>2. m \in Nat
      BY <2>1 DEF ProgramsAssumption
    <2>3. QED
      BY <1>3, <2>1, <2>2, NewGraphIsSound
  <1>5. CASE Path!CallFree
    <2>1. p_G' = Path!newGraph(0) /\ p_pc' = "idle"
      BY <1>5 DEF Path!CallFree, Path!freeGraph, Path!bfs
    <2>2. QED
      BY <1>3, <2>1, NewGraphIsSound
  <1>6. CASE Path!CallMakeNull
    <2>1. p_G' = Path!newGraph(n) /\ p_pc' = "idle"
      BY <1>2, <1>6 DEF Path!CallMakeNull, Path!makeNull, Path!Call, Path!bfs
    <2>2. QED
      BY <1>3, <2>1, NewGraphIsSound
  <1>7. PICK f : f = p_G
    OBVIOUS
  <1>8. CASE Path!CallAddArc
    <2>1. PICK x \in 1 .. n, y \in 1 .. n : p_G' = Path!addArc(f, x, y) /\ p_pc' = "idle"
      BY <1>2, <1>7, <1>8 DEF Path!CallAddArc, Path!Call, Path!bfs
    <2>2. PICK g : g = Path!addArc(f, x, y)
      OBVIOUS
    <2>3. HasArc(g, f, n, x, y)
      BY <1>1, <1>7, <2>2, AddArcIs
    <2>4. IsGraph(g, n)
      BY <2>3 DEF HasArc
    <2>5. Ascending(g, n)
      BY <1>1, <1>7, <2>3, StaysAscending
    <2>6. QED
      BY <1>3, <2>1, <2>2, <2>4, <2>5
  <1>9. CASE Path!CallAddEdge
    <2>1. PICK x \in 1 .. n, y \in 1 .. n : p_G' = Path!addEdge(f, x, y) /\ p_pc' = "idle"
      BY <1>2, <1>7, <1>9 DEF Path!CallAddEdge, Path!Call, Path!bfs
    <2>2. PICK g : g = Path!addEdge(f, x, y)
      OBVIOUS
    <2>3. IsGraph(g, n) /\ Ascending(g, n)
      BY <1>1, <1>7, <2>2, AddEdgeIs
    <2>4. QED
      BY <1>3, <2>1, <2>2, <2>3
  <1>10. CASE Path!CallBFS
    <2>1. PICK s \in Path!Vertices(p_G) : Path!StartBFS(s)
      BY <1>10 DEF Path!CallBFS
    <2>2. BFSInv(n)' /\ p_pc' # "idle" /\ p_G'.neighbors = p_G.neighbors
      BY <1>1, <2>1, StartKeeps
    <2>3. Ascending(p_G, n)'
      BY <1>1, <2>2 DEF Ascending
    <2>4. PathInvOf(n)'
      BY <1>1, <2>2, <2>3 DEF PathInvOf
    <2>5. QED
      BY <2>4 DEF PathInv
  <1>11. CASE Path!BFSStep
    BY <1>11, StepKeepsPath
  <1>12. QED
    BY <1>4, <1>5, <1>6, <1>8, <1>9, <1>10, <1>11 DEF Path!ClientStep

LEMMA PathKept ==
  ASSUME PathInv, ProgramsAssumption,
         (program = "FindPath" /\ Path!FindPathNext) \/ UNCHANGED pathVars
  PROVE  PathInv'
  <1>1. PICK n \in Nat : PathInvOf(n)
    BY DEF PathInv
  <1>2. CASE Path!MainStep
    BY <1>1, <1>2, MainKeepsPath
  <1>3. CASE p_main = Path!Client /\ Path!ClientStep /\ UNCHANGED <<p_main, p_query, p_answer>>
    BY <1>1, <1>3, ClientKeepsPath
  <1>4. CASE UNCHANGED pathVars
    <2>1. PathInvOf(n)'
      BY <1>1, <1>4 DEF pathVars, PathInvOf, BFSInv, Exploring, Line, Hops
    <2>2. QED
      BY <2>1 DEF PathInv
  <1>5. QED
    BY <1>2, <1>3, <1>4 DEF Path!FindPathNext

(* What the invariant says of the three properties.                        *)
LEMMA AdjacencyFollows ==
  ASSUME PathInv
  PROVE  AdjacencyIsSound
  <1>1. PICK n \in Nat : PathInvOf(n)
    BY DEF PathInv
  <1>2. /\ IsGraph(p_G, n) /\ Ascending(p_G, n)
        /\ p_main # Path!Client => Symmetric(p_G, n)
    BY <1>1 DEF PathInvOf, BFSInv
  <1>3. Path!Vertices(p_G) = 1 .. n
    BY <1>2, VerticesAre
  <1>4. \A x \in 1 .. n : \A k \in 2 .. Len(p_G.neighbors[x]) :
          p_G.neighbors[x][k - 1] <= p_G.neighbors[x][k]
    BY <1>2 DEF Ascending, Ascends
  <1>5. ASSUME p_main # Path!Client, NEW x \in 1 .. n, NEW y \in 1 .. n
        PROVE  Path!Occurs(p_G, x, y) = Path!Occurs(p_G, y, x)
    <2>1. Count(p_G.neighbors[x], y) = Count(p_G.neighbors[y], x)
      BY <1>2, <1>5 DEF Symmetric
    <2>2. QED
      BY <1>2, <2>1, OccursIs
  <1>6. QED
    BY <1>3, <1>4, <1>5 DEF AdjacencyIsSound, Path!AdjacencyIsSound

LEMMA QueueFollows ==
  ASSUME PathInv
  PROVE  QueueIsOrdered
  <1>1. PICK n \in Nat : PathInvOf(n)
    BY DEF PathInv
  <1>2. SUFFICES ASSUME p_pc \in {"dequeue", "scan"}
                 PROVE  /\ Path!IsInjective(Line)
                        /\ Path!ToSet(Line) = {v \in Path!Vertices(p_G) : p_G.color[v] = "GRAY"}
                        /\ \A j, k \in DOMAIN Line : j < k =>
                             p_G.distance[Line[k]] - p_G.distance[Line[j]] \in {0, 1}
                        /\ \A v \in Path!Vertices(p_G) : p_G.color[v] # "WHITE" =>
                             p_G.distance[v] = Path!Dist(p_G, p_G.source, v)
    BY DEF QueueIsOrdered, Path!QueueIsOrdered, Line
  <1>3. PICK g, D, q : g = p_G /\ D = Hops(n) /\ q = Line
    OBVIOUS
  <1>4. Frontier(g, D, n, q)
    BY <1>1, <1>2, <1>3 DEF PathInvOf, BFSInv, Exploring
  <1>5. IsGraph(g, n) /\ Found(g, D, n) /\ InLine(g, D, n, q)
    BY <1>4 DEF Frontier
  <1>6. Path!Vertices(g) = 1 .. n
    BY <1>5, VerticesAre
  <1>7. /\ q \in Seq(1 .. n)
        /\ \A k \in DOMAIN q : q[k] \in 1 .. n /\ g.color[q[k]] = "GRAY"
    <2>1. q \in Seq(1 .. n)
      BY <1>5 DEF InLine
    <2>2. \A k \in DOMAIN q : q[k] \in 1 .. n
      BY <2>1, LenProperties, ElementOfSeq
    <2>3. QED
      BY <1>5, <2>1, <2>2 DEF InLine
  <1>8. /\ \A v \in 1 .. n : g.color[v] # "WHITE" => g.distance[v] = D[v]
        /\ \A v \in 1 .. n : D[v] \in Int
    BY <1>5, DistanceIsInt DEF Found
  <1>9. Path!IsInjective(q)
    BY <1>5 DEF InLine, Path!IsInjective
  <1>10. Path!ToSet(q) = {v \in 1 .. n : g.color[v] = "GRAY"}
    BY <1>5, <1>7 DEF InLine, Path!ToSet
  <1>11. ASSUME NEW j \in DOMAIN q, NEW k \in DOMAIN q, j < k
         PROVE  g.distance[q[k]] - g.distance[q[j]] \in {0, 1}
    <2>1. D[q[j]] <= D[q[k]] /\ D[q[k]] <= D[q[j]] + 1
      BY <1>5, <1>11 DEF InLine
    <2>2. g.distance[q[k]] = D[q[k]] /\ g.distance[q[j]] = D[q[j]]
      BY <1>7, <1>8
    <2>3. D[q[j]] \in Int /\ D[q[k]] \in Int
      BY <1>7, <1>8
    <2>4. QED
      BY <2>1, <2>2, <2>3
  <1>12. \A v \in 1 .. n : D[v] = Path!Dist(g, g.source, v)
    BY <1>3 DEF Hops, DistancesOf
  <1>13. QED
    BY <1>3, <1>6, <1>8, <1>9, <1>10, <1>11, <1>12

LEMMA PathsFollow ==
  ASSUME PathInv
  PROVE  ShortestPaths
  <1>1. p_answer # Path!NoAnswer => Right(p_G, p_query[1], p_query[2], p_answer)
    BY DEF PathInv, PathInvOf
  <1>2. QED
    BY <1>1 DEF Right, ShortestPaths, Path!ShortestPaths

LEMMA PathStays == PathInv /\ [Next]_vars => PathInv'
  BY PathKept, ProgramsAssumption DEF Next, vars

(* For graphs of any order, built by any calls that Graph.h allows: every  *)
(* adjacency list stays in ascending order, and in FindPath an edge is in  *)
(* the lists of both its ends, as often in one as in the other.            *)
THEOREM AdjacencyIsRight == Spec => []AdjacencyIsSound
  <1>1. Init => PathInv
    BY PathInit DEF Init
  <1>2. QED
    BY <1>1, PathStays, AdjacencyFollows, PTL DEF Spec

(* At every iteration of BFS, on any graph: the gray vertices are those in *)
(* line, each once, in order of distance and at most two distances among   *)
(* them; and every distance set so far is that of a shortest path.         *)
THEOREM QueueIsRight == Spec => []QueueIsOrdered
  <1>1. Init => PathInv
    BY PathInit DEF Init
  <1>2. QED
    BY <1>1, PathStays, QueueFollows, PTL DEF Spec

(* Whatever graph and query FindPath reads: what it answers is the length  *)
(* of a shortest path and a path of that length, and "no path" only when   *)
(* there is none.                                                          *)
THEOREM PathsAreRight == Spec => []ShortestPaths
  <1>1. Init => PathInv
    BY PathInit DEF Init
  <1>2. QED
    BY <1>1, PathStays, PathsFollow, PTL DEF Spec
=============================================================================

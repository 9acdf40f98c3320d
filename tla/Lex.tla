-------------------------------- MODULE Lex --------------------------------
(***************************************************************************)
(* The program of "Lexicographic Sorting with Custom List ADT/Lex.c": it   *)
(* counts the lines of a file, reads them into an array, sorts their       *)
(* indices by insertion into a list, and writes the lines in that order.   *)
(* A line is the rank of its text and whether a newline ends it, which     *)
(* only the last may lack.  The indices count from 0 as in the code.       *)
(***************************************************************************)
EXTENDS Integers, Sequences, SequencesExt

CONSTANTS Ranks, MaxLines

VARIABLES input,        \* the file
          lineCount, arr,
          L, j,         \* the list of indices, and its cursor
          k,            \* the index being inserted (i in the code)
          out,          \* the lines of the output file
          pc

vars == <<input, lineCount, arr, L, j, k, out, pc>>

Line(rank, ended) == [rank |-> rank, ended |-> ended]

\* What arr[0] points to when getline has read nothing into its new buffer.
Indeterminate == Line(0, FALSE)

\* strcmp(a, b) > 0: a line without its newline is a prefix of the same line
\* with it, and comes first.
After(a, b) == a.rank > b.rank \/ (a.rank = b.rank /\ a.ended /\ ~b.ended)

Init ==
  /\ input = <<>> /\ lineCount = 0 /\ arr = <<>> /\ L = <<>> /\ j = -1 /\ k = 0
  /\ out = <<>> /\ pc = "start"

Open ==
  /\ pc = "start" /\ pc' = "count"
  /\ \E n \in 0 .. MaxLines, ended \in BOOLEAN :
       \E ranks \in [1 .. n -> Ranks] :
         input' = [m \in 1 .. n |-> Line(ranks[m], m < n \/ ended)]
  /\ UNCHANGED <<lineCount, arr, L, j, k, out>>

\* A file cannot be opened: the program exits.
OpenFails ==
  /\ pc = "start" /\ pc' = "failed"
  /\ UNCHANGED <<input, lineCount, arr, L, j, k, out>>

\* lastChar is 0 in an empty file, and so not a newline.
CountLines ==
  /\ pc = "count" /\ pc' = "read"
  /\ lineCount' = Cardinality({m \in DOMAIN input : input[m].ended})
                    + (IF input # <<>> /\ Last(input).ended THEN 0 ELSE 1)
  /\ UNCHANGED <<input, arr, L, j, k, out>>

ReadLines ==
  /\ pc = "read" /\ pc' = "next"
  /\ arr' = [m \in 0 .. (lineCount - 1) |->
               IF m < Len(input) THEN input[m + 1] ELSE Indeterminate]
  /\ L' = <<0>> /\ k' = 1
  /\ UNCHANGED <<input, lineCount, j, out>>

MoveBack ==
  /\ pc = "next" /\ k < lineCount /\ pc' = "insert"
  /\ j' = Len(L) - 1
  /\ UNCHANGED <<input, lineCount, arr, L, k, out>>

\* Slip: the cursor also passes lines that compare equal.
Passes_Equal == j >= 0 /\ ~After(arr[k], arr[L[j + 1]])

Passes == j >= 0 /\ After(arr[L[j + 1]], arr[k])

MovePrev ==
  /\ pc = "insert" /\ Passes
  /\ j' = j - 1
  /\ UNCHANGED <<input, lineCount, arr, L, k, out, pc>>

\* prepend when the cursor has run off the front, insertAfter otherwise.
Insert ==
  /\ pc = "insert" /\ ~Passes /\ pc' = "next"
  /\ L' = InsertAt(L, j + 2, k)
  /\ k' = k + 1
  /\ UNCHANGED <<input, lineCount, arr, j, out>>

\* A line of the output, and the texts that were put on it.
Whole(line) == [text |-> <<line.rank>>, ended |-> line.ended]

\* The line s[q] and the one behind it in one.
Glued(s, q) ==
  [m \in 1 .. (Len(s) - 1) |->
     IF m < q THEN s[m]
     ELSE IF m = q THEN [text |-> s[q].text \o s[q + 1].text, ended |-> s[q + 1].ended]
     ELSE s[m + 1]]

\* A line goes on the last one as long as no newline has ended it.
Fputs(file, line) ==
  LET s == Append(file, Whole(line))
  IN  IF file = <<>> \/ Last(file).ended THEN s ELSE Glued(s, Len(file))

\* Slip: the cursor is left where the last insertion left it.
StartWrite_NotMoved ==
  /\ pc = "next" /\ k >= lineCount /\ pc' = "write"
  /\ UNCHANGED <<input, lineCount, arr, L, j, k, out>>

StartWrite ==
  /\ pc = "next" /\ k >= lineCount /\ pc' = "write"
  /\ j' = 0
  /\ UNCHANGED <<input, lineCount, arr, L, k, out>>

\* fputs of a buffer that was never written may write anything.
WriteLine ==
  /\ pc = "write" /\ j >= 0
  /\ \/ out' = Fputs(out, arr[L[j + 1]])
     \/ input = <<>> /\ UNCHANGED out
  /\ j' = IF j + 1 < Len(L) THEN j + 1 ELSE -1
  /\ UNCHANGED <<input, lineCount, arr, L, k, pc>>

EndWrite ==
  /\ pc = "write" /\ j < 0 /\ pc' = "done"
  /\ UNCHANGED <<input, lineCount, arr, L, j, k, out>>

Next ==
  \/ Open \/ OpenFails \/ CountLines \/ ReadLines
  \/ MoveBack \/ MovePrev \/ Insert
  \/ StartWrite \/ WriteLine \/ EndWrite

-----------------------------------------------------------------------------
(* The list is sorted after each insertion, lines that are the same in the *)
(* order of the file, and its indices are those read so far.  The lines of *)
(* a file that is not empty are written each once in the order of the      *)
(* list; the one without a newline has the next glued to it, unless it is  *)
(* the last in that order too.                                             *)
LexSorts ==
  /\ pc \in {"next", "insert", "write", "done"} =>
       /\ ToSet(L) = 0 .. (k - 1) /\ Len(L) = k
       /\ \A m, n \in DOMAIN L : m < n =>
            ~After(arr[L[m]], arr[L[n]]) /\ (arr[L[m]] = arr[L[n]] => L[m] < L[n])
  /\ pc = "done" /\ input # <<>> =>
       LET n == Len(input)
           line == [m \in 1 .. n |-> input[L[m] + 1]]
           lines == [m \in 1 .. n |-> Whole(line[m])]
       IN  /\ Len(L) = n
           /\ (\A q \in 1 .. (n - 1) : line[q].ended) => out = lines
           /\ \A q \in 1 .. (n - 1) : ~line[q].ended => out = Glued(lines, q)

(* README.md: Lex.c "reads all lines from an input file", sorts them and   *)
(* "writes the sorted output to a file": the output has the lines of the   *)
(* input.  The last line of the input need not end in a newline.           *)
OutputHasTheLines ==
  pc = "done" /\ input # <<>> =>
    /\ Len(out) = Len(input)
    /\ \A m \in DOMAIN out : out[m].text = <<input[L[m] + 1].rank>>
=============================================================================

------------------------- MODULE SequentialPrograms -------------------------
(***************************************************************************)
(* The programs of a single thread for one model run: the HTTP server if   *)
(* `serving', else one of the command-line programs.                       *)
(***************************************************************************)
EXTENDS Programs, HttpServerProperties

VARIABLE serving

\* What does not run has one initial state.
SequentialInit ==
  /\ Init /\ HttpInit
  /\ serving \in BOOLEAN
  /\ IF serving THEN program = "Lex" ELSE file.kind = "absent"

SequentialNext ==
  \/ serving /\ HttpNext /\ UNCHANGED <<serving, vars>>
  \/ ~serving /\ Next /\ UNCHANGED <<serving, httpVars>>

\* The server's fairness; the programs owe nothing.
SequentialSpec ==
  /\ SequentialInit /\ [][SequentialNext]_<<serving, vars, httpVars>>
  /\ WF_httpVars(Working)
=============================================================================

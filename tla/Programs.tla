------------------------------ MODULE Programs ------------------------------
(***************************************************************************)
(* The five command-line programs for one model run: `program' says whose  *)
(* behaviour it is, the other four stay where they start.                  *)
(***************************************************************************)
EXTENDS Integers

CONSTANTS Orders, PathArcs, PathClientArcs,     \* FindPath
          ComponentArcs,                        \* FindComponents
          N, Magnitudes,                        \* Sparse
          Ranks, MaxLines,                      \* Lex
          BUFFER_SIZE, Lengths, Faults, None    \* memory

\* The assumptions of the five modules, on the constants that stand for theirs:
\* data that 1.5 times is still an integer, and a buffer that holds the
\* command and its newline.
ASSUME ProgramsAssumption ==
  /\ Orders \subseteq Nat /\ {PathArcs, PathClientArcs, ComponentArcs} \subseteq Nat
  /\ N \in Nat /\ \A v \in Magnitudes : v \in Nat /\ v % 2 = 0
  /\ Ranks \subseteq Nat /\ MaxLines \in Nat
  /\ BUFFER_SIZE \in Nat \ 0 .. 6 /\ Lengths \subseteq Nat
  /\ Faults \subseteq {"read", "write", "open"}

VARIABLES program,
          p_G, p_pc, p_l, p_u, p_i, p_main, p_query, p_answer,
          c_G, c_S, c_pc, c_next, c_stack, c_at, c_time,
          c_main, c_first, c_edges, c_entered, c_printed,
          s_A, s_B, s_C, s_main,
          x_input, x_lineCount, x_arr, x_L, x_j, x_k, x_out, x_pc,
          m_file, m_pc, m_input, m_buf, m_pos, m_buf_index, m_bytes_in_buffer,
          m_content_length, m_out, m_status, m_before, m_failed

pathVars == <<p_G, p_pc, p_l, p_u, p_i, p_main, p_query, p_answer>>
componentVars == <<c_G, c_S, c_pc, c_next, c_stack, c_at, c_time,
                   c_main, c_first, c_edges, c_entered, c_printed>>
sparseVars == <<s_A, s_B, s_C, s_main>>
lexVars    == <<x_input, x_lineCount, x_arr, x_L, x_j, x_k, x_out, x_pc>>
memoryVars == <<m_file, m_pc, m_input, m_buf, m_pos, m_buf_index, m_bytes_in_buffer,
                m_content_length, m_out, m_status, m_before, m_failed>>

Path == INSTANCE FindPath
          WITH MaxArcs <- PathArcs, ClientArcs <- PathClientArcs,
               G <- p_G, pc <- p_pc, l <- p_l, u <- p_u, i <- p_i,
               main <- p_main, query <- p_query, answer <- p_answer
Components == INSTANCE FindComponents
                WITH MaxArcs <- ComponentArcs,
                     G <- c_G, S <- c_S, pc <- c_pc, next <- c_next, stack <- c_stack,
                     at <- c_at, time <- c_time, main <- c_main, first <- c_first,
                     edges <- c_edges, entered <- c_entered, printed <- c_printed
Sparse == INSTANCE SparseMatrix
            WITH A <- s_A, B <- s_B, C <- s_C, main <- s_main
Sorter == INSTANCE Lex
            WITH input <- x_input, lineCount <- x_lineCount, arr <- x_arr, L <- x_L,
                 j <- x_j, k <- x_k, out <- x_out, pc <- x_pc
Store == INSTANCE Memory
           WITH file <- m_file, pc <- m_pc, input <- m_input, buf <- m_buf,
                pos <- m_pos, buf_index <- m_buf_index,
                bytes_in_buffer <- m_bytes_in_buffer,
                content_length <- m_content_length, out <- m_out,
                status <- m_status, before <- m_before, failed <- m_failed

\* The programs that begin in several ways differ in where main is.
Init ==
  /\ Path!FindPathInit /\ Components!FindComponentsInit
  /\ Sparse!Init /\ Sorter!Init /\ Store!Init
  /\ program \in {"FindPath", "FindComponents", "Sparse", "Lex", "memory"}
  /\ program # "FindPath" => p_main = "order"
  /\ program # "FindComponents" => c_main = "order"

Next ==
  /\ UNCHANGED program
  /\ \/ /\ program = "FindPath" /\ Path!FindPathNext
        /\ UNCHANGED <<componentVars, sparseVars, lexVars, memoryVars>>
     \/ /\ program = "FindComponents" /\ Components!FindComponentsNext
        /\ UNCHANGED <<pathVars, sparseVars, lexVars, memoryVars>>
     \/ /\ program = "Sparse" /\ Sparse!Next
        /\ UNCHANGED <<pathVars, componentVars, lexVars, memoryVars>>
     \/ /\ program = "Lex" /\ Sorter!Next
        /\ UNCHANGED <<pathVars, componentVars, sparseVars, memoryVars>>
     \/ /\ program = "memory" /\ Store!Next
        /\ UNCHANGED <<pathVars, componentVars, sparseVars, lexVars>>

vars == <<program, pathVars, componentVars, sparseVars, lexVars, memoryVars>>

Spec == Init /\ [][Next]_vars

-----------------------------------------------------------------------------
(* FindPath answers with the length of a shortest path and such a path.    *)
ShortestPaths == Path!ShortestPaths

(* BFS keeps its queue in order of distance, each gray vertex in it once.  *)
QueueIsOrdered == Path!QueueIsOrdered

(* The adjacency lists stay sorted, an edge is entered at both ends.       *)
AdjacencyIsSound == Path!AdjacencyIsSound

(* The calls of DFS_Visit nest, and so do the times they record.           *)
VisitsNest == Components!VisitsNest

(* FindComponents prints the strongly connected components, in an order    *)
(* that every arc between two of them follows.                             *)
ComponentsAreRight == Components!ComponentsAreRight

(* getSize is the number of edges as long as addEdge enters new edges     *)
(* between two vertices, and at most that; no arc is in a list twice.      *)
SizeCountsEdges == Components!SizeCountsEdges

(* Every operation on sparse matrices gives what it gives on dense ones.   *)
SparseMatchesDense == Sparse!SparseMatchesDense

(* The lines of a file come out sorted, each once, equal lines in order,   *)
(* with one glued to a line that has no newline.                           *)
LexSorts == Sorter!LexSorts

(* What set stores is what was sent, from its first byte and as long as    *)
(* announced; get prints all of it; a command that is refused changes      *)
(* nothing.                                                                *)
MemoryIsKept == Store!MemoryIsKept
=============================================================================

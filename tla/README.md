# Verification of C-Lang-Coding-Projects

TLA+ models of the C programs of this repository, checked with TLC on small
instances and, but for the matrices, proved with TLAPS for every number of threads,
connections, files, nodes and vertices.  Paths below are relative to the repository's root.

## 1. The system

The repository is a set of C programs.  Three of them run threads; one of those
(the multi-threaded server) uses the other two (the lock and the queue).  The
rest are sequential.

| Part | Files | State it keeps | Operations | Interaction |
|---|---|---|---|---|
| Reader-writer lock | `Concurrent Data Structures/rwlock.c` | a mutex, a condition variable, counts of active and waiting readers and writers, the quota's count, the policy | `rwlock_new`, `reader_lock/unlock`, `writer_lock/unlock`, `rwlock_delete` | called by the server's workers, one lock per URI in use |
| Bounded queue | `Concurrent Data Structures/queue.c` | a ring of slots, two indices, a mutex for each end, two semaphores | `queue_new`, `queue_push`, `queue_pop`, `queue_delete` | carries connections from the server's main thread to its workers |
| Multi-threaded HTTP server | `Multi-Threaded HTTP Server/httpserver.c` | the job: queue, URI lock table, audit lock; per worker its connection, slot and result; the files | create workers, accept, dispatch, GET, PUT, audit, close | workers share the job and the file system; clients see replies and the log |
| Single-threaded HTTP server | `HTTP Server/httpserver.c` | one connection's buffer, the parsed request, the files | receive, parse, validate, GET, PUT | one connection at a time |
| Command-line memory | `Command-Line Memory/memory.c` | a buffer, the file | `get`, `set` | standard input to file |
| List ADT | `*/List.c` (three copies that differ in a comment, and one whose elements are pointers) | doubly linked nodes, front, back, cursor, cached index, length | the 24 operations of `List.h` | used by the graphs, the sorter and the matrices |
| Graph ADT with BFS | `Graph ADT with BFS & Shortest Paths` | adjacency lists, colours, parents, distances | edges, `BFS`, `getPath` | on lists |
| Graph ADT with DFS | `Graph ADT with DFS and Strongly Connected Components` | adjacency lists, colours, discover and finish times | edges, `DFS`, `transpose`, Kosaraju's algorithm in `FindComponents.c` | on lists |
| Matrix ADT | `Matrix ADT with Sparse Matrix Operations` | one list of entries per row | sparse arithmetic | on lists |
| Lexicographic sorter | `Lexicographic Sorting with Custom List ADT/Lex.c` | an array of lines, a list of indices | count, read, insertion sort, print | on lists |

What is hard, and what makes each part correct:

* **Lock.** One condition variable serves both classes, and the unlocks skip the
  broadcast when the waiting counters are zero: exclusion, right counters, no
  lost wakeup, no standstill between the classes, a bounded number of overtakings
  under each policy, progress for the classes the policy favours.
* **Queue.** Push and pop run under different mutexes, so that only the two
  semaphores keep them off the same slot: FIFO, nothing lost or doubled, no
  stall, no race on a slot.
* **Multi-threaded server.** Slots of the lock table are recycled between URIs
  while workers come and go; calls fail half way; the audit line is written
  after the lock is released; a client may never finish its upload.  Requests
  must be atomic, files never touched by a reader and a writer at once, every
  connection closed and audited once.
* **Single-threaded server and command-line memory.** Short reads and writes,
  chunk boundaries, files truncated before the body has arrived.
* **Sequential ADTs.** Long sequences of legal calls: the list's cursor and its
  cached index, the size of a graph after duplicate edges, shortest paths,
  strongly connected components, sums that cancel to zero.

The full list of what a test would hardly reach, each at its line, is under
`hazards` in `PROJECT.json`.

## 2. The modules

| Module | Models |
|---|---|
| `ReadersWriters` | abstract: what a reader-writer lock promises |
| `RWLock` | `rwlock.c` |
| `RWLockProperties` | its invariants, its progress, the refinement of `ReadersWriters` |
| `RWLockBypass` | `RWLock` with a history variable that counts overtakings |
| `RWLockProofs` | its invariants, the overtaking bounds and the refinement of `ReadersWriters`, proved |
| `Fifo` | abstract: what a bounded queue promises |
| `BoundedQueue`, `BoundedQueueProperties` | `queue.c` |
| `ConcurrentStructures` | the lock and the queue side by side, for one run |
| `BoundedQueueProofs` | its invariants and the refinement of `Fifo`, proved |
| `FileStore` | abstract: what overlapping requests may rely on |
| `JobServer`, `JobServerProperties`, `JobServerMC` | the multi-threaded server |
| `JobServerProofs` | its invariants and the refinement of `FileStore`, proved |
| `CursorList` | abstract: what `List.h` promises, a sequence with a cursor |
| `ListADT`, `ListADTProperties`, `ListADTMC` | `List.c` |
| `ListADTProofs` | its invariants and the refinement of `CursorList`, proved |
| `HttpServer`, `HttpServerProperties` | the single-threaded server |
| `HttpServerProofs` | that its answers fit the requests, proved |
| `GraphBFS`, `FindPath` | the graph with BFS, and the program over it |
| `GraphDFS`, `FindComponents` | the graph with DFS, and the program over it |
| `SparseMatrix` | the matrices and the program `Sparse.c` |
| `Lex` | the sorter |
| `Memory` | the command-line memory |
| `Programs` | the five command-line programs side by side |
| `SequentialPrograms` | `Programs` and the single-threaded server, for one run |
| `ProgramsProofs` | what the memory, the sorter and breadth-first search compute, proved |
| `ComponentsProofs` | the graph with DFS, proved |
| `CommonLemmas` | lemmas on numbers and sequences that several of the proofs need, and on the record that depth-first search leaves in a graph |

An operator whose comment says *Slip* is not part of the model: it is a plausible
bug in the definition that follows it, and stands there to show that a property
notices it.

### RWLock

The variables are the fields of `struct rwlock` (the mutex is implicit), the set
`condition` of threads asleep in `pthread_cond_wait`, and `pc`.  Every field is
accessed only with the mutex held and `pthread_cond_wait` releases it and sleeps
in one step, so the code between two releases of the mutex is one action:
`reader_lock` is the call up to the first wait or the return; `ReaderWoken` is the
return from the wait, the re-test of the `while` condition and either another wait
or the rest of the function; the two unlocks are one action each.  A waiting thread
outside `condition` was woken and has not got the mutex yet, so other threads may
overtake it, as they may in the program.  `SpuriousWakeup` is POSIX's licence.
`rwlock_new` stores a `uint32_t` in an `int`: `ToInt` wraps it at width
`2 * HalfWord`.  `ReaderMustWait` and `WriterMustWait` are the two `while` conditions.

### BoundedQueue

No critical section covers both ends, so each access to the shared structure is an
action: `sem_wait`, lock, slot, index, unlock, `sem_post`.  Both `sem_wait` calls are
guards; a thread blocked on a mutex is one whose lock action is disabled.  `Fifo`'s
contents are computed from the ring: an element is in it from its write to its
read, and `Contents` follows from the indices and the threads that are between an
access and the advance of the index.

### JobServer

`main` creates the workers one by one (or fails, deletes the job and returns), then
accepts and pushes.  Each worker's `pc` is its place in `handle_request` and the
functions it calls, `local` its variables: the connection, the `rwlock` it was given,
`res`, what `stat` saw, the temporary file, whether the file existed.

| Code | Actions |
|---|---|
| `main` | `CreateWorker`, `CreateFails`, `ls_accept`, `job_push` |
| `handle_thread`, `job_pop`, `job_start`, `job_end` | `job_pop`, `job_start`, `job_end` |
| `handle_request` | `ParseMalformed`, `ParseOther`, `ParseOk`, `Audit`, `AuditCrashes`, `Close` |
| `job_reader_lock_uri`, `handle_get`, `job_reader_unlock_uri` | `GetSlot`, `reader_lock`, `Stat`, `OpenAndSend`, `job_reader_unlock_uri` |
| `handle_put`, `job_writer_lock_uri`, `job_writer_unlock_uri` | `MakeTemp`, `conn_recv_file`, `PutSlot`, `writer_lock`, `Access`, `Rename`, `RenameFails`, `job_writer_unlock_uri`, `Respond` |

A section under `job_lock` or `audit_lock` is one action, because nothing in it
blocks.  Looking up the slot and locking its `rwlock` are two actions, because
`job_lock` is released in between.  The program links the lock and the queue from a
prebuilt archive; they are used here as `ReadersWriters` and `Fifo` specify them, which
the other modules show of the sources in this repository.  Files are pairs of a kind
(absent, a directory, unreadable, readable from the start, a whole or a torn upload)
and the connection whose PUT wrote them, so that a reply can be compared with the
upload it should have come from.  Names, headers and bodies are not represented.
`Faults` names the calls that may fail in a run.  An `open` that fails with `EACCES` is answered
403, with anything else 500.

What the sending functions return is dropped: `conn_send_file` (line 263) like
`conn_send_response`, so the server goes on in one way whether or not an answer arrived.
`reply` is therefore the answer the server set out to send, and `cut` has the clients that did
not get all of it.  What is checked about replies, and what the audit log says, is about the
first: a GET whose answer broke off is logged as 200.

`FileStore` has one atomic action per request, the outcome of which is decided there.  The
refinement maps a request's effect to the rename of a PUT, to the `open` of a GET, and to the
`stat` of one that does not get that far.  One of its actions is no client's wish: `Tear`, an
upload that breaks off, is answered 500 and installed.  That the README promises otherwise is
`FailedPutsStoreNothing`, which `server_torn_upload` refutes.

### ListADT

`heap` maps the allocated nodes to their `data`, `next` and `prev`, and `list` each `List`
variable of a client to the fields of its struct, or to NULL before `newList` and after
`freeList`.  One call is one action, named after the function, since lists are used by
one thread.  `Prepended`, `Appended`, `WithoutFront` and `WithoutBack` say what these four do
to a struct and the heap; `insertBefore`, `insertAfter`, `delete`, `copyList` and `concatList`
call them as the code does.  Reading through NULL is `Crash` and a failed precondition
is `Exit`; both end the process.  The refinement reads the elements off the links.
`CursorList` has an action for each operation of `List.h`, with its name, and the one departure
from `List.h` that the code makes: a cursor that is *lost*, with an index and no element.
`ImplementsCursorList` asks two things: that every step is one of the sequence's, and, in
`DoesWhatItSays`, that a call is the action of its own name, since the first alone
would let `moveFront` be a correct `moveBack`.

### HttpServer

A client is a request whose header and body come byte by byte: `Send` delivers the next
byte, `Leave` closes the connection, and neither is ever owed.  `Recv` takes any number of
the bytes that are waiting, up to the limit of the header; `RecvNothing` is the poll that
finds nothing.  Then `parse_req`, `validate_req` and the handlers are actions in the order
of `handle_connection`; the body of a PUT is written in three steps (`OpenPut` truncates,
`WriteBody` writes what came with the header, `PassSome` passes the rest as it comes).  What
the regular expressions accept is the request's `form`.  `errno` is a variable of the
process because `parse_header_field` reads it: each step says whether it leaves `ERANGE` in it,
overwrites it, or leaves it alone.  `found` records the file and `errno` at the time a
connection came, and the call that failed since, so that a status that only a failure
explains is accepted only after one.

### GraphBFS and FindPath, GraphDFS and FindComponents

A graph is a record of the struct's arrays; an adjacency list is the sequence `ListADT`
shows a list to be, because each use moves the cursor to an end first.  Functions that only
build (`addArc`, `addEdge`, `transpose`, `getPath`) are operators.  `BFS` is a loop of
`Dequeue`, `Scan` (one neighbour) and `Explored`.  `DFS` is `NextRoot`, `Visit` (one neighbour,
which may be a call), `Leave` (a return) and `EndDFS`, with the active calls of `DFS_Visit` on
`stack` and the cursor of each adjacency list in `at`, since it belongs to the list and not
to the call.  `main` of each program reads any graph within the bounds, in any order of
arcs, and any queries.  A second client (`Call...`) makes the calls that `main` does not;
`edges` counts its calls of `addEdge`, and `entered` has the edges that they entered, so that
`NumberOfEdges` can count two arcs as one edge.

### SparseMatrix, Lex and Memory

`SparseMatrix` builds two matrices by any sequence of `changeEntry` calls and then computes what
`Sparse.c` prints, in its order.  Doubles are integers, so nothing is rounded.  In `Lex` a
line is the rank of its text and whether a newline ends it; a buffer that `getline` never
filled is an arbitrary line.  A line of the output holds the texts that were put on it:
`fputs` begins a new one only behind a newline (`Fputs`, `Glued`).  `Memory` numbers the
bytes of the content, so that the file shows which of them were stored; `BUFFER_SIZE` is a
parameter and lengths lie on both sides of its multiples.  A `write_bytes` that fails leaves
any shorter part of its chunk, in `set` in the file and in `get` on the output, and `failed`
remembers it; `get` goes on with the next chunk.

`Programs` puts the five programs next to each other: `program` says whose behaviour it is, and
the other four do not move.  `SequentialPrograms` adds the single-threaded server in the same
way, and `ConcurrentStructures` does it for the lock and the queue.  Nothing is shared between
the parts: they are runs in one, and the state of a part that does not run is one of its
initial states.

## 3. What is checked

| Run | Question | Instance |
|---|---|---|
| `structures` | the lock: exclusion, counters, lost wakeups, standstill, quota, overtaking, progress of the favoured classes, refinement of `ReadersWriters`; the queue: accounting, races, refinement of `Fifo`, no stall | 4 threads, all policies, n in {0, 1, 2, 15}; 2 producers, 2 consumers, rings of 1 to 3; fairness; 271 556 states |
| `rwlock_starvation` | *violated*: "Prevents starvation for both readers and writers" | 3 threads, READERS and WRITERS |
| `server_locks` | the URI lock table while slots are recycled | 3 workers, connections and URIs; 53 869 states with symmetry |
| `server_faults` | atomic requests, as `FileStore` has them, and the audit log under every failure modelled; every connection is handled to its end | 2 workers, 2 connections, one URI, every kind of request, file and fault, one upload that may stall, fairness; 120 638 states |
| `server_torn_upload` | *violated*: "Atomic request processing", "No race conditions or data corruption" | one PUT whose body breaks off |
| `server_audit_order` | *violated*: the log "Defines total ordering (linearization) of requests" | 2 workers |
| `list` | links, leaks, cursor and index, `equals`, refinement of `CursorList` call by call | 3 lists, 4 nodes in all, 2 values; 3 454 states with symmetry |
| `list_delete` | *violated*: an undefined cursor has index -1 | 1 list, 4 nodes |
| `http_stray_errno` | *violated*: 400 is for malformed requests | no faults |
| `programs` | paths, components, matrices, sorting, memory; in the HTTP server, answers that fit the request and the file, and connections that end | 4 vertices, matrices of 2 by 2, 4 lines, a buffer of 8; header limit 3, lengths 0, 1 and 3, every form, kind of file and fault, fairness; 1 027 319 states |
| `graph_size` | *violated*: `getSize` "returns the number of edges in G" | graphs of up to 2 vertices |
| `lex_unterminated` | *violated*: `Lex.c` "writes the sorted output" of "all lines" | 2 lines |

Why the bounds are enough:

* The lock compares counters with zero and with `N`.  Four threads are a holder and,
  behind it, two of one class and one of the other; quotas -1, 0, 1 and 2 are below, at and
  above what one reader uses.  `HalfWord = 8` makes n = 15 wrap to -1.  READERS and WRITERS do
  not look at N, so that the run gives it one value there.  `Cap = 4` stops the history variable, above each bound that is stated.
* A ring of one slot makes front and back always coincide, one of two with two
  producers and two consumers can be full and empty with both mutexes taken, and
  one of three wraps while it is neither.  Two values tell two elements apart.
* With three workers, URIs and slots two requests share a slot while a third has another, and
  a slot that one URI gave back is taken for the next and then shared.  (That a slot is
  recycled *while* another is shared takes a fourth connection; `TableIsRight` covers it.)
  `server_faults` has all failures, but two requests, which is what it takes to
  interleave, and one URI, on which they meet; requests of different URIs meet only in the
  lock table, and `server_locks` is about it.  The upload that stalls leaves one worker, which
  must not need what the other holds.  Each connection makes one request, as in the code.
* A list of three is the shortest with a middle to delete from, and one of four lets the
  lost index be passed by `deleteBack` and become the last.  Two other lists take part in
  `copyList`, `concatList` and `equals`.
* In the HTTP server a header of one byte leaves room for a body behind it, one of three fills the
  limit and one of four exceeds it; the body may be shorter than, as long as, or longer than
  the length announced (0, 1 and 3 against what is left of the limit).  Two connections in a row are enough for a stale `errno`, and the
  run bounds their number by nothing.
* Four vertices and five arcs make two cycles joined by an arc, two components behind one,
  a vertex found on two ways of different length, and vertices not found.  `Orders` holds 0
  as well.  Three edges and a fourth vertex make the longest path; `PathClientArcs` bounds
  the second client.
* A row of a matrix has two positions, so an entry is put before, behind, onto or in place
  of another, and sums and products cancel.  Four lines of three ranks repeat and order
  lines in every way.
* The buffer of 8 holds the header of `set` and two bytes of content; lengths 1, 2 and 3 end
  just before, at and behind its end, 10, 11, 18 and 19 at and behind that of the second
  and the third buffer.
* In `server_locks` workers, connections and URIs are symmetric, and in `list` nodes, lists and
  values (no step looks at an identity); neither run has liveness.  `ImplementsCursorList` is
  checked with it: the refined specification has no fairness and treats lists and values
  alike.  `Cardinality(Workers)` slots are numbered and never permuted.

`CHECK_DEADLOCK FALSE` in the server's runs: once the given connections are handled all
workers wait in `queue_pop`, as in the program when no client comes.  In the list's runs it
is there because the process ends at a failed precondition, and in `programs` because each
command-line program ends; that the HTTP server does not stop is `ConnectionsEnd`.

### Fairness

`RWLock`: weak fairness of the return from `pthread_cond_wait` for a woken thread and of
both unlocks for a holder, since the code between lock and unlock is finite.  No call of
a lock is ever forced, nor any spurious wakeup.  `StronglyFairSpec`, used only by
`rwlock_starvation`, grants a waiting thread also that it gets the mutex at some moment when
it could enter, if there is such a moment again and again: the starvation shown is the
policy's and not the scheduler's.  `BoundedQueue`: weak fairness of each thread inside a
call, per thread, and of the next call of a consumer, because the workers pop in a loop; no
producer has to push, and no thread is promised its turn at a mutex or a semaphore, only
that somebody gets it.  `JobServer`: weak fairness of the threads, and of the return of
calls into the file system and the network except the body of a `Slow` client.  `HttpServer`:
weak fairness of the server's own step, whose reads return or time out; no call is bound
to fail (a failure would end a connection that otherwise hangs), and clients need not
send or leave.

### Findings

1. Under READERS, overlapping readers starve a writer; under WRITERS, overlapping writers a
   reader.  The README of the data structures promises neither happens.  N_WAY with
   n > 0 serves both, which `structures` checks.
2. The audit line is written after the URI's lock is released, so two overlapping
   requests can be logged in an order no serial execution explains.
3. A PUT to the multi-threaded server whose body does not arrive completely is answered 500 and
   still renames the partial file onto the URI, against the README's "Atomic request
   processing" and "No ... data corruption".
4. `delete` of an element that is neither first nor last leaves the cursor NULL and an index
   of 0 or more, against `List.h`; `get` and `set` then accept the list and read through NULL.
5. The single-threaded server tests `errno` for `ERANGE` without clearing it before `strtoul`:
   after a request with an over-long Content-Length, well-formed requests are answered 400
   until some call fails with another error.
6. `addEdge` takes one off `size` whatever its two calls of `addArc` entered, so that `getSize` is
   below the number of edges after a loop, or after an edge entered again, and may be
   negative; `Graph.h` says that it is the number of edges.  `SizeCountsEdges` says when it is.
7. A last line without a newline is written by `Lex.c` where it sorts, and the line behind it is
   put on the same line of the output.

Seen while modelling and not given a run:

* Multi-threaded server: an unsupported method leaves `res` NULL, and the audit line
  dereferences it (`AuditCrashes`).  When `pthread_create` fails after the first worker
  (`CreateFails`), `main` frees the job under the workers that run.  A GET whose
  `conn_send_file` fails is logged with 200.
* Single-threaded server: a PUT whose client leaves early is answered 200 or 201 with a
  shorter file; one that fails leaves the file truncated or partly written.  While a client
  keeps its connection open and its header incomplete, the server polls and serves nobody
  else (`ConnectionsEnd` has to ask for the header).
* Graphs: the one with BFS keeps duplicate arcs.
* Command-line memory: a `get` whose output cannot be written drops the failure, goes on with
  the next chunk and ends with 0, where the README's error handling ("Operation Failed",
  "Partial reads/writes") suggests otherwise; `MemoryIsKept` says what is printed then.
  `strtok` passes over an empty line in the header that `buf_index` does
  not count, so that `set` stores from one byte too early.
* Sorter: the test for an empty file is never true (`Lex.c:84`), and a buffer that was never
  filled is written.

## 4. What is proved

Each theorem holds for every value of the constants that its module's assumptions allow.

**Assumptions.** `RWLockAssumption`: finitely many threads, an `int` that can count them.
`CapAssumption`: the history variable's cap is a number.  `QueueAssumption` and
`ServerAssumption`: finite sets of threads, a queue with at least one slot.  `HttpAssumption`:
a header limit of at least one byte, lengths that are numbers, and the calls that can fail.
`ListAssumption`: finitely many nodes, since a list that is walked must end.  The queue's and the server's
assumptions and `NoReplyAssumption` also say that `None`, which stands for an unlocked mutex, an
empty slot, a closed descriptor or no reply, is none of the values it is told apart from, and
`ListAssumption` and `NullAssumption` that `NULL` is no node, no struct and no sequence (in the
code these are different fields, or -1 and NULL against descriptors and pointers).
`ProgramsAssumption` has sizes that are numbers, and a buffer with room for the command line.

| Module | Theorem | States |
|---|---|---|
| `RWLockProofs` | `TypeCorrect` | `[]TypeOK`; no counter is ever negative |
| | `CountersAreRight` | `[](TypeOK /\ Counting)` |
| | `MutualExclusion` | `[]Exclusion` |
| | `WakeupsAreNotLost` | `[]NoLostWakeup` |
| | `SomeoneCanGoOn` | `[]NoStandstill` |
| | `QuotaIsKept` | `[]Quota` |
| | `CountersStayInRange` | `[]NoOverflow` |
| | `LockIsReadersWriters` | `Spec => ImplementsReadersWriters` |
| | `PoliciesBoundOvertaking` | `HSpec => []Overtaking` |
| `BoundedQueueProofs` | `TypeCorrect` | `[]QueueTypeOK`; no index leaves the ring, no semaphore goes below zero |
| | `SlotsAreAccountedFor` | `[]Accounting` |
| | `NoRaceOnASlot` | `[]NoSlotRace` |
| | `QueueIsFifo` | `QueueSpec => ImplementsFifo` |
| `JobServerProofs` | `TypeCorrect` | `[]TypeOK` |
| | `TableIsRight` | `[]UriTable` |
| | `SlotsSuffice` | `[]SlotForEveryUri` |
| | `FilesAreExclusive` | `[]FileExclusion` |
| | `SizesMatch` | `[]SizeMatchesFile` |
| | `LogAgreesWithReplies` | `[]AuditMatchesReplies` |
| | `RequestsAreAtomic` | `Spec => ImplementsFileStore` |
| `HttpServerProofs` | `AnswersFitRequests` | `[]RepliesFitRequests` |
| `ListADTProofs` | `TypeCorrect` | `[]TypeOK` |
| | `LinksAgree` | `[]WellLinked` |
| | `CursorIsAtItsIndex` | `[]CursorAtIndex` |
| | `EqualsIsRight` | `[]EqualsComparesElements` |
| | `ListsAreSequences` | `Spec => ImplementsCursorList` |
| `ProgramsProofs` | `MemoryIsRight` | `Spec => []MemoryIsKept` |
| | `LexIsRight` | `Spec => []LexSorts` |
| | `AdjacencyIsRight` | `Spec => []AdjacencyIsSound` |
| | `QueueIsRight` | `Spec => []QueueIsOrdered` |
| | `PathsAreRight` | `Spec => []ShortestPaths` |
| `ComponentsProofs` | `SizeIsRight` | `Spec => []SizeCountsEdges` |
| | `VisitsAreNested` | `Spec => []VisitsNest` |
| | `ComponentsAreFound` | `Spec => []ComponentsAreRight` |

**The lock.**  `TypeOK` alone is not inductive: an unlock could take a counter below
zero.  `Counting` ties each counter to the number of threads at the matching place, and the
lemma `Moves` says how these numbers change when one thread moves; `TypeOK /\ Counting` is
inductive.  Exclusion is then a fact about counters: `Held` says that an active
writer is the only holder, it is preserved by every step, and a set with one element
has no second one.  `NoLostWakeup` is inductive together with the counters: a step that makes
a `while` condition false is an unlock, which wakes everybody or finds nobody waiting, or
it lets a reader in, which is possible only when the sleepers that remain still have to wait.
`NoStandstill` follows: with no holder and both conditions true, the readers wait for writers
and the writers for readers, on opposite sides of the quota.  For the refinement a step that
lets a reader in finds no writer, and one that lets a writer in finds the lock free, by
`Counting` and the two `while` conditions; all other steps but the unlocks are stutters.

**Overtaking.**  The bound on the history variable is not inductive: nothing in it stops the
next reader from passing a writer that N readers have passed.  `PassedByFew` ties it to the
quota: a waiting writer has been passed by no more readers than were charged to the quota
(`passed[t] <= readers_since_last_write`, which `Quota` bounds by N), and a reader that a writer
has passed finds that writer inside or a fresh quota, so that no second writer is let in.

**The queue.**  The two ends share no lock, so that the race is excluded by numbers only.
`Accounting` says that free slots, full slots and threads between the two semaphores add
up to `size`.  `RingIsFilled` adds where they are: `back` is as far after `front` as there are
posted elements, pushes past the advance of `back` and pops before that of `front`.
`EndsAreLocked` makes the critical sections exclusive.  When a producer writes and a consumer
reads, that distance is at least 1 and less than `size`, so the slots differ.  For the
refinement, `Contents` is laid out from `front` (`ContentsAreLaidOut`), a write appends to it and a
read takes its head, and every other step leaves it as it is although `front`, `back` and the
counts under it change.

**The multi-threaded server.**  `TypeInv` is the types with `UriTable`: a count of the table is
the number of workers that hold the slot, so a count in use is positive when it is
decremented, and a slot with a positive count keeps its URI.  `LocksAreHeld` says that those
inside a slot's `rwlock` are the workers at the places between lock and unlock, and that
writers are alone; two workers with one URI have one slot by the table, and so
`FileExclusion` follows, and with it that the size a GET took is still right when it opens the
file.  That as many slots as workers are enough is counting: the worker that looks for a slot
holds none.  The log needs ownership: `EachIsHeldOnce` says that a connection is with
`main`, in the queue or with one worker, `LogIsRight` that a line is written when its worker is
about to close it, after the reply.

For `RequestsAreAtomic` the invariant has to say what each worker knows (`StoreInv`): nobody
is answered before its request is taken up, whatever the worker was told by `stat` and
`access` is still so, and a result that is set is the one `FileStore` would give now.  The
outcome of a connection is then computed from its reply and its only worker
(`OutcomeHeld`, `HoldersAreOne`); each step of a worker either leaves every outcome alone
(`UndecidedStays`, `DecidedStays`, `HandingOnStays`) or is exactly one action of `FileStore`
(`RefusingRefines`, `GettingRefines`, `PuttingRefines`).  The server is proved over the abstract lock
and queue; `LockIsReadersWriters` and `QueueIsFifo` are what ties these to the code.

**The single-threaded server.**  What holds of an answer is the end of a chain of facts:
`PhaseInv` says for each place of `handle_connection` what is known of the request, of the
bytes taken and of the file (untouched up to `OpenPut`; then a prefix of the body, as long as
what was passed), and `Refusal` which status an error may carry.  The status the code computes
and the one the README's table asks for (`Due`) are compared once, in `ValidityFits`.

**The list.**  The properties are about what a walk along `next` meets, and are not inductive:
nothing in them says that the links back agree, or that two lists share no node.  `Sound`
says it with witnesses: there is for every list a *row*, a function from positions to nodes,
without repetition, that agrees with `next`, `prev`, `front`, `back`, `length` and the cursor's
index, and the rows divide up the heap, so that no node is shared and none is leaked.  All
that the operations do to links is putting one node into a row at a position or taking
one out (`PuttingIn`, `TakingOut`; the branches of the code for the ends and the middle are
their cases: `InsertionPuts`, `DeletionTakes`), or moving the cursor (`MotionPoints`), and
`OneListChanges` says that the other rows do not notice.  `copyList` and `concatList` append in a
loop; `LoopRuns` and `BuiltStep` take it one element at a time.

From a row to what the code sees takes induction: over the steps of a walk (`WalkIsRow`) and
over the elements that a copy appends.  The library's induction theorems have an operator as a
parameter, which the provers cannot instantiate.  `EveryNat` in `CommonLemmas` states induction over `Nat` for a
*set* instead, and derives it from the pigeonhole principle for finite sets: if a
set has 0 and with each number the next, but not m, then adding one maps its members below
m one to one into those without 0, which are fewer.  For the same reason the loops of the model are recursive
functions.  The bound of `Walk` is enough because a row has no more nodes than there are
(`RowFits`).  For the refinement, an insertion into a row is one into the sequence of its elements
at the same position (`ElemsPut`, `ElemsCut`, `ElemsSet`), and the abstract position follows from
the cached index.  `InsertionPuts`, `DeletionTakes` and `MotionPoints` say of each call at which position
it works, so that `CallRefines` can conclude that it is the abstract operation of its own name.
What is proved of the cursor goes one way: a cursor that is not NULL is at the cached index.
The converse fails (Finding 4).

**The command-line memory.**  With the bytes numbered, every file is a *stretch*, consecutive
numbers.  `MemoryInv` says how long the stretch is while `set` copies, and what is left: the
buffer holds the bytes that follow, `pos` is behind them in the input, and
`content_length` is either what is still to be written or, when the input has ended early, what
the buffer holds (`Copying`).  A chunk that is written makes the stretch longer by itself
(`StretchGrows`), for a buffer of any size and reads of any length; when nothing can be read
any more the stretch is as long as announced or as sent (`AllIsStored`).  `get` prints the
stretch up to `pos`, with gaps where a write failed, and all of it if none did.  The theorem
needs a buffer in which the command's header fits (`ProgramsAssumption`).

**The sorter.**  `LexInv` adds to `LexSorts` what the cursor knows: every line behind it comes
after the one that is being inserted, and where it stops is one that does not.  So the new
index goes behind all lines that are not after it (`AfterOrders`: `strcmp` orders lines), the
same lines in the file's order included.  While the lines are written, `Written` says that the
output is the lines so far, with one glued to an unterminated one before it.  The empty
file, for which the program writes a buffer it never filled, is excepted.

**Breadth-first search.**  The graph is any record of the right shape (`IsGraph`), of any order
n and with any lists; a call that Graph.h allows keeps it so.  `addArc` inserts behind the last
label that is not greater, and so keeps a list ascending (`StaysAscending`) and adds one
occurrence (`OccursAfter`); `addEdge` does so at both ends, or once for a loop, and
keeps the counts symmetric (`AddEdgeIs`).

`Dist` is defined by widening a ball of vertices step by step.  What the proof uses of it is
four facts about a function D from vertices to numbers (`Distances`): only the source has 0; an
arc leads at most one further; whoever is further than 0 has an arc from one that is one
closer; and a number below 0 is INF.  That the balls up to n are enough, which
`DistancesAre` needs, is the pigeonhole principle again: if some distance were n, all
distances from 0 to n would occur, among n vertices (`NoneIsFarther`).

The invariant of the loop (`Frontier`) has five parts: what a coloured vertex knows is
right, with a parent one closer whose list it is in (`Found`); the line, the vertex being explored first, holds
the gray vertices in order of distance, at most one apart (`InLine`); no arc leads from a black
vertex to a white one (`Closed`); and everything as close as the head of the line has
been found (`Covered`).  A white neighbour of the head is therefore exactly one further
(`Discovering`).  When the head turns black, whatever is as close as the next in line was reached
from a black vertex or from the old head (`Finishing`).  When the line is empty, everything that can be
reached is black (`Ending`).  `getPath` goes from parent to parent; distances fall by one at each
step and the source alone has 0, so the path has that many arcs (`AnswerIsRight`).

**The size of a graph.**  The arcs are the set of positions in the lists (`Slots`), and
`Sized` says that they are as many as `size` and `edges` together.  `addArc` adds one position
unless the arc is there (`AddsArc`), since the lists are strictly increasing.  `transpose`
copies `size` and builds the lists anew, so that the number of arcs of what it builds has to be that
of the old graph.  `Arcs` lists the arcs, and the new graph after k of them has exactly
these, turned round, and k positions (`Turned`, `TurnsOne`); that each insertion finds its arc
missing follows because no arc is listed twice (`ArcsAre`).  The library's folds are recursive
functions over sets of numbers; `Folds` says that such a function exists, `FirstOnes` that on `1 .. k`
it does one step after `1 .. k - 1`.  `EnteredInv` adds that no more edges were entered than `addEdge` was
called, from which `SizeCountsEdges` follows.

**The calls of DFS.**  `VisitsNest` speaks of ancestors, which DFS does not store.  `Nested` says
what it keeps instead, vertex by vertex.  The gray vertices are those on the stack, in the order
of their discovery, each the parent of the next (`Stacked`).  The clock is the number of
vertices discovered plus the number finished, and so is never more than 2n (`Timed`).  A
parent is discovered before its child and not finished before it (`Enclosed`).  Whatever is
discovered while v is gray is a child of v, or the child of something discovered after v
(`Hangs`); and the arcs behind a cursor lead to vertices that have been found (`Followed`).  A call
(`EnterNests`), a neighbour that is passed over (`SkipNests`) and a return (`LeaveNests`) keep all five.  From
there to ancestors: who descends from v has an interval inside that of v (`AboveEncloses`,
by induction on the number of parents); and who was discovered while v was gray descends from
v, for otherwise the vertices discovered since v would hold one parent after the other, each
earlier than the last (`InsideIsBelow`).

**The components.**  Besides the nesting, a search keeps a record of what it has done
(`Recorded`).  The list S has every vertex (`Onto`).  Times are distinct, and what a black vertex
points to was discovered before that vertex was finished (`Dated`).  A root comes before
whatever is found after it, or not yet, in S (`Rooted`), and what is behind the cursor has been found (`Tried`).
Entering and leaving a vertex keep all four (`EnterSearches`, `LeaveSearches`).  When the cursor has
passed the end, everything has been found; `EndDFS` makes of S the order in which the vertices
were finished, the last first (`Ranked`), one insertion at a time (`SortsOne`).

The second search runs on the transpose, with that order.  So its roots come first: a root was
finished later, in the first search, than everything that the second search finds after it
(`RootsFirst`).  From the two records alone, the trees of the second search are the
classes of mutual reachability (`TreesAre`): who is in the tree of r is reached from r in the
transpose, and, as it was finished before r, descends from r in the first
search (`TreeIsJoined`); and from a later root no earlier one can be reached (`RootsAreParted`).  That the balls
that `Reach` builds in n steps are closed under arcs is the pigeonhole principle once more
(`BallIsClosed`).

What is left is reading the trees off S.  Backwards, every tree is one stretch that ends at its root
(`RootsEndBlocks`, from the nesting of intervals); `PrintComponents` walks through S in that
direction and cuts at the roots (`CutUp`, step by step in `PrintedIs`), so that what it prints are
the trees (`TreesArePrinted`), each vertex once.  No arc leads to a tree printed before, for
in the transpose it would lead the other way, to a vertex that the earlier tree would have had to take
in (`TreesAreRight`).  `SearchInv` says which part of this holds at which place of the
program (`Kosaraju`).

## 5. What is not proved, and not modelled

Only model-checked: progress (`ReadersAreServed`, `WritersAreServed`, `TakesKeepComing`,
`InsertsKeepComing`, `EveryConnectionCloses`, `ConnectionsEnd`: liveness under fairness is out of the
prover's reach), and what the program on matrices computes (`SparseMatchesDense`).

Not modelled: `rwlock_delete` and `queue_delete` (they release memory); output that only
formats (`printList`, `printGraph`, `printMatrix`); the matrices' copy of `List.c`, whose elements
are pointers that it frees, and the sharing of its lists by two arguments that are one matrix (each
walk along a row has a cursor of its own in `SparseMatrix`, so that the tests for `A == B` could go
unnoticed); a graph that is extended between `BFS` and `getPath`, which no program does; what a client
makes of an answer that breaks off; in the multi-threaded server `job_count` and `job_set_done`, which
nothing calls, `-t 0` and a failing `accept`; errors of `malloc` and `regcomp`; the rounding of
doubles; lengths that do not fit a `ssize_t`.  The connection library has no source here; the
models use what the two servers rely on.  The test drivers and shell scripts have no logic of
their own.

## 6. Plan

1. A proof of `SparseMatchesDense`: that the merging of rows and the products of rows with columns agree
   with the dense matrices.
2. A failing `accept` in the multi-threaded server, and the pointers of the matrices' list: who
   frees an entry, and when.

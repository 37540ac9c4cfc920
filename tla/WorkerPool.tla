----------------------------- MODULE WorkerPool -----------------------------
(***************************************************************************)
(* The threads of libag.  The main thread (the UI thread of tabdeeli, in   *)
(* ag_search) walks a directory and puts files in a queue; the workers     *)
(* take them and search them, each with a list of results of its own.      *)
(* When the queue is empty and no file will come, all meet at the barrier  *)
(* worker_done; the main thread joins the lists and resets them, and all   *)
(* meet at results_done, from where the workers start over.                *)
(*                                                                         *)
(* What happens under work_queue_mtx is one step, for whoever holds it     *)
(* neither blocks nor, but for pthread_cond_wait, gives it up.  The writes *)
(* the main thread makes without the lock are those of JoinResults:        *)
(* QuietWhileJoining says that no worker can see them half done.           *)
(***************************************************************************)
EXTENDS Integers, Sequences, FiniteSets, SequencesExt

CONSTANTS
  NumWorkers,      \* workers_len of a start that succeeds
  File,            \* files a search may find
  NoFile,          \* no queue_item
  CreationMayFail  \* whether pthread_create may fail

ASSUME WorkerPoolAssumption ==
  /\ NumWorkers \in Nat \ {0}
  /\ IsFiniteSet(File)
  /\ NoFile \notin File
  /\ CreationMayFail \in BOOLEAN

Worker == 0..(NumWorkers - 1)
MainThread == NumWorkers     \* its index in thrd_rslt

VARIABLES
  pc,                 \* where the main thread stands
  worker,             \* where each worker stands
  created,            \* threads created by the last start
  workers_len,
  left,               \* files the walk has not handed over
  matching,           \* those of the search's files that have a match
  work_queue, done_adding_files, stop_workers, has_ag_init,
  item,               \* the file each worker searches
  thrd_rslt,          \* the files with matches each thread has found
  result, answer      \* ag_search's local list, and what it last returned

walkVars == <<left, matching>>
poolVars == <<created, workers_len, has_ag_init>>
flagVars == <<done_adding_files, stop_workers>>
resultVars == <<thrd_rslt, result, answer>>
vars == <<pc, worker, poolVars, walkVars, work_queue, flagVars, item, resultVars>>

WorkerPC == {"none", "queue", "waiting", "searching", "leaving", "worker_done",
             "between", "results_done", "exited"}
MainPC == {"off", "starting", "idle", "walking", "added", "worker_done", "joining",
           "results_done", "returning", "stopping", "broken", "crashed"}

NoResults == [t \in 0..NumWorkers |-> << >>]

-----------------------------------------------------------------------------
(* The condition variable files_ready: a signal wakes one waiting thread,
   a broadcast all of them; a thread may wake without either. *)

Waiting == {w \in Worker : worker[w] = "waiting"}
Signal ==
  \/ Waiting = {} /\ UNCHANGED worker
  \/ \E w \in Waiting : worker' = [worker EXCEPT ![w] = "queue"]
Broadcast == worker' = [w \in Worker |-> IF w \in Waiting THEN "queue" ELSE worker[w]]

(* A barrier for NumWorkers + 1 threads, which are all there are: it opens
   when each has arrived. *)
\* Mutant: a barrier for one thread less.
ArrivedButOne(barrier) ==
  pc = barrier /\ \E v \in Worker : \A w \in Worker \ {v} : worker[w] = barrier
Arrived(barrier) == pc = barrier /\ \A w \in Worker : worker[w] = barrier
Open(barrier, main, others) ==
  /\ Arrived(barrier)
  /\ pc' = main
  /\ worker' = [w \in Worker |-> IF worker[w] = barrier THEN others ELSE worker[w]]
  /\ UNCHANGED <<poolVars, walkVars, work_queue, flagVars, item, resultVars>>

-----------------------------------------------------------------------------
(* The main thread: ag_init_config and ag_start_workers. *)

StartWorkers ==
  /\ pc = "off"
  /\ pc' = "starting"
  /\ workers_len' = NumWorkers
  /\ work_queue' = << >>
  /\ done_adding_files' = FALSE /\ stop_workers' = FALSE
  /\ thrd_rslt' = NoResults
  /\ UNCHANGED <<worker, created, has_ag_init, walkVars, item, result, answer>>

\* Mutant: one thread too many.
CreateWorkerTooMany ==
  /\ pc = "starting"
  /\ created <= NumWorkers
  /\ created' = created + 1
  /\ worker' = [worker EXCEPT ![created] = "queue"]
  /\ UNCHANGED <<pc, workers_len, has_ag_init, walkVars, work_queue, flagVars, item, resultVars>>
CreateWorker ==
  /\ pc = "starting"
  /\ created < NumWorkers
  /\ created' = created + 1
  /\ worker' = [worker EXCEPT ![created] = "queue"]
  /\ UNCHANGED <<pc, workers_len, has_ag_init, walkVars, work_queue, flagVars, item, resultVars>>

InitDone ==
  /\ pc = "starting"
  /\ created = NumWorkers
  /\ pc' = "idle"
  /\ has_ag_init' = TRUE
  /\ UNCHANGED <<worker, created, workers_len, walkVars, work_queue, flagVars, item, resultVars>>

\* Mutant: without the broadcast.
TellToStopSilently ==
  /\ pc' = "stopping"
  /\ done_adding_files' = TRUE /\ stop_workers' = TRUE
  /\ UNCHANGED worker
\* ag_stop_workers up to its joins.
TellToStop ==
  /\ pc' = "stopping"
  /\ done_adding_files' = TRUE /\ stop_workers' = TRUE
  /\ Broadcast

\* The thread of index created does not start; workers_len is set to count it.
CreationFails ==
  /\ CreationMayFail
  /\ pc = "starting"
  /\ created < NumWorkers
  /\ workers_len' = created + 1
  /\ TellToStop
  /\ UNCHANGED <<created, has_ag_init, walkVars, work_queue, item, resultVars>>

(* ag_finish: the joins go through the first workers_len workers. *)

StopWorkers ==
  /\ pc = "idle"
  /\ TellToStop
  /\ UNCHANGED <<poolVars, walkVars, work_queue, item, resultVars>>

Exited(w) == worker[w] = "exited"
JoinWorkers ==
  /\ pc = "stopping"
  /\ workers_len <= created
  /\ \A w \in Worker : w < workers_len => Exited(w)
  /\ pc' = "off"
  /\ worker' = [w \in Worker |-> "none"]
  /\ created' = 0
  /\ has_ag_init' = FALSE
  /\ thrd_rslt' = NoResults
  /\ UNCHANGED <<workers_len, walkVars, work_queue, flagVars, item, result, answer>>

\* pthread_join of a thread that was never created is undefined: the program
\* may be lost, or the call fails and ag_stop_workers returns with workers set.
JoinUncreated ==
  /\ pc = "stopping"
  /\ created < workers_len
  /\ \A w \in Worker : w < created => Exited(w)
  /\ pc' \in {"broken", "crashed"}
  /\ UNCHANGED <<worker, poolVars, walkVars, work_queue, flagVars, item, resultVars>>

\* From then on ag_start_workers finds workers set and ag_search no library.
SearchRefused ==
  /\ pc = "broken"
  /\ answer' = << >>
  /\ UNCHANGED <<pc, worker, poolVars, walkVars, work_queue, flagVars, item, thrd_rslt, result>>

-----------------------------------------------------------------------------
(* The main thread: ag_search. *)

BeginSearch ==
  /\ pc = "idle"
  /\ pc' = "walking"
  /\ left' \in SUBSET File
  /\ matching' \in SUBSET left'
  /\ UNCHANGED <<worker, poolVars, work_queue, flagVars, item, resultVars>>

\* A path that is searched as a directory is a file, the path of the search
\* or one that became a file in the middle of the walk: the main thread
\* searches it itself, whatever the workers do.
SearchHere ==
  /\ pc = "walking"
  /\ \E f \in left :
       /\ left' = left \ {f}
       /\ thrd_rslt' = [thrd_rslt EXCEPT ![MainThread] =
                          IF f \in matching THEN Append(@, f) ELSE @]
  /\ UNCHANGED <<pc, matching, worker, poolVars, work_queue, flagVars, item, result, answer>>

HandOver ==
  /\ pc = "walking"
  /\ \E f \in left :
       /\ left' = left \ {f}
       /\ work_queue' = Append(work_queue, f)
  /\ Signal
  /\ UNCHANGED <<pc, poolVars, matching, flagVars, item, resultVars>>

DoneAdding ==
  /\ pc = "walking"
  /\ left = {}
  /\ pc' = "added"
  /\ done_adding_files' = TRUE
  /\ Broadcast
  /\ UNCHANGED <<poolVars, walkVars, work_queue, stop_workers, item, resultVars>>

MainArrives ==
  /\ pc = "added"
  /\ pc' = "worker_done"
  /\ UNCHANGED <<worker, poolVars, walkVars, work_queue, flagVars, item, resultVars>>

\* Mutant: the last list, that of the main thread, is left out.
JoinResultsButLast ==
  /\ pc = "joining"
  /\ pc' = "results_done"
  /\ result' = FlattenSeq([i \in 1..NumWorkers |-> thrd_rslt[i - 1]])
  /\ thrd_rslt' = NoResults
  /\ done_adding_files' = FALSE
  /\ UNCHANGED <<worker, poolVars, walkVars, work_queue, stop_workers, item, answer>>
JoinResults ==
  /\ pc = "joining"
  /\ pc' = "results_done"
  /\ result' = FlattenSeq([i \in 1..(NumWorkers + 1) |-> thrd_rslt[i - 1]])
  /\ thrd_rslt' = NoResults
  /\ done_adding_files' = FALSE
  /\ UNCHANGED <<worker, poolVars, walkVars, work_queue, stop_workers, item, answer>>

Return ==
  /\ pc = "returning"
  /\ pc' = "idle"
  /\ answer' = result
  /\ result' = << >>
  /\ UNCHANGED <<worker, poolVars, walkVars, work_queue, flagVars, item, thrd_rslt>>

OpenWorkerDone == Open("worker_done", "joining", "between")
OpenResultsDone == Open("results_done", "returning", "queue")

-----------------------------------------------------------------------------
(* A worker: search_file_worker. *)

Goes(w, to) == worker' = [worker EXCEPT ![w] = to]
OnlyGoes(w, to) ==
  /\ Goes(w, to)
  /\ UNCHANGED <<pc, poolVars, walkVars, work_queue, flagVars, item, resultVars>>

\* Mutant: the head is not unlinked.
TakeFileLeavesHead(w) ==
  /\ worker[w] = "queue"
  /\ work_queue # << >>
  /\ item' = [item EXCEPT ![w] = Head(work_queue)]
  /\ Goes(w, "searching")
  /\ UNCHANGED <<pc, poolVars, walkVars, work_queue, flagVars, resultVars>>
TakeFile(w) ==
  /\ worker[w] = "queue"
  /\ work_queue # << >>
  /\ item' = [item EXCEPT ![w] = Head(work_queue)]
  /\ work_queue' = Tail(work_queue)
  /\ Goes(w, "searching")
  /\ UNCHANGED <<pc, poolVars, walkVars, flagVars, resultVars>>

\* The inner loop: wait for files, or leave when none will come.
WaitForFiles(w) ==
  /\ worker[w] = "queue"
  /\ work_queue = << >> /\ ~done_adding_files
  /\ OnlyGoes(w, "waiting")

LeaveQueue(w) ==
  /\ worker[w] = "queue"
  /\ work_queue = << >> /\ done_adding_files
  /\ OnlyGoes(w, "leaving")

SearchFile(w) ==
  /\ worker[w] = "searching"
  /\ thrd_rslt' = [thrd_rslt EXCEPT ![w] =
                     IF item[w] \in matching THEN Append(@, item[w]) ELSE @]
  /\ item' = [item EXCEPT ![w] = NoFile]
  /\ Goes(w, "queue")
  /\ UNCHANGED <<pc, poolVars, walkVars, work_queue, flagVars, result, answer>>

Exit(w) ==
  /\ worker[w] = "leaving"
  /\ has_ag_init => stop_workers
  /\ OnlyGoes(w, "exited")

WorkerArrives(w) ==
  \/ /\ worker[w] = "leaving"
     /\ has_ag_init /\ ~stop_workers
     /\ OnlyGoes(w, "worker_done")
  \/ /\ worker[w] = "between"
     /\ OnlyGoes(w, "results_done")

SpuriousWake(w) ==
  /\ worker[w] = "waiting"
  /\ OnlyGoes(w, "queue")

-----------------------------------------------------------------------------
Init ==
  /\ pc = "off"
  /\ worker = [w \in Worker |-> "none"]
  /\ created = 0 /\ workers_len = 0 /\ has_ag_init = FALSE
  /\ left = {} /\ matching = {}
  /\ work_queue = << >>
  /\ done_adding_files = FALSE /\ stop_workers = FALSE
  /\ item = [w \in Worker |-> NoFile]
  /\ thrd_rslt = NoResults /\ result = << >> /\ answer = << >>

\* What the main thread does once it has been told to start, search or stop.
MainRuns ==
  \/ CreateWorker \/ InitDone \/ JoinWorkers \/ JoinUncreated
  \/ HandOver \/ SearchHere \/ DoneAdding \/ MainArrives \/ JoinResults \/ Return
  \/ OpenWorkerDone \/ OpenResultsDone

MainIsTold ==
  StartWorkers \/ CreationFails \/ StopWorkers \/ BeginSearch \/ SearchRefused

WorkerRuns(w) ==
  \/ TakeFile(w) \/ WaitForFiles(w) \/ LeaveQueue(w) \/ SearchFile(w)
  \/ Exit(w) \/ WorkerArrives(w)

\* The program is gone.
Crashed == pc = "crashed" /\ UNCHANGED vars

Next ==
  \/ MainRuns \/ MainIsTold \/ Crashed
  \/ \E w \in Worker : WorkerRuns(w) \/ SpuriousWake(w)

Spec == Init /\ [][Next]_vars

\* Every thread that can run runs in the end.
FairSpec == Spec /\ WF_vars(MainRuns) /\ \A w \in Worker : WF_vars(WorkerRuns(w))

-----------------------------------------------------------------------------
(* Properties. *)

\* Every variable has its type.  (What result and answer hold is said by
\* ImplementsService.)
TypeOK ==
  /\ pc \in MainPC
  /\ worker \in [Worker -> WorkerPC]
  /\ created \in 0..NumWorkers /\ workers_len \in 0..NumWorkers
  /\ has_ag_init \in BOOLEAN
  /\ left \subseteq File /\ matching \subseteq File
  /\ work_queue \in Seq(File)
  /\ done_adding_files \in BOOLEAN /\ stop_workers \in BOOLEAN
  /\ item \in [Worker -> File \cup {NoFile}]
  /\ thrd_rslt \in [0..NumWorkers -> Seq(File)]

\* While the main thread joins and resets what the workers share, without
\* the lock, every worker stands between the two barriers and holds no file,
\* and the queue is empty: no result can come after the join.
QuietWhileJoining ==
  pc = "joining" =>
    /\ work_queue = << >>
    /\ \A w \in Worker : worker[w] \in {"between", "results_done"} /\ item[w] = NoFile

\* The places where a file of the current search may be.
InQueue(f) == {<<"queue", i>> : i \in {j \in DOMAIN work_queue : work_queue[j] = f}}
InHand(f) == {<<"hand", w>> : w \in {v \in Worker : item[v] = f}}
InResults(f) ==
  UNION {{<<"result", t, i>> : i \in {j \in DOMAIN thrd_rslt[t] : thrd_rslt[t][j] = f}}
           : t \in 0..NumWorkers}
Places(f) == (IF f \in left THEN {<<"left">>} ELSE {}) \cup InQueue(f) \cup InHand(f) \cup InResults(f)

\* From the walk to the join, a file with a match is in exactly one place:
\* still to be handed over, queued, in one worker's hands or in one result
\* list; one without a match is in no more than one.
EachFileOnce ==
  pc \in {"walking", "added", "worker_done", "joining"} =>
    /\ \A f \in matching : Places(f) # {}
    /\ \A f \in File : \A p, q \in Places(f) : p = q

\* The pool implements the search service: each search returns, with every
\* file that has a match once, and none of an earlier search; only threads
\* that could not be created end that, and never during a search.
Searching == {"walking", "added", "worker_done", "joining", "results_done", "returning"}
Service == INSTANCE SearchService WITH
  usable <- pc \notin {"broken", "crashed"},
  phase <- IF pc \in Searching THEN "busy" ELSE "idle",
  asked <- matching
ImplementsService == Service!Spec

\* ag_stop_workers returns: no worker stays behind in a wait or at a barrier.
StopEnds == pc = "stopping" ~> pc \in {"off", "broken", "crashed"}
=============================================================================

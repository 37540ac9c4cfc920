-------------------------- MODULE WorkerPoolProofs --------------------------
(***************************************************************************)
(* Proofs about WorkerPool, for every number of workers and every set of   *)
(* files.                                                                  *)
(***************************************************************************)
EXTENDS WorkerPool, FoldLemmas, FiniteSetTheorems

-----------------------------------------------------------------------------
(* The inductive invariant. *)

\* The two flags against the main thread's place.
FlagsFollowMain ==
  /\ done_adding_files =>
       pc \in {"added", "worker_done", "joining", "stopping", "broken", "crashed", "off"}
  /\ pc \in {"stopping", "broken", "crashed"} => stop_workers

\* Each worker against the main thread and the queue.
WorkersFollowMain ==
  \A w \in Worker :
    /\ worker[w] \in {"leaving", "worker_done"} => done_adding_files /\ work_queue = << >>
    /\ worker[w] = "worker_done" => pc \in {"added", "worker_done"}
    /\ worker[w] \in {"between", "results_done"} => pc \in {"joining", "results_done"}
    /\ pc \in {"joining", "results_done"} => worker[w] \in {"between", "results_done"}
    /\ pc = "off" => worker[w] = "none"
    /\ item[w] # NoFile <=> worker[w] = "searching"

\* Outside a search there is nothing to do.
InSearch == pc \in {"walking", "added", "worker_done", "joining"}
NothingOutsideSearch ==
  /\ pc # "walking" => left = {}
  /\ pc = "joining" => work_queue = << >>
  /\ ~InSearch => /\ work_queue = << >>
                  /\ thrd_rslt = NoResults
                  /\ \A w \in Worker : item[w] = NoFile

\* The files of the queue, of the workers' hands and of the results differ.
QueueApart ==
  \A i \in 1..Len(work_queue) :
    /\ work_queue[i] \notin left
    /\ \A j \in 1..Len(work_queue) : work_queue[i] = work_queue[j] => i = j
    /\ \A w \in Worker : item[w] # work_queue[i]
    /\ \A t \in 0..NumWorkers : \A j \in 1..Len(thrd_rslt[t]) : thrd_rslt[t][j] # work_queue[i]
HandsApart ==
  \A w \in Worker : item[w] # NoFile =>
    /\ item[w] \notin left
    /\ \A v \in Worker : item[w] = item[v] => w = v
    /\ \A t \in 0..NumWorkers : \A j \in 1..Len(thrd_rslt[t]) : thrd_rslt[t][j] # item[w]
ResultsApart ==
  \A t \in 0..NumWorkers : \A i \in 1..Len(thrd_rslt[t]) :
    /\ thrd_rslt[t][i] \notin left
    /\ \A u \in 0..NumWorkers : \A j \in 1..Len(thrd_rslt[u]) :
         thrd_rslt[t][i] = thrd_rslt[u][j] => t = u /\ i = j

\* No file with a match has been dropped.
NothingLost ==
  InSearch => \A f \in matching :
    \/ f \in left
    \/ \E i \in 1..Len(work_queue) : work_queue[i] = f
    \/ \E w \in Worker : item[w] = f
    \/ \E t \in 0..NumWorkers : \E i \in 1..Len(thrd_rslt[t]) : thrd_rslt[t][i] = f

Control == TypeOK /\ FlagsFollowMain /\ WorkersFollowMain /\ NothingOutsideSearch
IInv == Control /\ QueueApart /\ HandsApart /\ ResultsApart /\ NothingLost

USE DEF walkVars, poolVars, flagVars, resultVars, Worker, MainThread, InSearch

-----------------------------------------------------------------------------
(* The control part. *)

LEMMA ControlStep ==
  ASSUME Control, [Next]_vars
  PROVE  Control'
<1>. USE WorkerPoolAssumption
         DEF Control, TypeOK, FlagsFollowMain, WorkersFollowMain, NothingOutsideSearch,
             WorkerPC, MainPC, NoResults
<1>1. CASE StartWorkers
  BY <1>1 DEF StartWorkers
<1>2. CASE CreateWorker
  BY <1>2 DEF CreateWorker
<1>3. CASE InitDone
  BY <1>3 DEF InitDone
<1>4. CASE CreationFails
  BY <1>4 DEF CreationFails, TellToStop, Broadcast, Waiting
<1>5. CASE StopWorkers
  BY <1>5 DEF StopWorkers, TellToStop, Broadcast, Waiting
<1>6. CASE JoinWorkers
  <2>0. NoResults \in [0..NumWorkers -> Seq(File)] /\ created' \in 0..NumWorkers
    BY <1>6 DEF JoinWorkers
  <2>1. TypeOK'
    BY <1>6, <2>0 DEF JoinWorkers
  <2>2. FlagsFollowMain'
    BY <1>6 DEF JoinWorkers, Exited
  <2>3. WorkersFollowMain'
    BY <1>6 DEF JoinWorkers, Exited
  <2>4. NothingOutsideSearch'
    BY <1>6 DEF JoinWorkers, Exited
  <2>. QED
    BY <2>1, <2>2, <2>3, <2>4
<1>7. CASE JoinUncreated
  BY <1>7 DEF JoinUncreated, Exited
<1>8. CASE SearchRefused
  BY <1>8 DEF SearchRefused
<1>9. CASE BeginSearch
  BY <1>9 DEF BeginSearch
<1>10. CASE SearchHere
  <2>0. thrd_rslt' \in [0..NumWorkers -> Seq(File)]
    <3>1. PICK f \in left : thrd_rslt' = [thrd_rslt EXCEPT ![MainThread] =
                                           IF f \in matching THEN Append(@, f) ELSE @]
      BY <1>10 DEF SearchHere
    <3>2. MainThread \in 0..NumWorkers /\ f \in File /\ thrd_rslt[MainThread] \in Seq(File)
      BY <3>1 DEF MainThread
    <3>3. Append(thrd_rslt[MainThread], f) \in Seq(File)
      BY <3>2, AppendProperties
    <3>. HIDE DEF MainThread
    <3>. QED
      BY <3>1, <3>2, <3>3
  <2>1. TypeOK'
    BY <1>10, <2>0 DEF SearchHere
  <2>2. FlagsFollowMain'
    BY <1>10 DEF SearchHere
  <2>3. WorkersFollowMain'
    BY <1>10 DEF SearchHere
  <2>4. NothingOutsideSearch'
    BY <1>10 DEF SearchHere
  <2>. QED
    BY <2>1, <2>2, <2>3, <2>4
<1>11. CASE HandOver
  <2>0. work_queue' \in Seq(File) /\ left' \subseteq File
    <3>1. PICK f \in left : left' = left \ {f} /\ work_queue' = Append(work_queue, f)
      BY <1>11 DEF HandOver
    <3>. QED
      BY <3>1, AppendProperties
  <2>1. TypeOK'
    BY <1>11, <2>0 DEF HandOver, Signal, Waiting
  <2>2. FlagsFollowMain'
    BY <1>11 DEF HandOver
  <2>3. WorkersFollowMain'
    BY <1>11 DEF HandOver, Signal, Waiting
  <2>4. NothingOutsideSearch'
    BY <1>11 DEF HandOver
  <2>. QED
    BY <2>1, <2>2, <2>3, <2>4
<1>12. CASE DoneAdding
  BY <1>12 DEF DoneAdding, Broadcast, Waiting
<1>13. CASE MainArrives
  BY <1>13 DEF MainArrives
<1>14. CASE JoinResults
  BY <1>14 DEF JoinResults
<1>15. CASE Return
  BY <1>15 DEF Return
<1>16. CASE OpenWorkerDone
  <2>0. 0 \in Worker /\ worker[0] = "worker_done" /\ work_queue = << >>
    BY <1>16 DEF OpenWorkerDone, Open, Arrived
  <2>1. TypeOK'
    BY <1>16, <2>0 DEF OpenWorkerDone, Open, Arrived
  <2>2. FlagsFollowMain'
    BY <1>16, <2>0 DEF OpenWorkerDone, Open, Arrived
  <2>3. WorkersFollowMain'
    BY <1>16, <2>0 DEF OpenWorkerDone, Open, Arrived
  <2>4. NothingOutsideSearch'
    BY <1>16, <2>0 DEF OpenWorkerDone, Open, Arrived
  <2>. QED
    BY <2>1, <2>2, <2>3, <2>4
<1>17. CASE OpenResultsDone
  BY <1>17 DEF OpenResultsDone, Open, Arrived
<1>18. ASSUME NEW w \in Worker, TakeFile(w)
      PROVE  Control'
  BY <1>18 DEF TakeFile, Goes
<1>19. ASSUME NEW w \in Worker, WaitForFiles(w)
      PROVE  Control'
  BY <1>19 DEF WaitForFiles, OnlyGoes, Goes
<1>20. ASSUME NEW w \in Worker, LeaveQueue(w)
      PROVE  Control'
  BY <1>20 DEF LeaveQueue, OnlyGoes, Goes
<1>21. ASSUME NEW w \in Worker, SearchFile(w)
      PROVE  Control'
  <2>0. thrd_rslt' \in [0..NumWorkers -> Seq(File)]
    <3>1. w \in 0..NumWorkers /\ item[w] \in File /\ thrd_rslt[w] \in Seq(File)
      BY <1>21 DEF SearchFile
    <3>2. Append(thrd_rslt[w], item[w]) \in Seq(File)
      BY <3>1, AppendProperties
    <3>. QED
      BY <1>21, <3>1, <3>2 DEF SearchFile
  <2>1. TypeOK'
    BY <1>21, <2>0 DEF SearchFile, Goes
  <2>2. FlagsFollowMain'
    BY <1>21 DEF SearchFile, Goes
  <2>3. WorkersFollowMain'
    BY <1>21 DEF SearchFile, Goes
  <2>4. NothingOutsideSearch'
    BY <1>21 DEF SearchFile, Goes
  <2>. QED
    BY <2>1, <2>2, <2>3, <2>4
<1>22. ASSUME NEW w \in Worker, Exit(w)
      PROVE  Control'
  BY <1>22 DEF Exit, OnlyGoes, Goes
<1>23. ASSUME NEW w \in Worker, WorkerArrives(w)
      PROVE  Control'
  <2>1. TypeOK'
    BY <1>23 DEF WorkerArrives, OnlyGoes, Goes
  <2>0. UNCHANGED <<pc, done_adding_files, stop_workers>>
    BY <1>23 DEF WorkerArrives, OnlyGoes
  <2>2. FlagsFollowMain'
    BY <2>0
  <2>3. WorkersFollowMain'
    <3>1. CASE worker[w] = "leaving"
      <4>1. pc \in {"added", "worker_done"}
        BY <1>23, <3>1 DEF WorkerArrives
      <4>. QED
        BY <1>23, <3>1, <4>1 DEF WorkerArrives, OnlyGoes, Goes
    <3>2. CASE worker[w] = "between"
      BY <1>23, <3>2 DEF WorkerArrives, OnlyGoes, Goes
    <3>. QED
      BY <1>23, <3>1, <3>2 DEF WorkerArrives
  <2>4. NothingOutsideSearch'
    BY <1>23 DEF WorkerArrives, OnlyGoes, Goes
  <2>. QED
    BY <2>1, <2>2, <2>3, <2>4
<1>24. ASSUME NEW w \in Worker, SpuriousWake(w)
      PROVE  Control'
  BY <1>24 DEF SpuriousWake, OnlyGoes, Goes
<1>25. CASE UNCHANGED vars
  BY <1>25 DEF vars
<1>. QED
  BY <1>1, <1>2, <1>3, <1>4, <1>5, <1>6, <1>7, <1>8, <1>9, <1>10, <1>11, <1>12, <1>13, <1>14, <1>15, <1>16, <1>17, <1>18, <1>19, <1>20, <1>21, <1>22, <1>23, <1>24, <1>25
     DEF Next, MainRuns, MainIsTold, WorkerRuns, Crashed

-----------------------------------------------------------------------------
(* Where the files are. *)

Apart == QueueApart /\ HandsApart /\ ResultsApart

\* Steps that leave the places of files alone, or the search.
LEMMA PlacesKept ==
  ASSUME Control, Control', Apart, NothingLost,
         UNCHANGED <<left, work_queue, item, thrd_rslt, matching>>,
         InSearch' => InSearch
  PROVE  Apart' /\ NothingLost'
BY DEF Apart, QueueApart, HandsApart, ResultsApart, NothingLost

\* Outside a search every place is empty.
LEMMA EmptyPlaces ==
  ASSUME Control', ~InSearch'
  PROVE  Apart' /\ NothingLost'
<1>1. /\ work_queue' = << >> /\ left' = {}
      /\ \A w \in Worker : item'[w] = NoFile
      /\ \A t \in 0..NumWorkers : thrd_rslt'[t] = << >>
  BY DEF Control, NothingOutsideSearch, NoResults
<1>. QED
  BY <1>1 DEF Apart, QueueApart, HandsApart, ResultsApart, NothingLost

LEMMA BeginSearchKeeps ==
  ASSUME Control, Control', BeginSearch
  PROVE  Apart' /\ NothingLost'
<1>1. /\ work_queue' = << >>
      /\ \A w \in Worker : item'[w] = NoFile
      /\ \A t \in 0..NumWorkers : thrd_rslt'[t] = << >>
      /\ matching' \subseteq left'
  BY DEF BeginSearch, Control, NothingOutsideSearch, NoResults
<1>. QED
  BY <1>1 DEF Apart, QueueApart, HandsApart, ResultsApart, NothingLost

LEMMA SearchHereKeeps ==
  ASSUME Control, Control', Apart, NothingLost, SearchHere
  PROVE  Apart' /\ NothingLost'
<1>. USE WorkerPoolAssumption
<1>1. PICK f \in left :
        /\ left' = left \ {f}
        /\ thrd_rslt' = [thrd_rslt EXCEPT ![MainThread] = IF f \in matching THEN Append(@, f) ELSE @]
  BY DEF SearchHere
<1>2. /\ UNCHANGED <<pc, work_queue, item, matching>> /\ pc = "walking"
      /\ f \in File /\ f # NoFile
      /\ MainThread \in 0..NumWorkers
      /\ thrd_rslt \in [0..NumWorkers -> Seq(File)]
  BY DEF SearchHere, Control, TypeOK, MainThread
<1>. HIDE DEF MainThread
<1>3. /\ \A i \in 1..Len(work_queue) : work_queue[i] # f
      /\ \A w \in Worker : item[w] # f
      /\ \A t \in 0..NumWorkers : \A j \in 1..Len(thrd_rslt[t]) : thrd_rslt[t][j] # f
  BY <1>2 DEF Apart, QueueApart, HandsApart, ResultsApart
<1>4. CASE f \notin matching
  <2>1. thrd_rslt' = thrd_rslt
    BY <1>1, <1>2, <1>4
  <2>2. QueueApart'
    BY <1>1, <1>2, <2>1 DEF Apart, QueueApart
  <2>3. HandsApart'
    BY <1>1, <1>2, <2>1 DEF Apart, HandsApart
  <2>4. ResultsApart'
    BY <1>1, <1>2, <2>1 DEF Apart, ResultsApart
  <2>5. NothingLost'
    <3>1. ASSUME NEW g \in matching, g \in left PROVE g \in left'
      BY <1>1, <1>4, <3>1
    <3>2. ASSUME NEW g \in matching
          PROVE  \/ g \in left'
                 \/ \E i \in 1..Len(work_queue) : work_queue[i] = g
                 \/ \E w \in Worker : item[w] = g
                 \/ \E t \in 0..NumWorkers : \E i \in 1..Len(thrd_rslt[t]) : thrd_rslt[t][i] = g
      BY <1>2, <3>1, <3>2 DEF NothingLost
    <3>. QED
      BY <1>2, <2>1, <3>2 DEF NothingLost
  <2>. QED
    BY <2>2, <2>3, <2>4, <2>5 DEF Apart
<1>5. CASE f \in matching
  <2>1. PICK m \in 0..NumWorkers : m = MainThread
    BY <1>2
  <2>2. /\ Len(thrd_rslt[m]) \in Nat
        /\ Len(thrd_rslt'[m]) = Len(thrd_rslt[m]) + 1
        /\ \A i \in 1..Len(thrd_rslt[m]) : thrd_rslt'[m][i] = thrd_rslt[m][i]
        /\ thrd_rslt'[m][Len(thrd_rslt[m]) + 1] = f
    <3>1. thrd_rslt[m] \in Seq(File) /\ thrd_rslt'[m] = Append(thrd_rslt[m], f)
      BY <1>1, <1>2, <1>5, <2>1
    <3>. QED
      BY <3>1, <1>2, AppendProperties, LenProperties
  <2>3. \A t \in 0..NumWorkers : t # m => thrd_rslt'[t] = thrd_rslt[t]
    BY <1>1, <1>2, <2>1
  <2>4. \A t \in 0..NumWorkers : \A i \in 1..Len(thrd_rslt'[t]) :
          \/ i \in 1..Len(thrd_rslt[t]) /\ thrd_rslt'[t][i] = thrd_rslt[t][i]
          \/ t = m /\ i = Len(thrd_rslt[m]) + 1 /\ thrd_rslt'[t][i] = f
    BY <2>2, <2>3
  <2>5. QueueApart'
    <3>1. ASSUME NEW i \in 1..Len(work_queue)
          PROVE  /\ work_queue[i] \notin left'
                 /\ \A t \in 0..NumWorkers : \A j \in 1..Len(thrd_rslt'[t]) : thrd_rslt'[t][j] # work_queue[i]
      <4>1. work_queue[i] # f /\ work_queue[i] \notin left
        BY <1>3, <3>1 DEF Apart, QueueApart
      <4>2. \A t \in 0..NumWorkers : \A j \in 1..Len(thrd_rslt[t]) : thrd_rslt[t][j] # work_queue[i]
        BY <3>1 DEF Apart, QueueApart
      <4>. QED
        BY <1>1, <2>4, <4>1, <4>2
    <3>2. ASSUME NEW i \in 1..Len(work_queue)
          PROVE  /\ \A j \in 1..Len(work_queue) : work_queue[i] = work_queue[j] => i = j
                 /\ \A w \in Worker : item[w] # work_queue[i]
      BY <3>2 DEF Apart, QueueApart
    <3>. QED
      BY <1>2, <3>1, <3>2 DEF QueueApart
  <2>6. HandsApart'
    BY <1>1, <1>2, <1>3, <2>4 DEF Apart, HandsApart
  <2>7. ResultsApart'
    BY <1>1, <1>2, <1>3, <2>4 DEF Apart, ResultsApart
  <2>8. NothingLost'
    <3>1. \A t \in 0..NumWorkers : \A i \in 1..Len(thrd_rslt[t]) :
            i \in 1..Len(thrd_rslt'[t]) /\ thrd_rslt'[t][i] = thrd_rslt[t][i]
      BY <2>2, <2>3
    <3>2. \E t \in 0..NumWorkers : \E i \in 1..Len(thrd_rslt'[t]) : thrd_rslt'[t][i] = f
      BY <2>2
    <3>. QED
      BY <1>1, <1>2, <3>1, <3>2 DEF NothingLost
  <2>. QED
    BY <2>5, <2>6, <2>7, <2>8 DEF Apart
<1>. QED
  BY <1>4, <1>5

LEMMA HandOverKeeps ==
  ASSUME Control, Control', Apart, NothingLost, HandOver
  PROVE  Apart' /\ NothingLost'
<1>1. PICK f \in left : left' = left \ {f} /\ work_queue' = Append(work_queue, f)
  BY DEF HandOver
<1>2. /\ Len(work_queue') = Len(work_queue) + 1 /\ Len(work_queue) \in Nat
      /\ \A i \in 1..Len(work_queue) : work_queue'[i] = work_queue[i]
      /\ work_queue'[Len(work_queue) + 1] = f
  BY <1>1, AppendProperties, LenProperties DEF Control, TypeOK
<1>3. UNCHANGED <<pc, item, thrd_rslt, matching>> /\ pc = "walking"
  BY DEF HandOver
<1>4. QueueApart'
  <2>1. \A i \in 1..Len(work_queue') :
          \/ i \in 1..Len(work_queue) /\ work_queue'[i] = work_queue[i]
          \/ i = Len(work_queue) + 1 /\ work_queue'[i] = f
    BY <1>2
  <2>2. f # NoFile
    BY WorkerPoolAssumption DEF Control, TypeOK
  <2>3. \A i \in 1..Len(work_queue) : work_queue[i] # f
    BY DEF Apart, QueueApart
  <2>4. \A w \in Worker : item[w] # f
    BY <2>2 DEF Apart, HandsApart
  <2>5. \A t \in 0..NumWorkers : \A j \in 1..Len(thrd_rslt[t]) : thrd_rslt[t][j] # f
    BY DEF Apart, ResultsApart
  <2>6. ASSUME NEW i \in 1..Len(work_queue')
        PROVE  /\ work_queue'[i] \notin left'
               /\ \A j \in 1..Len(work_queue') : work_queue'[i] = work_queue'[j] => i = j
               /\ \A w \in Worker : item'[w] # work_queue'[i]
               /\ \A t \in 0..NumWorkers : \A j \in 1..Len(thrd_rslt'[t]) : thrd_rslt'[t][j] # work_queue'[i]
    <3>1. CASE i \in 1..Len(work_queue) /\ work_queue'[i] = work_queue[i]
      BY <3>1, <1>1, <1>3, <2>1, <2>3 DEF Apart, QueueApart
    <3>2. CASE i = Len(work_queue) + 1 /\ work_queue'[i] = f
      BY <3>2, <1>1, <1>3, <2>1, <2>3, <2>4, <2>5
    <3>. QED
      BY <2>1, <3>1, <3>2
  <2>. QED
    BY <2>6 DEF QueueApart
<1>5. HandsApart' /\ ResultsApart'
  BY <1>1, <1>3 DEF Apart, HandsApart, ResultsApart
<1>6. NothingLost'
  BY <1>1, <1>2, <1>3 DEF NothingLost
<1>. QED
  BY <1>4, <1>5, <1>6 DEF Apart

LEMMA TakeFileKeeps ==
  ASSUME Control, Control', Apart, NothingLost, NEW w \in Worker, TakeFile(w)
  PROVE  Apart' /\ NothingLost'
<1>. DEFINE f == Head(work_queue)
<1>1. /\ work_queue \in Seq(File) /\ work_queue # << >>
      /\ item' = [item EXCEPT ![w] = f] /\ work_queue' = Tail(work_queue)
      /\ UNCHANGED <<pc, left, thrd_rslt, matching>>
      /\ item \in [Worker -> File \cup {NoFile}] /\ item[w] = NoFile
  BY DEF TakeFile, Control, TypeOK, WorkersFollowMain
<1>2. /\ Len(work_queue) \in Nat /\ Len(work_queue) >= 1
      /\ f = work_queue[1]
      /\ Len(work_queue') = Len(work_queue) - 1
      /\ \A i \in 1..(Len(work_queue) - 1) : work_queue'[i] = work_queue[i + 1]
  BY <1>1, HeadTailProperties, LenProperties, EmptySeq
<1>3. \A i \in 1..Len(work_queue') : i + 1 \in 1..Len(work_queue) /\ work_queue'[i] = work_queue[i + 1] /\ i + 1 # 1
  BY <1>2
<1>4. 1 \in 1..Len(work_queue)
  BY <1>2
<1>5. \A v \in Worker : item'[v] = IF v = w THEN f ELSE item[v]
  BY <1>1
<1>6. f \in File
  BY <1>1, <1>2, <1>4, ElementOfSeq
<1>. HIDE DEF f
<1>7. QueueApart'
  BY <1>1, <1>2, <1>3, <1>4, <1>5 DEF Apart, QueueApart
<1>8. HandsApart'
  BY <1>1, <1>2, <1>4, <1>5 DEF Apart, QueueApart, HandsApart
<1>9. ResultsApart'
  BY <1>1 DEF Apart, ResultsApart
<1>10. NothingLost'
  <2>. SUFFICES ASSUME InSearch', NEW g \in matching, g \notin left,
                       ~ \E v \in Worker : item'[v] = g,
                       ~ \E t \in 0..NumWorkers : \E i \in 1..Len(thrd_rslt[t]) : thrd_rslt[t][i] = g
                PROVE  \E i \in 1..Len(work_queue') : work_queue'[i] = g
    BY <1>1 DEF NothingLost
  <2>1. g # f
    BY <1>5
  <2>2. ~ \E v \in Worker : item[v] = g
    <3>1. g # NoFile
      BY WorkerPoolAssumption DEF Control, TypeOK
    <3>. QED
      BY <1>1, <1>5, <3>1
  <2>3. PICK i \in 1..Len(work_queue) : work_queue[i] = g
    BY <1>1, <2>2 DEF NothingLost
  <2>4. i - 1 \in 1..Len(work_queue') /\ work_queue'[i - 1] = g
    BY <1>2, <2>1, <2>3
  <2>. QED
    BY <2>4
<1>. QED
  BY <1>7, <1>8, <1>9, <1>10 DEF Apart

LEMMA SearchFileKeeps ==
  ASSUME Control, Control', Apart, NothingLost, NEW w \in Worker, SearchFile(w)
  PROVE  Apart' /\ NothingLost'
<1>. DEFINE f == item[w]
<1>. USE WorkerPoolAssumption
<1>1. /\ item' = [item EXCEPT ![w] = NoFile]
      /\ UNCHANGED <<pc, left, work_queue, matching>>
      /\ item \in [Worker -> File \cup {NoFile}] /\ f # NoFile /\ f \in File
      /\ w \in 0..NumWorkers /\ thrd_rslt \in [0..NumWorkers -> Seq(File)]
      /\ thrd_rslt' = [thrd_rslt EXCEPT ![w] = IF f \in matching THEN Append(@, f) ELSE @]
      /\ matching \subseteq File /\ left \subseteq File
  BY DEF SearchFile, Control, TypeOK, WorkersFollowMain
<1>5. \A v \in Worker : item'[v] = IF v = w THEN NoFile ELSE item[v]
  BY <1>1
<1>6. \A i \in 1..Len(work_queue) : work_queue[i] # NoFile
  BY ElementOfSeq, LenProperties DEF Control, TypeOK
<1>2. CASE f \notin matching
  <2>1. thrd_rslt' = thrd_rslt
    BY <1>1, <1>2
  <2>. HIDE DEF f
  <2>2. QueueApart'
    BY <1>1, <1>5, <1>6, <2>1 DEF Apart, QueueApart
  <2>3. HandsApart'
    BY <1>1, <1>5, <2>1 DEF Apart, HandsApart
  <2>4. ResultsApart'
    BY <1>1, <2>1 DEF Apart, ResultsApart
  <2>5. NothingLost'
    <3>1. ASSUME NEW g \in matching, NEW v \in Worker, item[v] = g
          PROVE  item'[v] = g
      <4>1. v # w
        BY <1>2, <3>1 DEF f
      <4>. QED
        BY <1>5, <3>1, <4>1
    <3>2. ASSUME InSearch, NEW g \in matching
          PROVE  \/ g \in left
                 \/ \E i \in 1..Len(work_queue) : work_queue[i] = g
                 \/ \E v \in Worker : item'[v] = g
                 \/ \E t \in 0..NumWorkers : \E i \in 1..Len(thrd_rslt[t]) : thrd_rslt[t][i] = g
      BY <3>1, <3>2 DEF NothingLost
    <3>3. matching' = matching /\ pc' = pc /\ left' = left /\ work_queue' = work_queue
      BY <1>1
    <3>. QED
      BY <2>1, <3>2, <3>3 DEF NothingLost
  <2>. QED
    BY <2>2, <2>3, <2>4, <2>5 DEF Apart
<1>3. CASE f \in matching
  <2>1. /\ Len(thrd_rslt[w]) \in Nat
        /\ Len(thrd_rslt'[w]) = Len(thrd_rslt[w]) + 1
        /\ \A i \in 1..Len(thrd_rslt[w]) : thrd_rslt'[w][i] = thrd_rslt[w][i]
        /\ thrd_rslt'[w][Len(thrd_rslt[w]) + 1] = f
    <3>1. thrd_rslt[w] \in Seq(File) /\ thrd_rslt'[w] = Append(thrd_rslt[w], f)
      BY <1>1, <1>3
    <3>. QED
      BY <3>1, <1>1, AppendProperties, LenProperties
  <2>2. \A t \in 0..NumWorkers : t # w => thrd_rslt'[t] = thrd_rslt[t]
    BY <1>1
  <2>3. \A t \in 0..NumWorkers : \A i \in 1..Len(thrd_rslt'[t]) :
          \/ i \in 1..Len(thrd_rslt[t]) /\ thrd_rslt'[t][i] = thrd_rslt[t][i]
          \/ t = w /\ i = Len(thrd_rslt[w]) + 1 /\ thrd_rslt'[t][i] = f
    BY <2>1, <2>2
  <2>. HIDE DEF f
  <2>4. \A t \in 0..NumWorkers : \A i \in 1..Len(thrd_rslt[t]) : thrd_rslt[t][i] # f
    BY <1>1 DEF Apart, HandsApart, f
  <2>5. QueueApart'
    <3>1. \A i \in 1..Len(work_queue) : work_queue[i] # f
      BY DEF Apart, QueueApart, f
    <3>. QED
      BY <3>1, <1>1, <1>5, <1>6, <2>3, SMTT(20) DEF Apart, QueueApart
  <2>6. HandsApart'
    <3>1. \A v \in Worker : v # w => item[v] # f
      BY <1>1 DEF Apart, HandsApart, f
    <3>2. ASSUME NEW v \in Worker, item'[v] # NoFile
          PROVE  /\ item'[v] \notin left'
                 /\ \A u \in Worker : item'[v] = item'[u] => v = u
                 /\ \A t \in 0..NumWorkers : \A j \in 1..Len(thrd_rslt'[t]) : thrd_rslt'[t][j] # item'[v]
      <4>1. v # w /\ item'[v] = item[v] /\ item[v] # NoFile /\ item[v] # f
        BY <1>5, <3>1, <3>2
      <4>2. item[v] \notin left
        BY <4>1 DEF Apart, HandsApart
      <4>3. \A u \in Worker : item'[v] = item'[u] => v = u
        BY <1>5, <4>1 DEF Apart, HandsApart
      <4>4. \A t \in 0..NumWorkers : \A j \in 1..Len(thrd_rslt[t]) : thrd_rslt[t][j] # item[v]
        BY <4>1 DEF Apart, HandsApart
      <4>. QED
        BY <1>1, <2>3, <4>1, <4>2, <4>3, <4>4
    <3>. QED
      BY <3>2 DEF HandsApart
  <2>7. ResultsApart'
    <3>1. f \notin left
      BY <1>1 DEF Apart, HandsApart, f
    <3>. QED
      BY <3>1, <1>1, <2>3, <2>4 DEF Apart, ResultsApart
  <2>8. NothingLost'
    <3>1. \A t \in 0..NumWorkers : \A i \in 1..Len(thrd_rslt[t]) :
            i \in 1..Len(thrd_rslt'[t]) /\ thrd_rslt'[t][i] = thrd_rslt[t][i]
      BY <2>1, <2>2
    <3>2. \E t \in 0..NumWorkers : \E i \in 1..Len(thrd_rslt'[t]) : thrd_rslt'[t][i] = f
      BY <1>1, <2>1
    <3>3. ASSUME NEW g \in matching, g # f, NEW v \in Worker, item[v] = g
          PROVE  item'[v] = g
      <4>1. v # w
        BY <3>3 DEF f
      <4>. QED
        BY <1>5, <3>3, <4>1
    <3>4. ASSUME InSearch, NEW g \in matching
          PROVE  \/ g \in left
                 \/ \E i \in 1..Len(work_queue) : work_queue[i] = g
                 \/ \E v \in Worker : item'[v] = g
                 \/ \E t \in 0..NumWorkers : \E i \in 1..Len(thrd_rslt'[t]) : thrd_rslt'[t][i] = g
      <4>1. CASE g = f
        BY <4>1, <3>2
      <4>2. CASE g # f
        <5>1. \/ g \in left
              \/ \E i \in 1..Len(work_queue) : work_queue[i] = g
              \/ \E v \in Worker : item[v] = g
              \/ \E t \in 0..NumWorkers : \E i \in 1..Len(thrd_rslt[t]) : thrd_rslt[t][i] = g
          BY <3>4 DEF NothingLost
        <5>. QED
          BY <5>1, <4>2, <3>1, <3>3
      <4>. QED
        BY <4>1, <4>2
    <3>5. matching' = matching /\ pc' = pc /\ left' = left /\ work_queue' = work_queue
      BY <1>1
    <3>. QED
      BY <3>4, <3>5 DEF NothingLost
  <2>. QED
    BY <2>5, <2>6, <2>7, <2>8 DEF Apart
<1>. QED
  BY <1>2, <1>3

LEMMA PlacesStep ==
  ASSUME Control, Control', Apart, NothingLost, [Next]_vars
  PROVE  Apart' /\ NothingLost'
<1>1. CASE CreateWorker
  BY <1>1, PlacesKept DEF CreateWorker
<1>2. CASE InitDone
  BY <1>2, PlacesKept DEF InitDone
<1>3. CASE CreationFails
  BY <1>3, PlacesKept DEF CreationFails, TellToStop
<1>4. CASE StopWorkers
  BY <1>4, PlacesKept DEF StopWorkers, TellToStop
<1>5. CASE JoinUncreated
  BY <1>5, PlacesKept DEF JoinUncreated
<1>6. CASE SearchRefused
  BY <1>6, PlacesKept DEF SearchRefused
<1>7. CASE DoneAdding
  BY <1>7, PlacesKept DEF DoneAdding
<1>8. CASE MainArrives
  BY <1>8, PlacesKept DEF MainArrives
<1>9. CASE Return
  BY <1>9, PlacesKept DEF Return
<1>10. CASE OpenWorkerDone
  BY <1>10, PlacesKept DEF OpenWorkerDone, Open, Arrived
<1>11. CASE OpenResultsDone
  BY <1>11, PlacesKept DEF OpenResultsDone, Open, Arrived
<1>12. CASE StartWorkers
  BY <1>12, EmptyPlaces DEF StartWorkers
<1>13. CASE JoinWorkers
  BY <1>13, EmptyPlaces DEF JoinWorkers
<1>14. CASE JoinResults
  BY <1>14, EmptyPlaces DEF JoinResults
<1>15. CASE BeginSearch
  BY <1>15, BeginSearchKeeps
<1>16. CASE SearchHere
  BY <1>16, SearchHereKeeps
<1>17. CASE HandOver
  BY <1>17, HandOverKeeps
<1>18. ASSUME NEW w \in Worker, WaitForFiles(w)
      PROVE  Apart' /\ NothingLost'
  BY <1>18, PlacesKept DEF WaitForFiles, OnlyGoes
<1>19. ASSUME NEW w \in Worker, LeaveQueue(w)
      PROVE  Apart' /\ NothingLost'
  BY <1>19, PlacesKept DEF LeaveQueue, OnlyGoes
<1>20. ASSUME NEW w \in Worker, Exit(w)
      PROVE  Apart' /\ NothingLost'
  BY <1>20, PlacesKept DEF Exit, OnlyGoes
<1>21. ASSUME NEW w \in Worker, WorkerArrives(w)
      PROVE  Apart' /\ NothingLost'
  BY <1>21, PlacesKept DEF WorkerArrives, OnlyGoes
<1>22. ASSUME NEW w \in Worker, SpuriousWake(w)
      PROVE  Apart' /\ NothingLost'
  BY <1>22, PlacesKept DEF SpuriousWake, OnlyGoes
<1>23. ASSUME NEW w \in Worker, TakeFile(w)
      PROVE  Apart' /\ NothingLost'
  BY <1>23, TakeFileKeeps
<1>24. ASSUME NEW w \in Worker, SearchFile(w)
      PROVE  Apart' /\ NothingLost'
  BY <1>24, SearchFileKeeps
<1>25. CASE UNCHANGED vars
  BY <1>25, PlacesKept DEF vars
<1>. QED
  BY <1>1, <1>2, <1>3, <1>4, <1>5, <1>6, <1>7, <1>8, <1>9, <1>10, <1>11, <1>12, <1>13, <1>14, <1>15, <1>16, <1>17, <1>18, <1>19, <1>20, <1>21, <1>22, <1>23, <1>24, <1>25
     DEF Next, MainRuns, MainIsTold, WorkerRuns, Crashed

\* What the invariant says of one place of a file,
LEMMA PlaceOf ==
  ASSUME Control, NEW f \in File, NEW p \in Places(f)
  PROVE  \/ p = <<"left">> /\ f \in left
         \/ \E i \in 1..Len(work_queue) : p = <<"queue", i>> /\ work_queue[i] = f
         \/ \E w \in Worker : p = <<"hand", w>> /\ item[w] = f
         \/ \E t \in 0..NumWorkers : \E i \in 1..Len(thrd_rslt[t]) :
              p = <<"result", t, i>> /\ thrd_rslt[t][i] = f
<1>1. DOMAIN work_queue = 1..Len(work_queue)
  BY LenProperties DEF Control, TypeOK
<1>2. \A t \in 0..NumWorkers : DOMAIN thrd_rslt[t] = 1..Len(thrd_rslt[t])
  BY LenProperties DEF Control, TypeOK
<1>3. CASE p \in InQueue(f)
  BY <1>3, <1>1 DEF InQueue
<1>4. CASE p \in InHand(f)
  BY <1>4 DEF InHand
<1>5. CASE p \in InResults(f)
  <2>1. PICK t \in 0..NumWorkers :
          p \in {<<"result", t, i>> : i \in {j \in DOMAIN thrd_rslt[t] : thrd_rslt[t][j] = f}}
    BY <1>5 DEF InResults
  <2>. QED
    BY <2>1, <1>2
<1>. QED
  BY <1>3, <1>4, <1>5 DEF Places

\* and of all of them.
LEMMA OnePlaceEach ==
  ASSUME Control, Apart, NothingLost
  PROVE  EachFileOnce
<1>1. ASSUME NEW f \in File, NEW p \in Places(f), NEW q \in Places(f)
      PROVE  p = q
  <2>. f # NoFile
    BY WorkerPoolAssumption
  <2>1. CASE p = <<"left">> /\ f \in left
    <3>1. /\ \A i \in 1..Len(work_queue) : work_queue[i] # f
          /\ \A w \in Worker : item[w] # f
          /\ \A t \in 0..NumWorkers : \A i \in 1..Len(thrd_rslt[t]) : thrd_rslt[t][i] # f
      BY <2>1 DEF Apart, QueueApart, HandsApart, ResultsApart
    <3>2. q = <<"left">>
      BY <3>1, PlaceOf
    <3>. QED
      BY <2>1, <3>2
  <2>2. ASSUME NEW i \in 1..Len(work_queue), p = <<"queue", i>>, work_queue[i] = f
        PROVE  p = q
    <3>1. /\ f \notin left
          /\ \A j \in 1..Len(work_queue) : work_queue[j] = f => j = i
          /\ \A w \in Worker : item[w] # f
          /\ \A t \in 0..NumWorkers : \A j \in 1..Len(thrd_rslt[t]) : thrd_rslt[t][j] # f
      BY <2>2 DEF Apart, QueueApart
    <3>2. q = <<"queue", i>>
      BY <3>1, PlaceOf
    <3>. QED
      BY <2>2, <3>2
  <2>3. ASSUME NEW w \in Worker, p = <<"hand", w>>, item[w] = f
        PROVE  p = q
    <3>1. /\ f \notin left
          /\ \A j \in 1..Len(work_queue) : work_queue[j] # f
          /\ \A v \in Worker : item[v] = f => v = w
          /\ \A t \in 0..NumWorkers : \A j \in 1..Len(thrd_rslt[t]) : thrd_rslt[t][j] # f
      BY <2>3 DEF Apart, QueueApart, HandsApart
    <3>2. q = <<"hand", w>>
      BY <3>1, PlaceOf
    <3>. QED
      BY <2>3, <3>2
  <2>4. ASSUME NEW t \in 0..NumWorkers, NEW i \in 1..Len(thrd_rslt[t]),
               p = <<"result", t, i>>, thrd_rslt[t][i] = f
        PROVE  p = q
    <3>1. /\ f \notin left
          /\ \A j \in 1..Len(work_queue) : work_queue[j] # f
          /\ \A v \in Worker : item[v] # f
          /\ \A u \in 0..NumWorkers : \A j \in 1..Len(thrd_rslt[u]) :
               thrd_rslt[u][j] = f => u = t /\ j = i
      BY <2>4 DEF Apart, QueueApart, HandsApart, ResultsApart
    <3>2. q = <<"result", t, i>>
      BY <3>1, PlaceOf
    <3>. QED
      BY <2>4, <3>2
  <2>. QED
    BY <2>1, <2>2, <2>3, <2>4, PlaceOf
<1>2. ASSUME InSearch, NEW f \in matching
      PROVE  Places(f) # {}
  <2>1. DOMAIN work_queue = 1..Len(work_queue)
    BY LenProperties DEF Control, TypeOK
  <2>2. \A t \in 0..NumWorkers : DOMAIN thrd_rslt[t] = 1..Len(thrd_rslt[t])
    BY LenProperties DEF Control, TypeOK
  <2>3. CASE f \in left
    BY <2>3 DEF Places
  <2>4. ASSUME NEW i \in 1..Len(work_queue), work_queue[i] = f
        PROVE  Places(f) # {}
    <3>1. <<"queue", i>> \in InQueue(f)
      BY <2>1, <2>4 DEF InQueue
    <3>. QED
      BY <3>1 DEF Places
  <2>5. ASSUME NEW w \in Worker, item[w] = f
        PROVE  Places(f) # {}
    <3>1. <<"hand", w>> \in InHand(f)
      BY <2>5 DEF InHand
    <3>. QED
      BY <3>1 DEF Places
  <2>6. ASSUME NEW t \in 0..NumWorkers, NEW i \in 1..Len(thrd_rslt[t]), thrd_rslt[t][i] = f
        PROVE  Places(f) # {}
    <3>1. <<"result", t, i>> \in InResults(f)
      BY <2>2, <2>6 DEF InResults
    <3>. QED
      BY <3>1 DEF Places
  <2>. QED
    BY <1>2, <2>3, <2>4, <2>5, <2>6 DEF NothingLost
<1>. QED
  BY <1>1, <1>2 DEF EachFileOnce

-----------------------------------------------------------------------------
(* Theorems. *)

\* In the beginning there are no threads and no files (main.cpp:46-57).
LEMMA InitIInv == Init => IInv
<1>. SUFFICES ASSUME Init PROVE IInv
  OBVIOUS
<1>. USE WorkerPoolAssumption
<1>1. /\ work_queue = << >> /\ left = {} /\ pc = "off"
      /\ \A w \in Worker : item[w] = NoFile /\ worker[w] = "none"
      /\ \A t \in 0..NumWorkers : thrd_rslt[t] = << >>
      /\ thrd_rslt = NoResults
      /\ done_adding_files = FALSE
  BY DEF Init, NoResults
<1>2. TypeOK
  <2>1. NoResults \in [0..NumWorkers -> Seq(File)]
    BY DEF NoResults
  <2>2. NumWorkers \in Nat /\ << >> \in Seq(File) /\ 0 \in 0..NumWorkers
    OBVIOUS
  <2>3. worker \in [Worker -> WorkerPC] /\ item \in [Worker -> File \cup {NoFile}]
    BY DEF Init, WorkerPC
  <2>4. /\ pc \in MainPC /\ created \in 0..NumWorkers /\ workers_len \in 0..NumWorkers
        /\ has_ag_init \in BOOLEAN /\ done_adding_files \in BOOLEAN /\ stop_workers \in BOOLEAN
        /\ left \subseteq File /\ matching \subseteq File
    BY <2>2 DEF Init, MainPC
  <2>. QED
    BY <1>1, <2>1, <2>2, <2>3, <2>4 DEF TypeOK
<1>3. FlagsFollowMain /\ WorkersFollowMain /\ NothingOutsideSearch
  BY <1>1 DEF FlagsFollowMain, WorkersFollowMain, NothingOutsideSearch
<1>4. QueueApart /\ HandsApart /\ ResultsApart /\ NothingLost
  BY <1>1 DEF QueueApart, HandsApart, ResultsApart, NothingLost
<1>. QED
  BY <1>2, <1>3, <1>4 DEF IInv, Control

\* The inductive invariant holds of every behaviour: the main thread of
\* ag_search and the loop of search_file_worker keep it (libag.c:706-816).
THEOREM PoolInvariant == Spec => []IInv
<1>1. IInv /\ [Next]_vars => IInv'
  <2>. SUFFICES ASSUME IInv, [Next]_vars PROVE IInv'
    OBVIOUS
  <2>1. Control /\ Apart /\ NothingLost
    BY DEF IInv, Apart
  <2>2. Control'
    BY <2>1, ControlStep
  <2>3. Apart' /\ NothingLost'
    BY <2>1, <2>2, PlacesStep
  <2>. QED
    BY <2>2, <2>3 DEF IInv, Apart
<1>. QED
  BY <1>1, InitIInv, PTL DEF Spec

\* Every step of every thread keeps the types (search.c:449-487).
THEOREM PoolTypeCorrect == Spec => []TypeOK
<1>1. IInv => TypeOK
  BY DEF IInv, Control
<1>. QED
  BY <1>1, PoolInvariant, PTL

\* The main thread joins and resets the results when no worker can touch
\* them or the queue (libag.c:784-792).
THEOREM JoinIsQuiet == Spec => []QuietWhileJoining
<1>1. IInv => QuietWhileJoining
  BY DEF IInv, Control, WorkersFollowMain, NothingOutsideSearch, QuietWhileJoining
<1>. QED
  BY <1>1, PoolInvariant, PTL

\* No file is lost or searched twice on its way from the walk to the join
\* (search.c:664-675, 476-485).
THEOREM FilesSearchedOnce == Spec => []EachFileOnce
<1>1. IInv => EachFileOnce
  BY OnePlaceEach DEF IInv, Apart
<1>. QED
  BY <1>1, PoolInvariant, PTL

-----------------------------------------------------------------------------
(* The search service. *)

\* Nothing is in the results but files of the search that have a match.
ResultsMatch ==
  \A t \in 0..NumWorkers : \A i \in 1..Len(thrd_rslt[t]) : thrd_rslt[t][i] \in matching
\* What was joined is what the search asked for.
ResultIsAll == pc \in {"results_done", "returning"} => result \in Service!OnceEach(matching)
ServiceInv == ResultsMatch /\ ResultIsAll

\* The lists joined hold each file with a match once (libag.c:786-790).
LEMMA JoinedIsAll ==
  ASSUME IInv, ResultsMatch, pc = "joining"
  PROVE  FlattenSeq([i \in 1..(NumWorkers + 1) |-> thrd_rslt[i - 1]]) \in Service!OnceEach(matching)
<1>. DEFINE n == NumWorkers + 1
            parts == [i \in 1..n |-> thrd_rslt[i - 1]]
            joined == FlattenSeq(parts)
<1>1. n \in Nat \ {0} /\ \A i \in 1..n : i - 1 \in 0..NumWorkers
  BY WorkerPoolAssumption
<1>2. \A t \in 0..NumWorkers : t + 1 \in 1..n /\ (t + 1) - 1 = t
  BY WorkerPoolAssumption
<1>3. \A t \in 0..NumWorkers : thrd_rslt[t] \in Seq(File) /\ Len(thrd_rslt[t]) \in Nat
  BY LenProperties DEF IInv, Control, TypeOK
<1>4. \A i \in 1..n : parts[i] = thrd_rslt[i - 1] /\ parts[i] \in Seq(matching)
  <2>1. ASSUME NEW i \in 1..n PROVE thrd_rslt[i - 1] \in Seq(matching)
    <3>1. /\ thrd_rslt[i - 1] \in Seq(File) /\ Len(thrd_rslt[i - 1]) \in Nat
          /\ \A j \in 1..Len(thrd_rslt[i - 1]) : thrd_rslt[i - 1][j] \in matching
      BY <1>1, <1>3 DEF ResultsMatch
    <3>. QED
      BY <3>1, LenProperties, IsASeq
  <2>. QED
    BY <2>1
<1>5. parts \in [1..n -> Seq(matching)]
  BY <1>4
<1>6. PartsApart(parts, n)
  <2>1. ASSUME NEW i \in 1..n, NEW u \in 1..n, NEW j \in 1..Len(parts[i]),
               NEW k \in 1..Len(parts[u]), parts[i][j] = parts[u][k]
        PROVE  i = u /\ j = k
    <3>1. /\ i - 1 \in 0..NumWorkers /\ parts[i] = thrd_rslt[i - 1]
          /\ u - 1 \in 0..NumWorkers /\ parts[u] = thrd_rslt[u - 1]
      BY <1>1, <1>4
    <3>2. /\ j \in 1..Len(thrd_rslt[i - 1]) /\ k \in 1..Len(thrd_rslt[u - 1])
          /\ thrd_rslt[i - 1][j] = thrd_rslt[u - 1][k]
      BY <2>1, <3>1
    <3>. HIDE DEF parts
    <3>3. i - 1 = u - 1 /\ j = k
      BY <3>1, <3>2 DEF IInv, ResultsApart
    <3>. QED
      BY <3>3
  <2>. HIDE DEF parts
  <2>. QED
    BY <2>1 DEF PartsApart
<1>. HIDE DEF n
<1>7. joined \in Seq(matching) /\ Holds(joined, parts, n) /\ NoneTwice(joined)
  <2>. HIDE DEF parts
  <2>. QED
    BY <1>1, <1>5, <1>6, FlattenSeqHolds
<1>8. ASSUME NEW f \in matching PROVE \E k \in 1..Len(joined) : joined[k] = f
  <2>1. left = {} /\ work_queue = << >> /\ f # NoFile
    BY <1>8, WorkerPoolAssumption DEF IInv, Control, TypeOK, NothingOutsideSearch
  <2>2. \A w \in Worker : item[w] = NoFile
    BY DEF IInv, Control, WorkersFollowMain
  <2>3. PICK t \in 0..NumWorkers : \E j \in 1..Len(thrd_rslt[t]) : thrd_rslt[t][j] = f
    BY <2>1, <2>2 DEF IInv, NothingLost
  <2>4. t + 1 \in 1..n /\ parts[t + 1] = thrd_rslt[t]
    BY <1>2, <1>4
  <2>5. PICK j \in 1..Len(parts[t + 1]) : parts[t + 1][j] = f
    BY <2>3, <2>4
  <2>. HIDE DEF parts, joined
  <2>. QED
    BY <1>7, <2>4, <2>5 DEF Holds
<1>. HIDE DEF joined
<1>9. /\ Len(joined) \in Nat /\ DOMAIN joined = 1..Len(joined)
      /\ joined \in [1..Len(joined) -> matching]
  BY <1>7, LenProperties
<1>10. joined \in Bijection(1..Len(joined), matching)
  BY <1>7, <1>8, <1>9 DEF NoneTwice, Bijection, Injection, IsInjective, Surjection
<1>11. Cardinality(matching) = Len(joined)
  BY <1>9, <1>10, FS_CountingElements DEF ExistsBijection
<1>12. IsInjective(joined)
  BY <1>10 DEF Bijection, Injection
<1>13. Service!Cardinality(matching) = Cardinality(matching)
  BY Zenon DEF Service!Cardinality, Cardinality
<1>14. joined \in Service!OnceEach(matching)
  BY <1>9, <1>11, <1>12, <1>13 DEF Service!OnceEach, Service!IsInjective, IsInjective
<1>. QED
  BY <1>14 DEF joined, parts, n

\* A thread's list grows by a file that has a match, or stays.
LEMMA MatchAppended ==
  ASSUME ServiceInv, thrd_rslt \in [0..NumWorkers -> Seq(File)], matching' = matching,
         NEW w \in 0..NumWorkers, NEW f \in File,
         thrd_rslt' = [thrd_rslt EXCEPT ![w] = IF f \in matching THEN Append(@, f) ELSE @]
  PROVE  ResultsMatch'
<1>1. ASSUME NEW t \in 0..NumWorkers, NEW i \in 1..Len(thrd_rslt'[t])
      PROVE  thrd_rslt'[t][i] \in matching'
  <2>1. CASE thrd_rslt'[t] = thrd_rslt[t]
    BY <1>1, <2>1 DEF ServiceInv, ResultsMatch
  <2>2. CASE t = w /\ f \in matching /\ thrd_rslt'[t] = Append(thrd_rslt[t], f)
    <3>1. /\ Len(thrd_rslt[t]) \in Nat /\ Len(thrd_rslt'[t]) = Len(thrd_rslt[t]) + 1
          /\ \A j \in 1..Len(thrd_rslt[t]) : thrd_rslt'[t][j] = thrd_rslt[t][j]
          /\ thrd_rslt'[t][Len(thrd_rslt[t]) + 1] = f
      BY <2>2, AppendProperties, LenProperties
    <3>2. CASE i \in 1..Len(thrd_rslt[t])
      BY <3>1, <3>2 DEF ServiceInv, ResultsMatch
    <3>3. CASE i = Len(thrd_rslt[t]) + 1
      BY <2>2, <3>1, <3>3
    <3>. QED
      BY <1>1, <3>1, <3>2, <3>3
  <2>. QED
    BY <2>1, <2>2
<1>. QED
  BY <1>1 DEF ResultsMatch

LEMMA ServiceInvStep ==
  ASSUME IInv, IInv', ServiceInv, [Next]_vars
  PROVE  ServiceInv'
<1>1. ASSUME UNCHANGED <<matching, thrd_rslt>> PROVE ResultsMatch'
  BY <1>1 DEF ServiceInv, ResultsMatch
<1>2. ASSUME thrd_rslt' = NoResults PROVE ResultsMatch'
  <2>1. \A t \in 0..NumWorkers : thrd_rslt'[t] = << >>
    BY <1>2 DEF NoResults
  <2>. QED
    BY <2>1 DEF ResultsMatch
<1>3. ASSUME UNCHANGED <<matching, result>>,
             pc' \in {"results_done", "returning"} => pc \in {"results_done", "returning"}
      PROVE  ResultIsAll'
  <2>. DEFINE all == result \in Service!OnceEach(matching)
  <2>1. (Service!OnceEach(matching))' = Service!OnceEach(matching)
    BY <1>3 DEF Service!OnceEach, Service!Cardinality, Service!IsInjective
  <2>. QED
    BY <1>3, <2>1 DEF ServiceInv, ResultIsAll
<1>4. ASSUME pc' \notin {"results_done", "returning"} PROVE ResultIsAll'
  BY <1>4 DEF ResultIsAll
<1>5. CASE StartWorkers \/ JoinWorkers
  BY <1>2, <1>4, <1>5 DEF StartWorkers, JoinWorkers, ServiceInv
<1>6. CASE CreateWorker \/ InitDone \/ CreationFails \/ StopWorkers \/ JoinUncreated
  BY <1>1, <1>4, <1>6
     DEF CreateWorker, InitDone, CreationFails, StopWorkers, TellToStop, JoinUncreated, ServiceInv
<1>7. CASE SearchRefused \/ HandOver \/ DoneAdding \/ MainArrives
  BY <1>1, <1>4, <1>7 DEF SearchRefused, HandOver, DoneAdding, MainArrives, ServiceInv
<1>8. CASE Return \/ OpenWorkerDone
  BY <1>1, <1>4, <1>8 DEF Return, OpenWorkerDone, Open, Arrived, ServiceInv
<1>9. CASE OpenResultsDone
  BY <1>1, <1>3, <1>9 DEF OpenResultsDone, Open, Arrived, ServiceInv
<1>10. CASE BeginSearch
  <2>1. thrd_rslt' = NoResults
    BY <1>10 DEF BeginSearch, IInv, Control, NothingOutsideSearch
  <2>. QED
    BY <1>2, <1>4, <1>10, <2>1 DEF BeginSearch, ServiceInv
<1>11. CASE SearchHere
  <2>1. PICK f \in left :
          thrd_rslt' = [thrd_rslt EXCEPT ![MainThread] = IF f \in matching THEN Append(@, f) ELSE @]
    BY <1>11 DEF SearchHere
  <2>2. /\ UNCHANGED <<pc, matching, result>> /\ f \in File
        /\ thrd_rslt \in [0..NumWorkers -> Seq(File)]
    BY <1>11 DEF SearchHere, IInv, Control, TypeOK
  <2>3. PICK m \in 0..NumWorkers : m = MainThread
    BY WorkerPoolAssumption DEF MainThread
  <2>. HIDE DEF MainThread
  <2>4. ResultsMatch'
    BY <2>1, <2>2, <2>3, MatchAppended
  <2>. QED
    BY <1>3, <2>2, <2>4 DEF ServiceInv
<1>12. CASE JoinResults
  <2>1. result' = FlattenSeq([i \in 1..(NumWorkers + 1) |-> thrd_rslt[i - 1]])
    BY <1>12 DEF JoinResults
  <2>2. result' \in Service!OnceEach(matching)
    BY <1>12, <2>1, JoinedIsAll DEF ServiceInv, JoinResults
  <2>3. (Service!OnceEach(matching))' = Service!OnceEach(matching)
    BY <1>12 DEF JoinResults, Service!OnceEach, Service!Cardinality, Service!IsInjective
  <2>4. thrd_rslt' = NoResults
    BY <1>12 DEF JoinResults
  <2>. QED
    BY <1>2, <2>2, <2>3, <2>4 DEF ServiceInv, ResultIsAll
<1>13. ASSUME NEW w \in Worker, TakeFile(w) \/ WaitForFiles(w) \/ LeaveQueue(w)
       PROVE  ServiceInv'
  BY <1>1, <1>3, <1>13 DEF TakeFile, WaitForFiles, LeaveQueue, OnlyGoes, ServiceInv
<1>14. ASSUME NEW w \in Worker, Exit(w) \/ WorkerArrives(w) \/ SpuriousWake(w)
       PROVE  ServiceInv'
  BY <1>1, <1>3, <1>14 DEF Exit, WorkerArrives, SpuriousWake, OnlyGoes, ServiceInv
<1>15. ASSUME NEW w \in Worker, SearchFile(w)
       PROVE  ServiceInv'
  <2>1. /\ thrd_rslt' = [thrd_rslt EXCEPT ![w] =
                           IF item[w] \in matching THEN Append(@, item[w]) ELSE @]
        /\ UNCHANGED <<pc, matching, result>>
    BY <1>15 DEF SearchFile
  <2>2. /\ thrd_rslt \in [0..NumWorkers -> Seq(File)] /\ w \in 0..NumWorkers
        /\ item[w] \in File
    BY <1>15, WorkerPoolAssumption DEF SearchFile, IInv, Control, TypeOK, WorkersFollowMain
  <2>3. PICK f \in File : f = item[w]
    BY <2>2
  <2>4. ResultsMatch'
    BY <2>1, <2>2, <2>3, MatchAppended
  <2>. QED
    BY <1>3, <2>1, <2>4 DEF ServiceInv
<1>16. CASE UNCHANGED vars
  BY <1>1, <1>3, <1>16 DEF vars, ServiceInv
<1>. QED
  BY <1>5, <1>6, <1>7, <1>8, <1>9, <1>10, <1>11, <1>12, <1>13, <1>14, <1>15, <1>16
     DEF Next, MainRuns, MainIsTold, WorkerRuns, Crashed, ServiceInv

\* Every step is one of the service or leaves it as it is.
LEMMA ServiceStep ==
  ASSUME IInv, ServiceInv, [Next]_vars
  PROVE  [Service!Next]_Service!vars
<1>. DEFINE Kept == /\ pc \in Searching <=> pc' \in Searching
                    /\ pc \in {"broken", "crashed"} <=> pc' \in {"broken", "crashed"}
                    /\ UNCHANGED <<matching, answer>>
<1>1. Kept => UNCHANGED Service!vars
  BY DEF Service!vars
<1>2. CASE StartWorkers \/ JoinWorkers \/ CreateWorker \/ InitDone \/ CreationFails \/ StopWorkers
  <2>1. Kept
    BY <1>2 DEF StartWorkers, JoinWorkers, CreateWorker, InitDone, CreationFails, StopWorkers,
                TellToStop, Searching
  <2>. QED
    BY <1>1, <2>1
<1>3. CASE \/ HandOver \/ SearchHere \/ DoneAdding \/ MainArrives \/ JoinResults
           \/ OpenWorkerDone \/ OpenResultsDone
  <2>1. Kept
    BY <1>3 DEF HandOver, SearchHere, DoneAdding, MainArrives, JoinResults, OpenWorkerDone, OpenResultsDone,
                Open, Arrived, Searching
  <2>. QED
    BY <1>1, <2>1
<1>4. CASE BeginSearch
  <2>1. matching' \subseteq File
    BY <1>4 DEF BeginSearch, IInv, Control, TypeOK
  <2>2. Service!Ask
    BY <1>4, <2>1 DEF BeginSearch, Service!Ask, Searching
  <2>. QED
    BY <2>2 DEF Service!Next
<1>5. CASE Return
  <2>1. result \in Service!OnceEach(matching)
    BY <1>5 DEF Return, ServiceInv, ResultIsAll
  <2>2. Service!Answer
    BY <1>5, <2>1 DEF Return, Service!Answer, Searching
  <2>. QED
    BY <2>2 DEF Service!Next
<1>6. CASE JoinUncreated
  <2>1. Service!Lose
    BY <1>6 DEF JoinUncreated, Service!Lose, Searching
  <2>. QED
    BY <2>1 DEF Service!Next
<1>7. CASE SearchRefused
  <2>1. Service!Refuse
    BY <1>7 DEF SearchRefused, Service!Refuse, Searching
  <2>. QED
    BY <2>1 DEF Service!Next
<1>8. ASSUME NEW w \in Worker, WorkerRuns(w) \/ SpuriousWake(w)
      PROVE  [Service!Next]_Service!vars
  <2>1. Kept
    BY <1>8 DEF WorkerRuns, TakeFile, WaitForFiles, LeaveQueue, SearchFile, Exit, WorkerArrives,
                SpuriousWake, OnlyGoes
  <2>. QED
    BY <1>1, <2>1
<1>9. CASE UNCHANGED vars
  <2>1. Kept
    BY <1>9 DEF vars
  <2>. QED
    BY <1>1, <2>1
<1>. QED
  BY <1>2, <1>3, <1>4, <1>5, <1>6, <1>7, <1>8, <1>9 DEF Next, MainRuns, MainIsTold, Crashed

\* The pool does what SearchService promises, but for its fairness: each search
\* is answered with every file that has a match, once, whichever worker found
\* it; only threads that could not be created end that, and never during a
\* search (libag.c:706-816).
THEOREM PoolServes == Spec => Service!Init /\ [][Service!Next]_Service!vars
<1>1. Init => ServiceInv /\ Service!Init
  <2>. SUFFICES ASSUME Init PROVE ServiceInv /\ Service!Init
    OBVIOUS
  <2>1. (\A t \in 0..NumWorkers : thrd_rslt[t] = << >>) /\ pc = "off"
    BY DEF Init, NoResults
  <2>2. ServiceInv
    BY <2>1 DEF ServiceInv, ResultsMatch, ResultIsAll
  <2>3. Service!Init
    BY <2>1 DEF Init, Service!Init, Searching
  <2>. QED
    BY <2>2, <2>3
<1>2. IInv /\ IInv' /\ ServiceInv /\ [Next]_vars => ServiceInv' /\ [Service!Next]_Service!vars
  BY ServiceInvStep, ServiceStep
<1>. QED
  BY <1>1, <1>2, PoolInvariant, PTL DEF Spec
=============================================================================

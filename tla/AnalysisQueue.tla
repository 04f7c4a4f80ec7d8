--------------------------- MODULE AnalysisQueue ---------------------------
(***************************************************************************)
(* class AnalysisQueue of analyzer_service.py: a bounded priority queue of *)
(* videos, the set of videos "in flight", and a pool of worker threads.    *)
(*                                                                         *)
(* enqueue() is called by request handlers only, and those are coroutines  *)
(* without an await, so one caller, the event loop, is inside it at a time.*)
(* It tests _in_flight under the lock, releases the lock, puts the job on  *)
(* the queue and takes the lock again to add the video to _in_flight; the  *)
(* workers run between any two of these steps.                             *)
(*                                                                         *)
(* PriorityQueue orders its entries by (priority, time of insertion), so   *)
(* it is one first-in first-out sequence for each of the two priorities.   *)
(***************************************************************************)
EXTENDS Naturals, Sequences

CONSTANTS Videos,     \* video ids
          Workers,    \* the threads "analyzer_0", "analyzer_1", ...
          QueueMax,   \* analysis_queue_maxsize
          NoVideo     \* the event loop or a worker has no video in hand

ASSUME QueueAssumption ==
  /\ QueueMax \in Nat \ {0}
  /\ NoVideo \notin Videos

Urgent == 0           \* enqueue(priority=True)
Normal == 1
Priorities == {Urgent, Normal}

VARIABLES
  running,    \* _running
  queue,      \* _queue: the waiting videos of each priority, oldest first
  inFlight,   \* _in_flight
  jobSteps,   \* the keys of _job_steps
  loop,       \* where the event loop is inside enqueue()
  worker      \* where each worker thread is inside _worker()

queueVars == <<running, queue, inFlight, jobSteps, loop, worker>>

-----------------------------------------------------------------------------
NoCall == [pc |-> "idle", video |-> NoVideo, priority |-> Normal, queued |-> FALSE]
AtTop  == [pc |-> "top", video |-> NoVideo]

LoopStates   == {"idle", "check", "put", "add", "returned"}
WorkerStates == {"top", "get", "begin", "run", "discard", "release", "exited"}
JobStates    == {"begin", "run", "discard"}   \* a worker has a job in hand

FullOffByOne == Len(queue[Urgent]) + Len(queue[Normal]) > QueueMax  \* a mistake
Full == Len(queue[Urgent]) + Len(queue[Normal]) >= QueueMax

InQueue(v) == \E p \in Priorities : \E i \in 1..Len(queue[p]) : queue[p][i] = v
Holds(w, v) == worker[w].pc \in JobStates /\ worker[w].video = v
Runs(w, v)  == worker[w].pc = "run" /\ worker[w].video = v
HasJob(v)   == InQueue(v) \/ \E w \in Workers : Holds(w, v)

QueueTypeOK ==
  /\ running \in BOOLEAN
  /\ queue \in [Priorities -> Seq(Videos)]
  /\ Len(queue[Urgent]) + Len(queue[Normal]) <= QueueMax
  /\ inFlight \in SUBSET Videos
  /\ jobSteps \in SUBSET Videos
  /\ loop \in [pc : LoopStates, video : Videos \cup {NoVideo},
               priority : Priorities, queued : BOOLEAN]
  /\ loop.pc # "idle" => loop.video \in Videos
  /\ worker \in [Workers -> [pc : WorkerStates, video : Videos \cup {NoVideo}]]
  /\ \A w \in Workers :
        worker[w].pc \in JobStates \cup {"release"} => worker[w].video \in Videos

(* __init__ and start(): on_startup runs both before a request is served. *)
QueueInit ==
  /\ running = TRUE
  /\ queue = [p \in Priorities |-> <<>>]
  /\ inFlight = {}
  /\ jobSteps = {}
  /\ loop = NoCall
  /\ worker = [w \in Workers |-> AtTop]

-----------------------------------------------------------------------------
(* Mistakes a maintainer could make in the actions below; each is caught by *)
(* one of the properties at the end of the module.                          *)

(* enqueue() trusts its callers not to submit a video twice *)
EnqueueUnchecked ==
  /\ loop.pc = "check"
  /\ loop' = [loop EXCEPT !.pc = "put"]
  /\ UNCHANGED <<running, queue, inFlight, jobSteps, worker>>

(* enqueue() tests the running jobs instead of _in_flight *)
EnqueueCheckRunning ==
  /\ loop.pc = "check"
  /\ loop' = [loop EXCEPT !.pc = IF loop.video \in jobSteps THEN "returned" ELSE "put"]
  /\ UNCHANGED <<running, queue, inFlight, jobSteps, worker>>

(* a stack instead of a queue within one priority *)
WorkerGetNewest(w) ==
  /\ worker[w].pc = "get"
  /\ \E p \in Priorities :
       /\ queue[p] # <<>>
       /\ p = Normal => queue[Urgent] = <<>>
       /\ queue' = [queue EXCEPT ![p] = SubSeq(@, 1, Len(@) - 1)]
       /\ worker' = [worker EXCEPT ![w] = [pc |-> "begin", video |-> queue[p][Len(queue[p])]]]
  /\ UNCHANGED <<running, inFlight, jobSteps, loop>>

(* queue.Empty escapes the loop and ends the thread *)
WorkerEmptyExits(w) ==
  /\ worker[w].pc = "get"
  /\ \A p \in Priorities : queue[p] = <<>>
  /\ worker' = [worker EXCEPT ![w].pc = "exited"]
  /\ UNCHANGED <<running, queue, inFlight, jobSteps, loop>>

(* the video leaves _in_flight when its job starts, not when it ends *)
WorkerBeginDiscards(w) ==
  /\ worker[w].pc = "begin"
  /\ jobSteps' = jobSteps \cup {worker[w].video}
  /\ inFlight' = inFlight \ {worker[w].video}
  /\ worker' = [worker EXCEPT ![w].pc = "run"]
  /\ UNCHANGED <<running, queue, loop>>

-----------------------------------------------------------------------------
(* enqueue(), on the event loop.                                           *)

(* A handler calls enqueue(v, priority). *)
EnqueueCall(v, p) ==
  /\ loop.pc = "idle"
  /\ running
  /\ loop' = [pc |-> "check", video |-> v, priority |-> p, queued |-> FALSE]
  /\ UNCHANGED <<running, queue, inFlight, jobSteps, worker>>

(* "with self._lock: if video_id in self._in_flight: return False" *)
EnqueueCheck ==
  /\ loop.pc = "check"
  /\ loop' = [loop EXCEPT !.pc = IF loop.video \in inFlight THEN "returned" ELSE "put"]
  /\ UNCHANGED <<running, queue, inFlight, jobSteps, worker>>

(* put_nowait: appended behind the entries of its priority, or queue.Full *)
EnqueuePut ==
  /\ loop.pc = "put"
  /\ IF Full
       THEN /\ loop' = [loop EXCEPT !.pc = "returned"]
            /\ UNCHANGED queue
       ELSE /\ loop' = [loop EXCEPT !.pc = "add"]
            /\ queue' = [queue EXCEPT ![loop.priority] = Append(@, loop.video)]
  /\ UNCHANGED <<running, inFlight, jobSteps, worker>>

(* "with self._lock: self._in_flight.add(video_id)" and return True *)
EnqueueAdd ==
  /\ loop.pc = "add"
  /\ inFlight' = inFlight \cup {loop.video}
  /\ loop' = [loop EXCEPT !.pc = "returned", !.queued = TRUE]
  /\ UNCHANGED <<running, queue, jobSteps, worker>>

(* The handler that called enqueue() is done. *)
EnqueueReturn ==
  /\ loop.pc = "returned"
  /\ loop' = NoCall
  /\ UNCHANGED <<running, queue, inFlight, jobSteps, worker>>

-----------------------------------------------------------------------------
(* _worker(), on the pool's threads.                                       *)

(* "while self._running" *)
WorkerTop(w) ==
  /\ worker[w].pc = "top"
  /\ worker' = [worker EXCEPT ![w].pc = IF running THEN "get" ELSE "exited"]
  /\ UNCHANGED <<running, queue, inFlight, jobSteps, loop>>

(* get(timeout=2) returns the oldest entry of the most urgent priority. *)
WorkerGet(w) ==
  /\ worker[w].pc = "get"
  /\ \E p \in Priorities :
       /\ queue[p] # <<>>
       /\ p = Normal => queue[Urgent] = <<>>
       /\ queue' = [queue EXCEPT ![p] = Tail(@)]
       /\ worker' = [worker EXCEPT ![w] = [pc |-> "begin", video |-> Head(queue[p])]]
  /\ UNCHANGED <<running, inFlight, jobSteps, loop>>

(* get() times out: "except queue.Empty: continue" *)
WorkerEmpty(w) ==
  /\ worker[w].pc = "get"
  /\ \A p \in Priorities : queue[p] = <<>>
  /\ worker' = [worker EXCEPT ![w].pc = "top"]
  /\ UNCHANGED <<running, queue, inFlight, jobSteps, loop>>

(* _begin_job(): the job becomes visible, and the analysis starts. *)
WorkerBegin(w) ==
  /\ worker[w].pc = "begin"
  /\ jobSteps' = jobSteps \cup {worker[w].video}
  /\ worker' = [worker EXCEPT ![w].pc = "run"]
  /\ UNCHANGED <<running, queue, inFlight, loop>>

(* The analysis has returned or raised; the finally block starts: _end_job() *)
WorkerEnd(w) ==
  /\ worker[w].pc = "run"
  /\ jobSteps' = jobSteps \ {worker[w].video}
  /\ worker' = [worker EXCEPT ![w].pc = "discard"]
  /\ UNCHANGED <<running, queue, inFlight, loop>>

(* "with self._lock: self._in_flight.discard(video_id)" *)
WorkerDiscard(w) ==
  /\ worker[w].pc = "discard"
  /\ inFlight' = inFlight \ {worker[w].video}
  /\ worker' = [worker EXCEPT ![w].pc = "release"]
  /\ UNCHANGED <<running, queue, jobSteps, loop>>

(* The end of it: _clear_client_pending() (the pending map is not part of *)
(* this module) and task_done(), whose counter nobody waits on.             *)
WorkerRelease(w) ==
  /\ worker[w].pc = "release"
  /\ worker' = [worker EXCEPT ![w] = AtTop]
  /\ UNCHANGED <<running, queue, inFlight, jobSteps, loop>>

-----------------------------------------------------------------------------
(* stop(): on_shutdown runs it when no request is being served any more. A  *)
(* worker already inside get() may still take one job.                      *)
Stop ==
  /\ running
  /\ loop.pc = "idle"
  /\ running' = FALSE
  /\ UNCHANGED <<queue, inFlight, jobSteps, loop, worker>>

(* The process dies, or is restarted by systemd, at any point: everything   *)
(* in this module lives in memory.                                          *)
Restart ==
  /\ running' = TRUE
  /\ queue' = [p \in Priorities |-> <<>>]
  /\ inFlight' = {}
  /\ jobSteps' = {}
  /\ loop' = NoCall
  /\ worker' = [w \in Workers |-> AtTop]

LoopStep == EnqueueCheck \/ EnqueuePut \/ EnqueueAdd \/ EnqueueReturn

WorkerStep(w) ==
  \/ WorkerTop(w) \/ WorkerGet(w) \/ WorkerEmpty(w) \/ WorkerBegin(w)
  \/ WorkerEnd(w) \/ WorkerDiscard(w) \/ WorkerRelease(w)

QueueNext ==
  \/ \E v \in Videos, p \in Priorities : EnqueueCall(v, p)
  \/ LoopStep
  \/ \E w \in Workers : WorkerStep(w)
  \/ Stop
  \/ Restart

QueueSpec == QueueInit /\ [][QueueNext]_queueVars

(* The scheduler runs every thread that can run; an analysis returns, each  *)
(* of its downloads and subprocess calls carrying a timeout of its own.     *)
QueueFairness ==
  /\ WF_queueVars(LoopStep)
  /\ \A w \in Workers : WF_queueVars(WorkerStep(w))

FairQueueSpec == QueueSpec /\ QueueFairness

-----------------------------------------------------------------------------
(* A video is waiting or being analysed at most once at any time, although   *)
(* enqueue() gives up the lock between its test and its insertion; and the   *)
(* jobs shown by /api/analysis/status are exactly the ones being run: if two *)
(* workers ran one video, the first to end would take the other's entry.     *)
QueuedOnce ==
  \A p, q \in Priorities : \A i \in 1..Len(queue[p]), j \in 1..Len(queue[q]) :
     queue[p][i] = queue[q][j] => p = q /\ i = j

RunOnce ==
  /\ \A w \in Workers, v \in Videos : Holds(w, v) => ~InQueue(v)
  /\ \A w, x \in Workers, v \in Videos : Holds(w, v) /\ Holds(x, v) => w = x

StepsAreRunning ==
  jobSteps = {v \in Videos : \E w \in Workers : Runs(w, v)}

OneJobPerVideo == QueuedOnce /\ RunOnce /\ StepsAreRunning

(* The strengthening that makes OneJobPerVideo inductive: a job is covered   *)
(* by _in_flight, except while the event loop is between its put and its     *)
(* add; and the video it is about to put has no job.                         *)
JobsInFlight ==
  \A v \in Videos :
     HasJob(v) => v \in inFlight \/ (loop.pc = "add" /\ loop.video = v)

PutIsFresh == loop.pc = "put" => ~HasJob(loop.video)

QueueInv == QueueTypeOK /\ OneJobPerVideo /\ JobsInFlight /\ PutIsFresh

(* The queue implements the job board.                                      *)
boardOf ==
  [v \in Videos |-> IF \E w \in Workers : Holds(w, v) THEN "running"
                    ELSE IF InQueue(v) THEN "waiting" ELSE "idle"]

Board == INSTANCE JobBoard WITH board <- boardOf

(* Every step of the queue is a step of the job board or leaves it alone:   *)
(* a submission is accepted only for a video without a job, and a job is    *)
(* run only after it has waited and forgotten only after it has run.        *)
ImplementsBoard == Board!BoardSpec

(* An urgent job is taken by a worker while the service runs: urgent jobs    *)
(* are served in order and nothing overtakes them.                          *)
UrgentServed ==
  \A v \in Videos :
     (\E i \in 1..Len(queue[Urgent]) : queue[Urgent][i] = v)
       ~> (~running \/ ~InQueue(v))

(* A normal job is taken as well if urgent submissions come to an end; a     *)
(* stream of them may overtake it for ever, which the code accepts.         *)
NormalServed ==
  (<>[](queue[Urgent] = <<>>)) =>
     \A v \in Videos : InQueue(v) ~> (~running \/ ~InQueue(v))

(* The docstring of enqueue(): "Returns False if the queue is full or the    *)
(* video is already queued".  A worker that ends the job between the put and *)
(* the add of the event loop leaves the video in _in_flight for ever, and it *)
(* is refused from then on with nothing queued.                              *)
RefusalMeansQueued ==
  [][loop.pc = "check" /\ loop'.pc = "returned" => HasJob(loop.video)]_queueVars
=============================================================================

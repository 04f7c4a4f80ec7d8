--------------------------- MODULE ShimPipeline ---------------------------
(***************************************************************************)
(* youtubei_shim.py in enforce mode (BRAINROT_SHIM_ENFORCE=1) beside the   *)
(* analysis queue.  On a click _register_decision() imports                *)
(* `analyzer_service` and enters enqueue() of the queue it finds there.    *)
(*                                                                         *)
(* Started by main(), uvicorn serves "analyzer_service:app" and the import *)
(* finds the served module.  The unit file starts uvicorn on               *)
(* "brainrotfilter.analyzer_service:app": sys.modules has no               *)
(* "analyzer_service" yet, the import runs the file again, and the shim    *)
(* gets a second analysis_queue whose start() nobody calls.                *)
(***************************************************************************)
EXTENDS AnalysisQueue

VARIABLES
  sharesModule,      \* the import finds the served module (started by main())
  importedQueue,     \* _queue and _in_flight of the second module: they
  importedInFlight,  \* stay empty if the module is shared
  verdict,           \* videos with a status "allow" or "block" in the database
  click,             \* the click _register_decision() is working on
  analysed           \* history: videos an analysis of which has ended since they
                     \* were last clicked

shimVars ==
  <<queueVars, sharesModule, importedQueue, importedInFlight, verdict, click, analysed>>

(* The queue of the second module: same class, same event loop, no worker. *)
Imported == INSTANCE AnalysisQueue WITH
  Workers <- {}, queue <- importedQueue, inFlight <- importedInFlight,
  jobSteps <- {}, worker <- <<>>

NoClick == [pc |-> "idle", video |-> NoVideo]

ShimInit ==
  /\ QueueInit
  /\ sharesModule \in BOOLEAN
  /\ importedQueue = [p \in Priorities |-> <<>>]
  /\ importedInFlight = {}
  /\ verdict = {}
  /\ click = NoClick
  /\ analysed = {}

Served == UNCHANGED <<sharesModule, importedQueue, importedInFlight>>
Second == UNCHANGED <<sharesModule, queue, inFlight, jobSteps, worker>>

-----------------------------------------------------------------------------
(* A mistake: the click queues the video behind the ordinary requests. *)
ClickNormal(v) ==
  /\ click.pc = "idle"
  /\ v \notin verdict
  /\ EnqueueCall(v, Normal)
  /\ click' = [pc |-> "enqueue", video |-> v]
  /\ analysed' = analysed \ {v}
  /\ Served
  /\ UNCHANGED verdict

(* _register_decision() for a click on a video without a verdict.  (For a   *)
(* blocked video it enters a CDN block instead, for an allowed one nothing.)*)
Click(v) ==
  /\ click.pc = "idle"
  /\ v \notin verdict
  /\ EnqueueCall(v, Urgent)
  /\ click' = [pc |-> "enqueue", video |-> v]
  /\ analysed' = analysed \ {v}
  /\ Served
  /\ UNCHANGED verdict

(* enqueue() of the module the import found *)
ClickStep ==
  /\ click.pc = "enqueue"
  /\ \/ sharesModule /\ (EnqueueCheck \/ EnqueuePut \/ EnqueueAdd) /\ Served
     \/ /\ ~sharesModule
        /\ Imported!EnqueueCheck \/ Imported!EnqueuePut \/ Imported!EnqueueAdd
        /\ Second
  /\ UNCHANGED <<verdict, click, analysed>>

(* enqueue() has returned; the client is marked pending if it returned True. *)
ClickQueued ==
  /\ click.pc = "enqueue"
  /\ EnqueueReturn
  /\ click' = IF loop.queued THEN [click EXCEPT !.pc = "accepted"] ELSE NoClick
  /\ Served
  /\ UNCHANGED <<verdict, analysed>>

ClickDone ==
  /\ click.pc = "accepted"
  /\ click' = NoClick
  /\ UNCHANGED <<queueVars, verdict, analysed>>
  /\ Served

(* POST /api/analyze, served by the first module while no click is handled. *)
AnalyzeStep ==
  /\ click.pc = "idle"
  /\ \/ \E v \in Videos, p \in Priorities : EnqueueCall(v, p)
     \/ LoopStep
  /\ Served
  /\ UNCHANGED <<verdict, click, analysed>>

(* The analysis stores a verdict before it ends, unless the database refuses *)
(* it or the analysis has raised.                                           *)
AnalysisEnds(w) ==
  /\ WorkerEnd(w)
  /\ verdict' \in {verdict, verdict \cup {worker[w].video}}
  /\ analysed' = analysed \cup {worker[w].video}
  /\ Served
  /\ UNCHANGED click

OtherWorkerStep(w) ==
  /\ WorkerTop(w) \/ WorkerGet(w) \/ WorkerEmpty(w) \/ WorkerBegin(w) \/ WorkerDiscard(w)
     \/ WorkerRelease(w)
  /\ Served
  /\ UNCHANGED <<verdict, click, analysed>>

ShimNext ==
  \/ \E v \in Videos : Click(v)
  \/ ClickStep \/ ClickQueued \/ ClickDone
  \/ AnalyzeStep
  \/ \E w \in Workers : AnalysisEnds(w) \/ OtherWorkerStep(w)

ShimSpec == ShimInit /\ [][ShimNext]_shimVars

(* A handler runs to its end and threads are scheduled. *)
ShimFairness ==
  /\ WF_shimVars(ClickStep \/ ClickQueued \/ ClickDone)
  /\ WF_shimVars(click.pc = "idle" /\ LoopStep /\ Served
                 /\ UNCHANGED <<verdict, click, analysed>>)
  /\ \A w \in Workers : WF_shimVars(AnalysisEnds(w) \/ OtherWorkerStep(w))

FairShimSpec == ShimSpec /\ ShimFairness

-----------------------------------------------------------------------------
(* With one module, a click whose enqueue() returned True leads to an         *)
(* analysis of the video while the service runs, however many ordinary        *)
(* requests it competes with.                                                *)
SharedClickIsAnalysed ==
  \A v \in Videos :
     sharesModule /\ click.pc = "accepted" /\ click.video = v ~> v \in analysed

(* The header of youtubei_shim.py: "On click: consult /api/check + queue for *)
(* analysis if unknown".  With the unit file's module name it does not.      *)
ClickIsAnalysed ==
  \A v \in Videos : click.pc = "accepted" /\ click.video = v ~> v \in analysed
=============================================================================

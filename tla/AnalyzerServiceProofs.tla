----------------------- MODULE AnalyzerServiceProofs -----------------------
(***************************************************************************)
(* Proofs about AnalyzerService for every set of clients, videos and       *)
(* workers and every time-out: a video has one analysis at a time in the   *)
(* running service as well; all state keeps its type; and a viewer of a    *)
(* flagged video is released only after its connections are cut, unless a  *)
(* job of the video has failed.                                            *)
(***************************************************************************)
EXTENDS AnalyzerService, AnalysisQueueProofs

(* Each step of the service is a step of the queue or leaves it alone. *)
LEMMA ServiceStepIsQueueStep == [ServiceNext]_vars => [QueueNext]_queueVars
<1> SUFFICES ASSUME [ServiceNext]_vars PROVE QueueNext \/ UNCHANGED queueVars
  OBVIOUS
<1>1. ASSUME NEW c \in Clients \cup {NoClient}, NEW v \in Videos, Request(c, v)
      PROVE  QueueNext \/ UNCHANGED queueVars
  BY <1>1 DEF Request, Analyze, Check, QueueNext
<1>2. CASE HandlerStep
  BY <1>2 DEF HandlerStep, InEnqueue, AnalyzeQueued, AnalyzeRead, AnalyzeMark, CheckAct,
              QueueNext, LoopStep
<1>3. ASSUME NEW v \in Videos, NEW status \in Statuses, Override(v, status)
      PROVE  UNCHANGED queueVars
  BY <1>3 DEF Override
<1>4. ASSUME NEW v \in Videos, NEW listed \in BOOLEAN, Whitelist(v, listed)
      PROVE  UNCHANGED queueVars
  BY <1>4 DEF Whitelist
<1>5. ASSUME NEW w \in Workers, InWorker(w) \/ JobStep(w)
      PROVE  QueueNext \/ UNCHANGED queueVars
  BY <1>5 DEF InWorker, JobStep, JobStarts, PersistResult, PersistFails, FindViewers,
              CutViewer, CuttingEnds, CuttingFails, JobEnds, JobRaises, ReleaseViewers,
              QueueNext, WorkerStep
<1>6. CASE Tick
  BY <1>6 DEF Tick
<1>7. CASE ServiceStops \/ ServiceRestarts
  BY <1>7 DEF ServiceStops, ServiceRestarts, QueueNext
<1>8. CASE UNCHANGED vars
  BY <1>8 DEF vars
<1>9. QED
  BY <1>1, <1>2, <1>3, <1>4, <1>5, <1>6, <1>7, <1>8 DEF ServiceNext

(* The service uses its queue only through the operations of AnalysisQueue. *)
LEMMA ServiceKeepsQueue == ServiceSpec => QueueSpec
<1>1. ServiceInit => QueueInit
  BY DEF ServiceInit
<1>2. QED
  BY <1>1, ServiceStepIsQueueStep, PTL DEF ServiceSpec, QueueSpec

(* In the running service, too, a video has at most one analysis at a time,  *)
(* waiting or running, whatever the handlers, the administrator, the clock   *)
(* and restarts do.                                                          *)
THEOREM ServiceOneJob == ServiceSpec => []OneJobPerVideo
  BY ServiceKeepsQueue, OneJobAlways, PTL

-----------------------------------------------------------------------------
(* The part of ServiceTypeOK that the video table needs. *)
RowTypeOK == row \in [Videos -> [status : Statuses \cup {"none"}, override : BOOLEAN]]

(* The table of videos is written by an administrator's override and by the  *)
(* outcome of an analysis.                                                   *)
LEMMA RowWriters ==
  ASSUME [ServiceNext]_vars
  PROVE  \/ UNCHANGED row
         \/ \E u \in Videos, status \in Statuses : Override(u, status)
         \/ \E w \in Workers, verdict \in Verdicts : PersistResult(w, verdict)
<1>1. ASSUME NEW c \in Clients \cup {NoClient}, NEW v \in Videos, Request(c, v)
      PROVE  UNCHANGED row
  BY <1>1 DEF Request, Analyze, Check
<1>2. CASE HandlerStep
  BY <1>2 DEF HandlerStep, InEnqueue, AnalyzeQueued, AnalyzeRead, AnalyzeMark, CheckAct
<1>3. ASSUME NEW v \in Videos, NEW listed \in BOOLEAN, Whitelist(v, listed)
      PROVE  UNCHANGED row
  BY <1>3 DEF Whitelist
<1>4. ASSUME NEW w \in Workers, InWorker(w) \/ JobStep(w)
      PROVE  UNCHANGED row \/ \E verdict \in Verdicts : PersistResult(w, verdict)
  BY <1>4 DEF InWorker, JobStep, JobStarts, PersistFails, FindViewers, CutViewer,
              CuttingEnds, CuttingFails, JobEnds, JobRaises, ReleaseViewers, serviceVars
<1>5. CASE Tick \/ ServiceStops \/ ServiceRestarts
  BY <1>5 DEF Tick, ServiceStops, ServiceRestarts, serviceVars
<1>6. CASE UNCHANGED vars
  BY <1>6 DEF vars, serviceVars
<1>7. QED
  BY <1>1, <1>2, <1>3, <1>4, <1>5, <1>6 DEF ServiceNext

(* A step keeps the table well typed. *)
LEMMA RowStep == RowTypeOK /\ [ServiceNext]_vars => RowTypeOK'
<1> SUFFICES ASSUME RowTypeOK, [ServiceNext]_vars PROVE RowTypeOK'
  OBVIOUS
<1>1. CASE UNCHANGED row
  BY <1>1 DEF RowTypeOK
<1>2. ASSUME NEW u \in Videos, NEW status \in Statuses, Override(u, status)
      PROVE  RowTypeOK'
  BY <1>2 DEF Override, RowTypeOK
<1>3. ASSUME NEW w \in Workers, NEW verdict \in Verdicts, PersistResult(w, verdict)
      PROVE  RowTypeOK'
  <2> DEFINE u == worker[w].video
             kept == IF row[u].override THEN row[u].status ELSE verdict
  <2>1. row' = [row EXCEPT ![u].status = kept]
    BY <1>3 DEF PersistResult
  <2>2. u \in Videos => kept \in Statuses \cup {"none"}
    BY <1>3 DEF Statuses, RowTypeOK
  <2>3. QED BY <2>1, <2>2 DEF RowTypeOK
<1>4. QED
  BY <1>1, <1>2, <1>3, RowWriters

-----------------------------------------------------------------------------
(* Type correctness.  The maps of time stamps, the handler and the jobs are  *)
(* written by different actions; each has a lemma of its own.                *)

MapsTypeOK ==
  /\ recent \in [Clients -> [Videos -> 0..RecentMax]]
  /\ pending \in [Clients -> [Videos -> 0..PendingTimeout]]
  /\ cdn \in [Clients -> [Videos -> 0..CdnTtl]]

HandlerTypeOK ==
  /\ handler \in [pc : {"idle", "enqueue", "read", "mark", "act"},
                  client : Clients \cup {NoClient}, video : Videos \cup {NoVideo},
                  navigation : BOOLEAN, status : Statuses \cup {"none", "whitelisted"}]
  /\ handler.pc = "enqueue" <=> loop.pc # "idle"
  /\ handler.pc = "enqueue" => handler.video = loop.video
  /\ handler.pc # "idle" => handler.video \in Videos
  /\ handler.pc \in {"read", "mark"} => handler.client \in Clients
  /\ loop.queued => loop.pc = "returned"

JobTypeOK ==
  /\ job \in [Workers -> [step : JobSteps, verdict : Verdicts, clients : SUBSET Clients]]
  /\ \A w \in Workers : job[w].step # "none" => worker[w].pc = "run"
  /\ \A w \in Workers : job[w].step # "cutting" => job[w].clients = {}

(* The history of who was cut and what failed, and the whitelist. *)
SetsTypeOK ==
  /\ whitelist \in SUBSET Videos
  /\ cut \in SUBSET (Clients \X Videos)
  /\ failed \in SUBSET Videos

ServiceTypeInv == RowTypeOK /\ MapsTypeOK /\ HandlerTypeOK /\ JobTypeOK /\ SetsTypeOK

(* A map whose entries are within a limit stays so when one of them is set,  *)
(* all of them are emptied, or a second passes.                              *)
LEMMA MapKeepsType ==
  ASSUME NEW limit \in Nat, NEW map \in [Clients -> [Videos -> 0..limit]]
  PROVE  /\ Older(map) \in [Clients -> [Videos -> 0..limit]]
         /\ Empty \in [Clients -> [Videos -> 0..limit]]
         /\ \A c \in Clients, v \in Videos :
              [map EXCEPT ![c][v] = limit] \in [Clients -> [Videos -> 0..limit]]
         /\ \A c \in Clients :
              [map EXCEPT ![c] = Empty[c]] \in [Clients -> [Videos -> 0..limit]]
         /\ \A v \in Videos :
              [c \in Clients |-> [map[c] EXCEPT ![v] = 0]]
                \in [Clients -> [Videos -> 0..limit]]
<1>1. Older(map) \in [Clients -> [Videos -> 0..limit]]
  <2>1. \A c \in Clients, v \in Videos :
          (IF map[c][v] > 0 THEN map[c][v] - 1 ELSE 0) \in 0..limit
    OBVIOUS
  <2>2. QED BY <2>1 DEF Older
<1>2. Empty \in [Clients -> [Videos -> 0..limit]]
  BY DEF Empty
<1>3. QED BY <1>1, <1>2

LEMMA LogKeepsType ==
  ASSUME MapsTypeOK, NEW c \in Clients \cup {NoClient}, NEW v \in Videos,
         Log(c, v) \/ UNCHANGED recent
  PROVE  recent' \in [Clients -> [Videos -> 0..RecentMax]]
<1>1. RecentMax \in Nat /\ recent \in [Clients -> [Videos -> 0..RecentMax]]
  BY ServiceAssumption DEF MapsTypeOK
<1>2. CASE recent' = recent
  BY <1>1, <1>2
<1>3. CASE c \in Clients /\ recent' = [recent EXCEPT ![c][v] = RecentMax]
  BY <1>1, <1>3, MapKeepsType
<1>4. QED BY <1>2, <1>3 DEF Log

(* The handlers, the workers and the clock write the maps. *)
LEMMA MapsStep ==
  ASSUME QueueTypeOK, MapsTypeOK, HandlerTypeOK, JobTypeOK, [ServiceNext]_vars
  PROVE  MapsTypeOK'
<1> {PendingTimeout, CdnTtl, RecentMax} \subseteq Nat
  BY ServiceAssumption
<1> USE DEF MapsTypeOK
<1>1. ASSUME NEW c \in Clients \cup {NoClient}, NEW v \in Videos, Request(c, v)
      PROVE  MapsTypeOK'
  <2>1. UNCHANGED <<pending, cdn>> /\ (Log(c, v) \/ UNCHANGED recent)
    BY <1>1 DEF Request, Analyze, Check
  <2>2. recent' \in [Clients -> [Videos -> 0..RecentMax]]
    BY <2>1, LogKeepsType
  <2>3. QED BY <2>1, <2>2
<1>2. CASE InEnqueue \/ AnalyzeQueued \/ AnalyzeRead
  BY <1>2 DEF InEnqueue, AnalyzeQueued, AnalyzeRead
<1>3. CASE AnalyzeMark
  <2>1. handler.client \in Clients /\ handler.video \in Videos
    BY <1>3 DEF AnalyzeMark, HandlerTypeOK
  <2>2. pending' = [pending EXCEPT ![handler.client][handler.video] = PendingTimeout]
    BY <1>3 DEF AnalyzeMark
  <2>3. UNCHANGED <<recent, cdn>>
    BY <1>3 DEF AnalyzeMark
  <2>4. pending' \in [Clients -> [Videos -> 0..PendingTimeout]]
    BY <2>1, <2>2, MapKeepsType
  <2>5. QED BY <2>3, <2>4
<1>4. CASE CheckAct
  <2> DEFINE c == handler.client
             v == handler.video
  <2>1. c \in Clients \cup {NoClient} /\ v \in Videos
    BY <1>4 DEF CheckAct, HandlerTypeOK
  <2>2. UNCHANGED pending /\ (Log(c, v) \/ UNCHANGED recent)
    BY <1>4 DEF CheckAct
  <2>3. recent' \in [Clients -> [Videos -> 0..RecentMax]]
    BY <2>1, <2>2, LogKeepsType
  <2>4. \/ UNCHANGED cdn
        \/ c \in Clients /\ cdn' = [cdn EXCEPT ![c] = Empty[c]]
        \/ c \in Clients /\ cdn' = [cdn EXCEPT ![c][v] = CdnTtl]
    BY <1>4, <2>1 DEF CheckAct
  <2>5. cdn' \in [Clients -> [Videos -> 0..CdnTtl]]
    <3> CdnTtl \in Nat /\ cdn \in [Clients -> [Videos -> 0..CdnTtl]]
      OBVIOUS
    <3>1. CASE UNCHANGED cdn
      BY <3>1
    <3>2. CASE c \in Clients /\ cdn' = [cdn EXCEPT ![c] = Empty[c]]
      BY <3>2, MapKeepsType
    <3>3. CASE c \in Clients /\ cdn' = [cdn EXCEPT ![c][v] = CdnTtl]
      BY <2>1, <3>3, MapKeepsType
    <3>4. QED BY <2>4, <3>1, <3>2, <3>3
  <2>6. QED BY <2>2, <2>3, <2>5
<1>5. ASSUME NEW w \in Workers, CutViewer(w) PROVE MapsTypeOK'
  <2>1. worker[w].video \in Videos
    BY <1>5 DEF CutViewer, JobTypeOK, QueueTypeOK, JobStates
  <2>2. PICK c \in job[w].clients :
          cdn' = IF ~Parallel /\ job[w].verdict = "block"
                   THEN [cdn EXCEPT ![c][worker[w].video] = CdnTtl] ELSE cdn
    BY <1>5 DEF CutViewer
  <2>3. c \in Clients /\ UNCHANGED <<recent, pending>>
    BY <1>5 DEF CutViewer, JobTypeOK
  <2>4. cdn' \in [Clients -> [Videos -> 0..CdnTtl]]
    BY <2>1, <2>2, <2>3, MapKeepsType
  <2>5. QED BY <2>3, <2>4
<1>6. ASSUME NEW w \in Workers, ReleaseViewers(w) PROVE MapsTypeOK'
  <2>1. worker[w].video \in Videos
    BY <1>6 DEF ReleaseViewers, WorkerRelease, QueueTypeOK
  <2>2. pending' = [c \in Clients |-> [pending[c] EXCEPT ![worker[w].video] = 0]]
    BY <1>6 DEF ReleaseViewers
  <2>3. pending' \in [Clients -> [Videos -> 0..PendingTimeout]]
    BY <2>1, <2>2, MapKeepsType
  <2>4. QED BY <1>6, <2>3 DEF ReleaseViewers
<1>7. CASE Tick
  BY <1>7, MapKeepsType DEF Tick
<1>8. CASE ServiceRestarts
  BY <1>8, MapKeepsType DEF ServiceRestarts
<1>9. ASSUME NEW w \in Workers, InWorker(w) \/ JobStep(w), ~CutViewer(w), ~ReleaseViewers(w)
      PROVE  MapsTypeOK'
  BY <1>9 DEF InWorker, JobStep, JobStarts, PersistResult, PersistFails, FindViewers,
              CuttingEnds, CuttingFails, JobEnds, JobRaises, serviceVars
<1>10. ASSUME NEW v \in Videos,
              (\E status \in Statuses : Override(v, status))
                \/ (\E listed \in BOOLEAN : Whitelist(v, listed))
       PROVE  MapsTypeOK'
  BY <1>10 DEF Override, Whitelist
<1>11. CASE ServiceStops \/ UNCHANGED vars
  BY <1>11 DEF ServiceStops, vars, serviceVars
<1>12. QED
  BY <1>1, <1>2, <1>3, <1>4, <1>5, <1>6, <1>7, <1>8, <1>9, <1>10, <1>11
     DEF ServiceNext, HandlerStep

(* Each request is one handler, which goes through its places in order. *)
LEMMA HandlerTypeStep ==
  ASSUME QueueTypeOK, RowTypeOK, HandlerTypeOK, [ServiceNext]_vars
  PROVE  HandlerTypeOK'
<1> USE DEF HandlerTypeOK
<1>1. ASSUME NEW c \in Clients \cup {NoClient}, NEW v \in Videos, NEW p \in Priorities,
             Analyze(c, v, p)
      PROVE  HandlerTypeOK'
  BY <1>1 DEF Analyze, EnqueueCall, NoRequest
<1>2. ASSUME NEW c \in Clients \cup {NoClient}, NEW v \in Videos,
             NEW navigation \in BOOLEAN, Check(c, v, navigation)
      PROVE  HandlerTypeOK'
  <2>1. row[v].status \in Statuses \cup {"none"}
    BY DEF RowTypeOK
  <2>2. loop' = loop /\ handler.pc = "idle"
    BY <1>2 DEF Check, queueVars
  <2>3. QED BY <1>2, <2>1, <2>2 DEF Check
<1>3. CASE InEnqueue
  BY <1>3 DEF InEnqueue, EnqueueCheck, EnqueuePut, EnqueueAdd, QueueTypeOK
<1>4. CASE AnalyzeQueued
  BY <1>4 DEF AnalyzeQueued, EnqueueReturn, NoRequest, NoCall, Statuses
<1>5. CASE AnalyzeRead \/ AnalyzeMark \/ CheckAct
  <2>1. UNCHANGED loop /\ handler.pc \in {"read", "mark", "act"}
    BY <1>5 DEF AnalyzeRead, AnalyzeMark, CheckAct, queueVars
  <2>2. CASE handler' = NoRequest
    BY <2>1, <2>2 DEF NoRequest
  <2>3. CASE handler.pc = "read" /\ handler' = [handler EXCEPT !.pc = "mark"]
    BY <2>1, <2>3
  <2>4. QED BY <1>5, <2>2, <2>3 DEF AnalyzeRead, AnalyzeMark, CheckAct
<1>6. CASE ServiceRestarts
  BY <1>6 DEF ServiceRestarts, Restart, NoRequest, NoCall
<1>7. CASE UNCHANGED <<handler, loop>>
  BY <1>7
<1>8. ASSUME NEW w \in Workers, InWorker(w) \/ JobStep(w)
      PROVE  UNCHANGED <<handler, loop>>
  BY <1>8 DEF InWorker, JobStep, JobStarts, PersistResult, PersistFails, FindViewers,
              CutViewer, CuttingEnds, CuttingFails, JobEnds, JobRaises, ReleaseViewers,
              serviceVars, queueVars, WorkerTop, WorkerGet, WorkerEmpty, WorkerDiscard,
              WorkerBegin, WorkerEnd, WorkerRelease
<1>9. ASSUME NEW v \in Videos,
             (\E status \in Statuses : Override(v, status))
               \/ (\E listed \in BOOLEAN : Whitelist(v, listed))
      PROVE  UNCHANGED <<handler, loop>>
  BY <1>9 DEF Override, Whitelist, queueVars
<1>10. CASE Tick \/ ServiceStops \/ UNCHANGED vars
  BY <1>10 DEF Tick, ServiceStops, Stop, vars, serviceVars, queueVars
<1>11. QED
  BY <1>1, <1>2, <1>3, <1>4, <1>5, <1>6, <1>7, <1>8, <1>9, <1>10
     DEF ServiceNext, HandlerStep, Request

(* An analysis is only ever that of a running worker. *)
LEMMA JobTypeStep ==
  ASSUME QueueTypeOK, MapsTypeOK, JobTypeOK, [ServiceNext]_vars
  PROVE  JobTypeOK'
<1> USE DEF JobTypeOK
<1>0. worker \in [Workers -> [pc : WorkerStates, video : Videos \cup {NoVideo}]]
  BY DEF QueueTypeOK
<1>1. ASSUME NEW w \in Workers, JobStarts(w) PROVE JobTypeOK'
  BY <1>0, <1>1 DEF JobStarts, WorkerBegin, NoJob, JobSteps, Verdicts
<1>2. ASSUME NEW w \in Workers, NEW verdict \in Verdicts, PersistResult(w, verdict)
      PROVE  JobTypeOK'
  BY <1>0, <1>2 DEF PersistResult, JobSteps, queueVars
<1>3. ASSUME NEW w \in Workers, FindViewers(w) PROVE JobTypeOK'
  <2>1. RecentClients(worker[w].video) \subseteq Clients
    BY DEF RecentClients
  <2>2. QED BY <1>0, <1>3, <2>1 DEF FindViewers, JobSteps, queueVars
<1>4. ASSUME NEW w \in Workers, CutViewer(w) PROVE JobTypeOK'
  BY <1>0, <1>4 DEF CutViewer, JobSteps, queueVars
<1>5. ASSUME NEW w \in Workers, PersistFails(w) \/ CuttingEnds(w) \/ CuttingFails(w)
      PROVE  JobTypeOK'
  <2>1. CASE PersistFails(w) \/ CuttingEnds(w)
    <3> DEFINE ended == [job[w] EXCEPT !.step = "done"]
    <3>1. /\ job' = [job EXCEPT ![w] = ended] /\ worker' = worker
          /\ job[w].step # "none" /\ job[w].clients = {}
      BY <2>1 DEF PersistFails, CuttingEnds, queueVars
    <3>2. /\ ended \in [step : JobSteps, verdict : Verdicts, clients : SUBSET Clients]
          /\ ended.clients = job[w].clients
      BY DEF JobSteps
    <3> HIDE DEF ended
    <3>3. QED BY <3>1, <3>2
  <2>2. CASE CuttingFails(w)
    <3> DEFINE ended == [job[w] EXCEPT !.step = "done", !.clients = {}]
    <3>1. job' = [job EXCEPT ![w] = ended] /\ worker' = worker /\ job[w].step # "none"
      BY <2>2 DEF CuttingFails, queueVars
    <3>2. /\ ended \in [step : JobSteps, verdict : Verdicts, clients : SUBSET Clients]
          /\ ended.clients = {}
      BY DEF JobSteps
    <3> HIDE DEF ended
    <3>3. QED BY <3>1, <3>2
  <2>3. QED BY <1>5, <2>1, <2>2
<1>6. ASSUME NEW w \in Workers, JobEnds(w) \/ JobRaises(w) PROVE JobTypeOK'
  <2>1. job' = [job EXCEPT ![w] = NoJob] /\ worker' = [worker EXCEPT ![w].pc = "discard"]
    BY <1>6 DEF JobEnds, JobRaises, WorkerEnd
  <2>2. QED BY <1>0, <2>1 DEF NoJob, JobSteps, Verdicts
<1>7. CASE ServiceRestarts
  BY <1>7 DEF ServiceRestarts, NoJob, JobSteps, Verdicts
<1>8. CASE UNCHANGED <<job, worker>>
  BY <1>8
<1>9. ASSUME NEW w \in Workers, InWorker(w) \/ ReleaseViewers(w) PROVE JobTypeOK'
  BY <1>0, <1>9 DEF InWorker, ReleaseViewers, WorkerTop, WorkerGet, WorkerEmpty, WorkerDiscard,
              WorkerRelease, serviceVars
<1>10. ASSUME NEW c \in Clients \cup {NoClient}, NEW v \in Videos, Request(c, v)
       PROVE  UNCHANGED <<job, worker>>
  BY <1>10 DEF Request, Analyze, Check, EnqueueCall, queueVars
<1>11. CASE HandlerStep
  BY <1>11 DEF HandlerStep, InEnqueue, AnalyzeQueued, AnalyzeRead, AnalyzeMark, CheckAct,
               EnqueueCheck, EnqueuePut, EnqueueAdd, EnqueueReturn, queueVars
<1>12. ASSUME NEW v \in Videos,
              (\E status \in Statuses : Override(v, status))
                \/ (\E listed \in BOOLEAN : Whitelist(v, listed))
       PROVE  UNCHANGED <<job, worker>>
  BY <1>12 DEF Override, Whitelist, queueVars
<1>13. CASE Tick \/ ServiceStops \/ UNCHANGED vars
  BY <1>13 DEF Tick, ServiceStops, Stop, vars, serviceVars, queueVars
<1>14. QED
  BY <1>1, <1>2, <1>3, <1>4, <1>5, <1>6, <1>7, <1>8, <1>9, <1>10, <1>11, <1>12, <1>13
     DEF ServiceNext, JobStep

LEMMA SetsTypeStep ==
  ASSUME QueueTypeOK, HandlerTypeOK, JobTypeOK, SetsTypeOK, [ServiceNext]_vars
  PROVE  SetsTypeOK'
<1> USE DEF SetsTypeOK
<1>1. ASSUME NEW w \in Workers, CutViewer(w) PROVE SetsTypeOK'
  <2>1. worker[w].video \in Videos /\ job[w].clients \subseteq Clients
    BY <1>1 DEF CutViewer, JobTypeOK, QueueTypeOK, JobStates
  <2>2. PICK c \in job[w].clients : cut' = cut \cup {<<c, worker[w].video>>}
    BY <1>1 DEF CutViewer
  <2>3. UNCHANGED <<whitelist, failed>>
    BY <1>1 DEF CutViewer
  <2>4. QED BY <2>1, <2>2, <2>3
<1>2. ASSUME NEW w \in Workers, PersistFails(w) \/ CuttingFails(w) \/ JobRaises(w)
      PROVE  SetsTypeOK'
  <2>1. worker[w].video \in Videos
    BY <1>2 DEF PersistFails, CuttingFails, JobRaises, JobTypeOK, QueueTypeOK, JobStates
  <2>2. UNCHANGED <<whitelist, cut>> /\ failed' = failed \cup {worker[w].video}
    BY <1>2 DEF PersistFails, CuttingFails, JobRaises, Fails
  <2>3. QED BY <2>1, <2>2
<1>3. ASSUME NEW v \in Videos, NEW listed \in BOOLEAN, Whitelist(v, listed)
      PROVE  SetsTypeOK'
  BY <1>3 DEF Whitelist
<1>4. CASE HandlerStep
  BY <1>4 DEF HandlerStep, InEnqueue, AnalyzeQueued, AnalyzeRead, AnalyzeMark, CheckAct
<1>5. CASE ServiceRestarts
  BY <1>5 DEF ServiceRestarts
<1>6. ASSUME UNCHANGED <<whitelist, cut, failed>> PROVE SetsTypeOK'
  BY <1>6
<1>7. ASSUME NEW w \in Workers, InWorker(w) \/ JobStep(w),
             ~CutViewer(w), ~PersistFails(w), ~CuttingFails(w), ~JobRaises(w)
      PROVE  UNCHANGED <<whitelist, cut, failed>>
  BY <1>7 DEF InWorker, JobStep, JobStarts, PersistResult, FindViewers, CuttingEnds,
              JobEnds, ReleaseViewers, serviceVars
<1>8. ASSUME NEW c \in Clients \cup {NoClient}, NEW v \in Videos, Request(c, v)
      PROVE  UNCHANGED <<whitelist, cut, failed>>
  BY <1>8 DEF Request, Analyze, Check
<1>9. ASSUME NEW v \in Videos, NEW status \in Statuses, Override(v, status)
      PROVE  UNCHANGED <<whitelist, cut, failed>>
  BY <1>9 DEF Override
<1>10. CASE Tick \/ ServiceStops \/ UNCHANGED vars
  BY <1>10 DEF Tick, ServiceStops, vars, serviceVars
<1>11. QED
  BY <1>1, <1>2, <1>3, <1>4, <1>5, <1>6, <1>7, <1>8, <1>9, <1>10 DEF ServiceNext

LEMMA ServiceTypeInit == ServiceInit => ServiceTypeInv
<1> SUFFICES ASSUME ServiceInit PROVE ServiceTypeInv
  OBVIOUS
<1>1. RowTypeOK
  BY DEF ServiceInit, RowTypeOK, NoRow
<1>2. MapsTypeOK
  <2>1. {PendingTimeout, CdnTtl, RecentMax} \subseteq Nat
    BY ServiceAssumption
  <2>2. QED BY <2>1 DEF ServiceInit, MapsTypeOK, Empty
<1>3. HandlerTypeOK
  BY DEF ServiceInit, QueueInit, HandlerTypeOK, NoRequest, NoCall
<1>4. JobTypeOK
  BY DEF ServiceInit, JobTypeOK, NoJob, JobSteps, Verdicts
<1>5. QED BY <1>1, <1>2, <1>3, <1>4 DEF ServiceInit, ServiceTypeInv, SetsTypeOK

LEMMA ServiceTypeStep == QueueTypeOK /\ ServiceTypeInv /\ [ServiceNext]_vars => ServiceTypeInv'
  BY RowStep, MapsStep, HandlerTypeStep, JobTypeStep, SetsTypeStep DEF ServiceTypeInv

(* The state of the queue is that of an AnalysisQueue throughout. *)
LEMMA ServiceQueueInv == ServiceSpec => []QueueInv
  BY ServiceKeepsQueue, QueueInvariant, PTL

LEMMA ServiceTyped == ServiceSpec => []ServiceTypeInv
<1>1. QueueInv => QueueTypeOK
  BY DEF QueueInv
<1>2. QED
  BY <1>1, ServiceTypeInit, ServiceTypeStep, ServiceQueueInv, PTL DEF ServiceSpec

(* All tables and maps of the service keep their ranges, a handler inside    *)
(* enqueue() is the event loop's, and an analysis is a running worker's.     *)
THEOREM ServiceTypeCorrect == ServiceSpec => []ServiceTypeOK
<1>1. ServiceTypeInv => ServiceTypeOK
  BY DEF ServiceTypeInv, RowTypeOK, MapsTypeOK, HandlerTypeOK, JobTypeOK, SetsTypeOK,
         ServiceTypeOK
<1>2. QED BY <1>1, ServiceTyped, PTL

(* What the queue promises to the job board the service promises too. *)
THEOREM ServiceImplementsBoard == ServiceSpec => ImplementsBoard
  BY ServiceKeepsQueue, QueueImplementsBoard, PTL

-----------------------------------------------------------------------------
(* The viewers of a flagged video.  A client waits for a video, or will       *)
(* before its request ends.                                                  *)
WillWait(c, v) ==
  /\ handler.client = c /\ handler.video = v
  /\ \/ handler.pc = "mark"
     \/ handler.pc = "enqueue" /\ (loop.pc = "add" \/ (loop.pc = "returned" /\ loop.queued))

Waits(c, v) == pending[c][v] > 0 \/ WillWait(c, v)

(* The wait for a video ends before the request for it is forgotten: the      *)
(* query of a worker that flags the video finds every client that waits.      *)
RequestsOutliveWaits ==
  /\ \A c \in Clients, v \in Videos : pending[c][v] > 0 => recent[c][v] > pending[c][v]
  /\ handler.pc \in {"enqueue", "read", "mark"} /\ handler.client \in Clients
       => recent[handler.client][handler.video] = RecentMax

(* A job that has not yet looked for its viewers, or is about to cut this one. *)
WillCut(w, c, v) ==
  /\ worker[w].video = v
  /\ \/ worker[w].pc = "begin"
     \/ job[w].step \in {"analysis", "flagged"}
     \/ job[w].step = "cutting" /\ c \in job[w].clients

Flagged(v) == row[v].status \in Blocking /\ ~row[v].override

SeenTo(c, v) ==
  <<c, v>> \in cut \/ v \in failed \/ InQueue(v) \/ \E w \in Workers : WillCut(w, c, v)

(* Whoever waits for a flagged video has been cut off it, or a job of the     *)
(* video will see to it.                                                     *)
ViewersAreSeenTo ==
  \A c \in Clients, v \in Videos : Waits(c, v) /\ Flagged(v) => SeenTo(c, v)

(* A wait is shorter than the memory of its request, and both grow shorter    *)
(* together; no time passes between the log and the mark of one request.      *)
LEMMA RequestsStep ==
  ASSUME QueueTypeOK, ServiceTypeInv, RequestsOutliveWaits, [ServiceNext]_vars
  PROVE  RequestsOutliveWaits'
<1>0. /\ MapsTypeOK /\ HandlerTypeOK /\ PendingTimeout < RecentMax
      /\ {PendingTimeout, RecentMax} \subseteq Nat
  BY ServiceAssumption DEF ServiceTypeInv
<1>1. ASSUME NEW c \in Clients \cup {NoClient}, NEW v \in Videos, NEW p \in Priorities,
             Analyze(c, v, p)
      PROVE  RequestsOutliveWaits'
  <2>1. /\ pending' = pending /\ handler'.client = c /\ handler'.video = v
    BY <1>1 DEF Analyze, NoRequest
  <2>2. CASE c = NoClient
    BY <1>1, <2>1, <2>2, ServiceAssumption DEF Analyze, Log, RequestsOutliveWaits
  <2>3. CASE c \in Clients
    <3>1. recent' = [recent EXCEPT ![c][v] = RecentMax]
      BY <1>1, <2>3, ServiceAssumption DEF Analyze, Log
    <3>2. /\ recent'[c][v] = RecentMax
          /\ \A d \in Clients, u \in Videos :
               recent'[d][u] = recent[d][u] \/ recent'[d][u] = RecentMax
      BY <1>0, <2>3, <3>1 DEF MapsTypeOK
    <3>3. \A d \in Clients, u \in Videos : pending[d][u] < RecentMax
      BY <1>0 DEF MapsTypeOK
    <3>4. QED BY <2>1, <3>2, <3>3 DEF RequestsOutliveWaits
  <2>4. QED BY <2>2, <2>3
<1>2. CASE AnalyzeMark
  <2> DEFINE d == handler.client
             u == handler.video
  <2>1. d \in Clients /\ u \in Videos /\ recent[d][u] = RecentMax
    BY <1>0, <1>2 DEF AnalyzeMark, HandlerTypeOK, RequestsOutliveWaits
  <2>2. /\ pending' = [pending EXCEPT ![d][u] = PendingTimeout]
        /\ recent' = recent /\ handler'.pc = "idle"
    BY <1>2 DEF AnalyzeMark, NoRequest
  <2>3. /\ pending'[d][u] = PendingTimeout
        /\ \A c \in Clients, v \in Videos :
             pending'[c][v] = pending[c][v] \/ (c = d /\ v = u)
    BY <1>0, <2>1, <2>2 DEF MapsTypeOK
  <2>4. QED BY <1>0, <2>1, <2>2, <2>3 DEF RequestsOutliveWaits
<1>3. CASE CheckAct
  <2> DEFINE d == handler.client
             u == handler.video
  <2>1. pending' = pending /\ handler'.pc = "idle" /\ (Log(d, u) \/ UNCHANGED recent)
    BY <1>3 DEF CheckAct, NoRequest
  <2>2. \A c \in Clients, v \in Videos :
          recent'[c][v] = recent[c][v] \/ recent'[c][v] = RecentMax
    <3>1. recent' = recent \/ recent' = [recent EXCEPT ![d][u] = RecentMax]
      BY <2>1 DEF Log
    <3>2. recent \in [Clients -> [Videos -> 0..RecentMax]]
      BY <1>0 DEF MapsTypeOK
    <3>3. CASE recent' = [recent EXCEPT ![d][u] = RecentMax]
      <4> SUFFICES ASSUME NEW c \in Clients, NEW v \in Videos
                   PROVE  recent'[c][v] = recent[c][v] \/ recent'[c][v] = RecentMax
        OBVIOUS
      <4>1. CASE c = d
        BY <3>2, <3>3, <4>1
      <4>2. CASE c # d
        BY <3>2, <3>3, <4>2
      <4>3. QED BY <4>1, <4>2
    <3>4. QED BY <3>1, <3>3
  <2>3. \A c \in Clients, v \in Videos : pending[c][v] < RecentMax
    BY <1>0 DEF MapsTypeOK
  <2>4. QED BY <2>1, <2>2, <2>3 DEF RequestsOutliveWaits
<1>4. CASE AnalyzeQueued
  <2>1. /\ UNCHANGED <<pending, recent>> /\ handler.pc = "enqueue"
        /\ \/ handler' = NoRequest
           \/ handler'.client = handler.client /\ handler'.video = handler.video
    BY <1>0, <1>4 DEF AnalyzeQueued, EnqueueReturn, HandlerTypeOK
  <2>2. QED BY <2>1 DEF RequestsOutliveWaits, NoRequest
<1>5. CASE AnalyzeRead
  <2>1. /\ UNCHANGED <<pending, recent>> /\ handler.pc = "read"
        /\ \/ handler' = NoRequest
           \/ handler'.client = handler.client /\ handler'.video = handler.video
    BY <1>0, <1>5 DEF AnalyzeRead, HandlerTypeOK
  <2>2. QED BY <2>1 DEF RequestsOutliveWaits, NoRequest
<1>6. CASE Tick
  <2>1. recent' = Older(recent) /\ pending' = Older(pending) /\ handler'.pc = "idle"
    BY <1>6 DEF Tick
  <2>2. \A c \in Clients, v \in Videos :
          /\ recent'[c][v] = IF recent[c][v] > 0 THEN recent[c][v] - 1 ELSE 0
          /\ pending'[c][v] = IF pending[c][v] > 0 THEN pending[c][v] - 1 ELSE 0
          /\ recent[c][v] \in Nat /\ pending[c][v] \in Nat
    BY <1>0, <2>1 DEF Older, MapsTypeOK
  <2>3. QED BY <2>1, <2>2 DEF RequestsOutliveWaits
<1>7. ASSUME NEW w \in Workers, ReleaseViewers(w) PROVE RequestsOutliveWaits'
  <2>1. \A c \in Clients, v \in Videos : pending'[c][v] = pending[c][v] \/ pending'[c][v] = 0
    BY <1>0, <1>7 DEF ReleaseViewers, MapsTypeOK
  <2>2. QED BY <1>7, <2>1 DEF ReleaseViewers, RequestsOutliveWaits
<1>8. CASE ServiceRestarts
  BY <1>8 DEF ServiceRestarts, RequestsOutliveWaits, NoRequest, Empty
<1>9. ASSUME NEW c \in Clients \cup {NoClient}, NEW v \in Videos,
             NEW navigation \in BOOLEAN, Check(c, v, navigation)
      PROVE  RequestsOutliveWaits'
  BY <1>9 DEF Check, RequestsOutliveWaits
<1>10. CASE UNCHANGED <<pending, recent, handler>>
  BY <1>10 DEF RequestsOutliveWaits
<1>11. ASSUME NEW w \in Workers, InWorker(w) \/ JobStep(w), ~ReleaseViewers(w)
       PROVE  UNCHANGED <<pending, recent, handler>>
  BY <1>11 DEF InWorker, JobStep, JobStarts, PersistResult, PersistFails, FindViewers,
               CutViewer, CuttingEnds, CuttingFails, JobEnds, JobRaises, serviceVars
<1>12. ASSUME NEW v \in Videos,
              (\E status \in Statuses : Override(v, status))
                \/ (\E listed \in BOOLEAN : Whitelist(v, listed))
       PROVE  UNCHANGED <<pending, recent, handler>>
  BY <1>12 DEF Override, Whitelist
<1>13. ASSUME InEnqueue \/ ServiceStops \/ UNCHANGED vars
       PROVE  UNCHANGED <<pending, recent, handler>>
  BY <1>13 DEF InEnqueue, ServiceStops, vars, serviceVars
<1>14. QED
  BY <1>1, <1>2, <1>3, <1>4, <1>5, <1>6, <1>7, <1>8, <1>9, <1>10, <1>11, <1>12, <1>13
     DEF ServiceNext, HandlerStep, Request

(* A worker moves itself and its own job only. *)
LEMMA OthersStay ==
  ASSUME QueueTypeOK, JobTypeOK, NEW x \in Workers, JobStep(x) \/ InWorker(x),
         NEW w \in Workers, w # x
  PROVE  worker'[w] = worker[w] /\ job'[w] = job[w]
  BY DEF JobStep, InWorker, JobStarts, PersistResult, PersistFails, FindViewers, CutViewer,
     CuttingEnds, CuttingFails, JobEnds, JobRaises, ReleaseViewers, WorkerTop, WorkerGet,
     WorkerEmpty, WorkerDiscard, WorkerBegin, WorkerEnd, WorkerRelease, serviceVars,
     queueVars, JobTypeOK, QueueTypeOK

(* As long as the queue, the jobs and the history stay, so does who is seen to. *)
LEMMA SeenToStays ==
  ASSUME UNCHANGED <<cut, failed, queue, worker, job>>, NEW c, NEW v, SeenTo(c, v)
  PROVE  SeenTo(c, v)'
  BY DEF SeenTo, InQueue, WillCut

(* A handler makes a client wait only for a video that it has just queued, or *)
(* that it has just read to have no verdict.                                 *)
LEMMA HandlerStepSeesTo ==
  ASSUME QueueTypeOK, ServiceTypeInv, ViewersAreSeenTo, HandlerStep,
         NEW c \in Clients, NEW v \in Videos, Waits(c, v)', Flagged(v)'
  PROVE  SeenTo(c, v)'
<1>0. MapsTypeOK /\ HandlerTypeOK
  BY DEF ServiceTypeInv
<1>1. Flagged(v)
  BY DEF HandlerStep, InEnqueue, AnalyzeQueued, AnalyzeRead, AnalyzeMark, CheckAct, Flagged
<1>2. Waits(c, v) => SeenTo(c, v)
  BY <1>1 DEF ViewersAreSeenTo
<1>3. CASE EnqueuePut /\ ~Full /\ InEnqueue
  <2>1. loop.pc = "put" /\ loop'.pc = "add" /\ handler.pc = "enqueue" /\ handler.video = loop.video
    BY <1>0, <1>3 DEF EnqueuePut, HandlerTypeOK, QueueTypeOK
  <2>2. CASE v = loop.video
    BY <1>3, <2>2, PutAddsVideo DEF SeenTo
  <2>3. CASE v # loop.video
    <3>1. UNCHANGED <<pending, handler, worker, job>>
      BY <1>3 DEF InEnqueue, EnqueuePut
    <3>2. Waits(c, v)
      BY <2>1, <2>3, <3>1 DEF Waits, WillWait
    <3>3. InQueue(v) => InQueue(v)'
      BY <1>3, PutAddsVideo
    <3>4. <<c, v>> \in cut => <<c, v>> \in cut'
      BY <1>3, <2>1, <2>3 DEF InEnqueue
    <3>5. v \in failed => v \in failed'
      BY <1>3, <2>1, <2>3 DEF InEnqueue
    <3>6. \A w \in Workers : WillCut(w, c, v) => WillCut(w, c, v)'
      BY <3>1 DEF WillCut
    <3>7. QED BY <1>2, <3>2, <3>3, <3>4, <3>5, <3>6 DEF SeenTo
  <2>4. QED BY <2>2, <2>3
<1>4. CASE InEnqueue /\ ~(EnqueuePut /\ ~Full)
  <2>1. UNCHANGED <<pending, handler, cut, failed, queue, worker, job>>
    BY <1>4 DEF InEnqueue, EnqueueCheck, EnqueuePut, EnqueueAdd, Queues
  <2>2. loop'.pc # "add" /\ (loop'.queued => loop.pc = "add")
    BY <1>0, <1>4 DEF InEnqueue, EnqueueCheck, EnqueuePut, EnqueueAdd, QueueTypeOK,
                      HandlerTypeOK
  <2>3. Waits(c, v)
    BY <2>1, <2>2 DEF Waits, WillWait
  <2>4. QED BY <1>2, <2>1, <2>3, SeenToStays
<1>5. CASE AnalyzeQueued
  <2>1. UNCHANGED <<pending, cut, failed, queue, worker, job>>
    BY <1>5 DEF AnalyzeQueued, EnqueueReturn
  <2>2. /\ handler.pc = "enqueue" /\ loop.pc = "returned" /\ loop'.pc = "idle"
        /\ \/ handler' = NoRequest
           \/ /\ handler'.client = handler.client /\ handler'.video = handler.video
              /\ handler'.pc = IF loop.queued THEN "mark" ELSE "read"
    BY <1>0, <1>5 DEF AnalyzeQueued, EnqueueReturn, HandlerTypeOK, NoCall
  <2>3. Waits(c, v)
    BY <2>1, <2>2 DEF Waits, WillWait, NoRequest
  <2>4. QED BY <1>2, <2>1, <2>3, SeenToStays
<1>6. CASE AnalyzeRead
  <2>1. UNCHANGED <<pending, cut, failed, queue, worker, job, row, loop>>
    BY <1>6 DEF AnalyzeRead, queueVars
  <2>2. /\ handler.pc = "read"
        /\ \/ handler' = NoRequest
           \/ NoVerdict(row[handler.video].status) /\ handler'.video = handler.video
    BY <1>0, <1>6 DEF AnalyzeRead, HandlerTypeOK
  <2>3. ~NoVerdict(row[v].status)
    BY <1>1 DEF Flagged, NoVerdict, Blocking
  <2>4. Waits(c, v)
    BY <2>1, <2>2, <2>3 DEF Waits, WillWait, NoRequest
  <2>5. QED BY <1>2, <2>1, <2>4, SeenToStays
<1>7. CASE AnalyzeMark
  <2>1. /\ UNCHANGED <<cut, failed, queue, worker, job, loop>>
        /\ handler.pc = "mark" /\ handler'.pc = "idle"
    BY <1>7 DEF AnalyzeMark, queueVars, NoRequest
  <2>2. pending'[c][v] = pending[c][v] \/ (c = handler.client /\ v = handler.video)
    BY <1>0, <1>7 DEF AnalyzeMark, MapsTypeOK
  <2>3. Waits(c, v)
    BY <2>1, <2>2 DEF Waits, WillWait
  <2>4. QED BY <1>2, <2>1, <2>3, SeenToStays
<1>8. CASE CheckAct
  <2>1. UNCHANGED <<pending, cut, failed, queue, worker, job, loop>> /\ handler'.pc = "idle"
    BY <1>8 DEF CheckAct, queueVars, NoRequest
  <2>2. Waits(c, v)
    BY <2>1 DEF Waits, WillWait
  <2>3. QED BY <1>2, <2>1, <2>2, SeenToStays
<1>9. QED BY <1>3, <1>4, <1>5, <1>6, <1>7, <1>8 DEF HandlerStep

(* A worker gives up a viewer of a flagged video only when it has cut it, or *)
(* when a part of its job has failed.                                        *)
LEMMA WorkerSeesTo ==
  ASSUME QueueInv, ServiceTypeInv, RequestsOutliveWaits, ViewersAreSeenTo,
         NEW w \in Workers, JobStep(w) \/ InWorker(w),
         NEW c \in Clients, NEW v \in Videos, Waits(c, v)', Flagged(v)'
  PROVE  SeenTo(c, v)'
<1>0. /\ QueueTypeOK /\ QueuedOnce /\ MapsTypeOK /\ HandlerTypeOK /\ JobTypeOK /\ RowTypeOK
      /\ worker \in [Workers -> [pc : WorkerStates, video : Videos \cup {NoVideo}]]
  BY DEF ServiceTypeInv, QueueInv, OneJobPerVideo, QueueTypeOK
<1>1. Waits(c, v)
  <2>1. UNCHANGED <<handler, loop>>
    BY DEF InWorker, JobStep, JobStarts, PersistResult, PersistFails, FindViewers,
       CutViewer, CuttingEnds, CuttingFails, JobEnds, JobRaises, ReleaseViewers, serviceVars,
       queueVars, WorkerTop, WorkerGet, WorkerEmpty, WorkerDiscard, WorkerBegin, WorkerEnd,
       WorkerRelease
  <2>2. CASE ReleaseViewers(w)
    <3>1. pending'[c][v] = pending[c][v] \/ pending'[c][v] = 0
      BY <1>0, <2>2 DEF ReleaseViewers, MapsTypeOK
    <3>2. QED BY <2>1, <3>1 DEF Waits, WillWait
  <2>3. CASE ~ReleaseViewers(w)
    <3>1. UNCHANGED pending
      BY <2>3 DEF InWorker, JobStep, JobStarts, PersistResult, PersistFails, FindViewers,
         CutViewer, CuttingEnds, CuttingFails, JobEnds, JobRaises, serviceVars
    <3>2. QED BY <2>1, <3>1 DEF Waits, WillWait
  <2>4. QED BY <2>2, <2>3
<1>2. recent[c][v] > 0
  <2>1. RecentMax > 0
    BY ServiceAssumption
  <2>2. QED BY <1>0, <1>1, <2>1 DEF Waits, WillWait, RequestsOutliveWaits, MapsTypeOK
<1>3. ASSUME NEW verdict \in Verdicts, PersistResult(w, verdict)
      PROVE  SeenTo(c, v)'
  <2> DEFINE u == worker[w].video
  <2>1. /\ row' = [row EXCEPT ![u].status = IF row[u].override THEN row[u].status ELSE verdict]
        /\ UNCHANGED <<cut, failed, queue, worker>> /\ job[w].step = "analysis" /\ u \in Videos
    BY <1>0, <1>3 DEF PersistResult, queueVars, JobTypeOK, JobStates, QueueTypeOK
  <2>2. CASE u = v
    <3>1. ~row'[v].override /\ row'[v].status \in Blocking
      BY DEF Flagged
    <3>2. row'[v].status = verdict
      BY <1>0, <2>1, <2>2, <3>1 DEF RowTypeOK
    <3>3. job'[w].step = "flagged"
      BY <1>0, <1>3, <3>1, <3>2 DEF PersistResult, JobTypeOK
    <3>4. WillCut(w, c, v)'
      BY <2>1, <2>2, <3>3 DEF WillCut
    <3>5. QED BY <3>4 DEF SeenTo
  <2>3. CASE u # v
    <3>1. Flagged(v)
      BY <1>0, <2>1, <2>3 DEF Flagged, RowTypeOK
    <3>2. SeenTo(c, v)
      BY <1>1, <3>1 DEF ViewersAreSeenTo
    <3>3. \A x \in Workers : WillCut(x, c, v) => WillCut(x, c, v)'
      BY <1>0, <2>1, <2>3, OthersStay DEF WillCut
    <3>4. QED BY <2>1, <3>2, <3>3 DEF SeenTo, InQueue
  <2>4. QED BY <2>2, <2>3
<1>4. ASSUME \A verdict \in Verdicts : ~PersistResult(w, verdict)
      PROVE  SeenTo(c, v)'
  <2>1. row' = row /\ cut \subseteq cut' /\ failed \subseteq failed'
    BY <1>4 DEF InWorker, JobStep, JobStarts, PersistFails, FindViewers, CutViewer,
       CuttingEnds, CuttingFails, JobEnds, JobRaises, ReleaseViewers, Fails, serviceVars
  <2>2. SeenTo(c, v)
    BY <1>1, <2>1 DEF Flagged, ViewersAreSeenTo
  <2>3. CASE <<c, v>> \in cut \/ v \in failed
    BY <2>1, <2>3 DEF SeenTo
  <2>4. CASE InQueue(v)
    <3>1. CASE WorkerGet(w)
      <4>1. PICK h \in Videos :
              /\ worker' = [worker EXCEPT ![w] = [pc |-> "begin", video |-> h]]
              /\ \A u \in Videos : InQueue(u)' <=> InQueue(u) /\ u # h
        BY <1>0, <3>1, GetRemovesVideo
      <4>2. CASE v = h
        <5>1. worker'[w].pc = "begin" /\ worker'[w].video = v
          BY <1>0, <4>1, <4>2
        <5>2. QED BY <5>1 DEF SeenTo, WillCut
      <4>3. CASE v # h
        BY <2>4, <4>1, <4>3 DEF SeenTo
      <4>4. QED BY <4>2, <4>3
    <3>2. CASE ~WorkerGet(w)
      <4>1. UNCHANGED queue
        BY <3>2 DEF InWorker, JobStep, JobStarts, PersistResult, PersistFails, FindViewers,
           CutViewer, CuttingEnds, CuttingFails, JobEnds, JobRaises, ReleaseViewers, queueVars,
           WorkerTop, WorkerEmpty, WorkerDiscard, WorkerBegin, WorkerEnd, WorkerRelease
      <4>2. QED BY <2>4, <4>1 DEF SeenTo, InQueue
    <3>3. QED BY <3>1, <3>2
  <2>5. ASSUME NEW x \in Workers, x # w, WillCut(x, c, v) PROVE SeenTo(c, v)'
    <3>1. worker'[x] = worker[x] /\ job'[x] = job[x]
      BY <1>0, <2>5, OthersStay
    <3>2. WillCut(x, c, v)'
      BY <2>5, <3>1 DEF WillCut
    <3>3. QED BY <3>2 DEF SeenTo
  <2>6. CASE WillCut(w, c, v)
    <3>1. worker[w].video = v
      BY <2>6 DEF WillCut
    <3>2. CASE worker[w].pc = "begin"
      <4>1. job[w].step = "none"
        BY <1>0, <3>2 DEF JobTypeOK
      <4>2. JobStarts(w)
        BY <3>2, <4>1 DEF InWorker, JobStep, JobStarts, PersistResult, PersistFails, FindViewers,
           CutViewer, CuttingEnds, CuttingFails, JobEnds, JobRaises, ReleaseViewers,
           WorkerTop, WorkerGet, WorkerEmpty, WorkerDiscard, WorkerEnd, WorkerRelease
      <4>3. job'[w].step = "analysis" /\ worker'[w].video = v
        BY <1>0, <3>1, <4>2 DEF JobStarts, WorkerBegin, NoJob, JobTypeOK
      <4>4. QED BY <4>3 DEF SeenTo, WillCut
    <3>3. CASE job[w].step \in {"analysis", "flagged", "cutting"}
      <4>1. worker[w].pc = "run"
        BY <1>0, <3>3 DEF JobTypeOK
      <4>2. FindViewers(w) \/ CutViewer(w) \/ CuttingEnds(w)
              \/ PersistFails(w) \/ CuttingFails(w) \/ JobRaises(w)
        BY <1>4, <3>3, <4>1 DEF InWorker, JobStep, JobStarts, WorkerBegin,
           JobEnds, ReleaseViewers, WorkerTop, WorkerGet, WorkerEmpty, WorkerDiscard,
           WorkerEnd, WorkerRelease
      <4>3. CASE FindViewers(w)
        <5>1. c \in RecentClients(v)
          BY <1>2 DEF RecentClients
        <5>2. job'[w].step = "cutting" /\ c \in job'[w].clients /\ worker' = worker
          BY <1>0, <3>1, <4>3, <5>1 DEF FindViewers, JobTypeOK, queueVars
        <5>3. QED BY <3>1, <5>2 DEF SeenTo, WillCut
      <4>4. CASE CutViewer(w)
        <5>1. PICK d \in job[w].clients :
                /\ cut' = cut \cup {<<d, worker[w].video>>}
                /\ job' = [job EXCEPT ![w].clients = @ \ {d}]
          BY <4>4 DEF CutViewer
        <5>2. job[w].step = "cutting" /\ worker' = worker /\ worker[w].pc # "begin"
          BY <4>1, <4>4 DEF CutViewer, queueVars
        <5>3. c \in job[w].clients
          BY <2>6, <5>2 DEF WillCut
        <5>4. CASE d = c
          BY <3>1, <5>1, <5>4 DEF SeenTo
        <5>5. CASE d # c
          <6>1. job'[w].step = "cutting" /\ c \in job'[w].clients
            BY <1>0, <5>1, <5>2, <5>3, <5>5 DEF JobTypeOK
          <6>2. QED BY <3>1, <5>2, <6>1 DEF SeenTo, WillCut
        <5>6. QED BY <5>4, <5>5
      <4>5. CASE CuttingEnds(w)
        BY <2>6, <4>1, <4>5 DEF CuttingEnds, WillCut
      <4>6. CASE PersistFails(w) \/ CuttingFails(w) \/ JobRaises(w)
        BY <3>1, <4>6 DEF PersistFails, CuttingFails, JobRaises, Fails, SeenTo
      <4>7. QED BY <4>2, <4>3, <4>4, <4>5, <4>6
    <3>4. QED BY <2>6, <3>2, <3>3 DEF WillCut
  <2>7. QED BY <2>2, <2>3, <2>4, <2>5, <2>6 DEF SeenTo
<1>5. QED BY <1>3, <1>4

LEMMA ViewersStep ==
  ASSUME QueueInv, ServiceTypeInv, RequestsOutliveWaits, ViewersAreSeenTo,
         [ServiceNext]_vars
  PROVE  ViewersAreSeenTo'
<1> SUFFICES ASSUME NEW c \in Clients, NEW v \in Videos, Waits(c, v)', Flagged(v)'
             PROVE  SeenTo(c, v)'
  BY DEF ViewersAreSeenTo
<1>1. CASE HandlerStep
  BY <1>1, HandlerStepSeesTo DEF QueueInv
<1>2. ASSUME NEW w \in Workers, JobStep(w) \/ InWorker(w)
      PROVE  SeenTo(c, v)'
  BY <1>2, WorkerSeesTo
<1>3. ASSUME ServiceRestarts PROVE FALSE
  BY <1>3 DEF ServiceRestarts, Waits, WillWait, Empty, NoRequest
<1>4. CASE Waits(c, v) /\ Flagged(v) /\ UNCHANGED <<cut, failed, queue, worker, job>>
  BY <1>4, SeenToStays DEF ViewersAreSeenTo
<1>5. ASSUME NEW d \in Clients \cup {NoClient}, NEW u \in Videos, Request(d, u)
      PROVE  Waits(c, v) /\ Flagged(v) /\ UNCHANGED <<cut, failed, queue, worker, job>>
  <2>1. UNCHANGED <<cut, failed, queue, worker, job, pending, row>>
    BY <1>5 DEF Request, Analyze, Check, EnqueueCall, queueVars
  <2>2. ~WillWait(c, v)'
    <3>1. ASSUME NEW p \in Priorities, Analyze(d, u, p)
          PROVE  handler'.pc = "enqueue" /\ loop'.pc = "check"
      BY <3>1 DEF Analyze, EnqueueCall, NoRequest
    <3>2. ASSUME NEW navigation \in BOOLEAN, Check(d, u, navigation)
          PROVE  handler'.pc = "act"
      BY <3>2 DEF Check
    <3>3. QED BY <1>5, <3>1, <3>2 DEF Request, WillWait
  <2>3. QED BY <2>1, <2>2 DEF Waits, Flagged
<1>6. ASSUME NEW u \in Videos, NEW status \in Statuses, Override(u, status)
      PROVE  Waits(c, v) /\ Flagged(v) /\ UNCHANGED <<cut, failed, queue, worker, job>>
  <2>1. /\ UNCHANGED <<cut, failed, queue, worker, job, pending, handler, loop>>
        /\ row' = [row EXCEPT ![u] = [status |-> status, override |-> TRUE]]
    BY <1>6 DEF Override, queueVars
  <2>2. row'[v] = row[v] \/ row'[v].override
    BY <2>1 DEF ServiceTypeInv, RowTypeOK
  <2>3. QED BY <2>1, <2>2 DEF Waits, WillWait, Flagged
<1>7. ASSUME NEW u \in Videos, NEW listed \in BOOLEAN, Whitelist(u, listed)
      PROVE  Waits(c, v) /\ Flagged(v) /\ UNCHANGED <<cut, failed, queue, worker, job>>
  BY <1>7 DEF Whitelist, Waits, WillWait, Flagged, queueVars
<1>8. ASSUME Tick
      PROVE  Waits(c, v) /\ Flagged(v) /\ UNCHANGED <<cut, failed, queue, worker, job>>
  <2>1. /\ UNCHANGED <<cut, failed, queue, worker, job, row, handler, loop>>
        /\ pending' = Older(pending)
    BY <1>8 DEF Tick, queueVars
  <2>2. pending[c][v] \in Nat
    BY ServiceAssumption DEF ServiceTypeInv, MapsTypeOK
  <2>3. pending'[c][v] > 0 => pending[c][v] > 0
    BY <2>1, <2>2 DEF Older
  <2>4. QED BY <2>1, <2>3 DEF Waits, WillWait, Flagged
<1>9. ASSUME ServiceStops \/ UNCHANGED vars
      PROVE  Waits(c, v) /\ Flagged(v) /\ UNCHANGED <<cut, failed, queue, worker, job>>
  BY <1>9 DEF ServiceStops, Stop, vars, serviceVars, queueVars, Waits, WillWait, Flagged
<1>10. QED
  BY <1>1, <1>2, <1>3, <1>4, <1>5, <1>6, <1>7, <1>8, <1>9 DEF ServiceNext

(* What the workers and the handlers know of one another. *)
GateInv == QueueInv /\ ServiceTypeInv /\ RequestsOutliveWaits /\ ViewersAreSeenTo

LEMMA GateInitially == ServiceInit => GateInv
<1> SUFFICES ASSUME ServiceInit PROVE GateInv
  OBVIOUS
<1>1. QueueInv /\ ServiceTypeInv
  BY QueueInvInit, ServiceTypeInit DEF ServiceInit
<1>2. \A c \in Clients, v \in Videos : pending[c][v] = 0 /\ handler.pc = "idle"
  BY DEF ServiceInit, Empty, NoRequest
<1>3. RequestsOutliveWaits /\ ViewersAreSeenTo
  BY <1>2 DEF ServiceInit, NoRequest, RequestsOutliveWaits, ViewersAreSeenTo, Waits, WillWait
<1>4. QED BY <1>1, <1>3 DEF GateInv

LEMMA GateStep == GateInv /\ [ServiceNext]_vars => GateInv'
<1> SUFFICES ASSUME GateInv, [ServiceNext]_vars PROVE GateInv'
  OBVIOUS
<1>1. QueueInv'
  BY QueueInvStep, ServiceStepIsQueueStep DEF GateInv
<1>2. QueueTypeOK
  BY DEF GateInv, QueueInv
<1>3. ServiceTypeInv' /\ RequestsOutliveWaits'
  BY <1>2, ServiceTypeStep, RequestsStep DEF GateInv
<1>4. ViewersAreSeenTo'
  BY ViewersStep DEF GateInv
<1>5. QED BY <1>1, <1>3, <1>4 DEF GateInv

(* Whoever waits for a flagged video has been cut off it, or will be by a job *)
(* of the video, or a job of it has failed since it was last queued, however  *)
(* requests, overrides, time-outs, workers and restarts interleave.           *)
THEOREM GateInvariant == ServiceSpec => []GateInv
<1>1. GateInv /\ [ServiceNext]_vars => GateInv'
  BY GateStep
<1>2. QED BY <1>1, GateInitially, PTL DEF ServiceSpec

(* A worker never ends the wait of a viewer of a flagged video with the       *)
(* viewer's connections intact, in either pipeline and whether or not the    *)
(* database takes verdicts, unless a part of a job of the video - the        *)
(* analysis, the storing, the lookup of the viewers, a kill - has failed.     *)
THEOREM FlaggedViewersAreAlwaysCut == ServiceSpec => FlaggedViewersAreCut
<1> DEFINE Cuts == \A w \in Workers : ReleaseViewers(w) =>
                     \A c \in Clients, v \in Videos :
                        /\ Released(c, v)
                        /\ ~HasJob(v)
                        /\ v \notin failed
                        /\ row[v].status \in Blocking /\ ~row[v].override
                        => <<c, v>> \in cut
<1>1. GateInv => [Cuts]_vars
  <2> SUFFICES ASSUME GateInv, NEW c \in Clients, NEW v \in Videos,
                      pending[c][v] > 0, ~HasJob(v), v \notin failed, Flagged(v)
               PROVE  <<c, v>> \in cut
    BY DEF Released, Flagged
  <2>1. SeenTo(c, v)
    BY DEF GateInv, ViewersAreSeenTo, Waits
  <2>2. ASSUME NEW w \in Workers, WillCut(w, c, v) PROVE FALSE
    <3>1. worker[w].video = v /\ worker[w].pc \in {"begin", "run"}
      BY <2>2 DEF WillCut, GateInv, ServiceTypeInv, JobTypeOK
    <3>2. QED BY <3>1 DEF HasJob, Holds, JobStates
  <2>3. QED BY <2>1, <2>2 DEF SeenTo, HasJob
<1>2. QED BY <1>1, GateInvariant, PTL DEF FlaggedViewersAreCut
=============================================================================

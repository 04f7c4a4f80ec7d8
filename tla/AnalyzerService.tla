-------------------------- MODULE AnalyzerService --------------------------
(***************************************************************************)
(* analyzer_service.py around its queue: what POST /api/analyze and POST   *)
(* /api/check do on the event loop, what a worker does with the verdict of *)
(* an analysis, and the maps that decide whether GET /api/client-pending   *)
(* denies a client the video CDN.                                          *)
(*                                                                         *)
(* Handlers are coroutines without an await: one of them is on the event   *)
(* loop at a time, in `handler`.  The worker threads run between any two   *)
(* of its steps that touch shared state.                                   *)
(*                                                                         *)
(* A time stamp is kept as the time it has left: pending, cdn and recent   *)
(* count down with Tick, and zero stands for "no entry" and for "expired", *)
(* which the code's readers treat alike.                                   *)
(***************************************************************************)
EXTENDS AnalysisQueue

CONSTANTS Clients,         \* client addresses
          NoClient,        \* no address: empty, "-", "unknown", "localhost"
          PendingTimeout,  \* PENDING_TIMEOUT_SECONDS (180)
          CdnTtl,          \* CDN_BLOCK_ENTRY_TTL (40)
          RecentMax,       \* max_age_seconds of get_recent_clients_for_video (300)
          Parallel         \* _USE_PARALLEL_PIPELINE

ASSUME ServiceAssumption ==
  /\ NoClient \notin Clients
  /\ {PendingTimeout, CdnTtl, RecentMax} \subseteq Nat \ {0}
  /\ PendingTimeout < RecentMax
  /\ Parallel \in BOOLEAN

VARIABLES
  row,        \* the videos table: status and manual_override of each video
  whitelist,  \* the videos on the whitelist table
  recent,     \* the requests table: how long a request still counts as recent
  pending,    \* _pending_clients
  cdn,        \* _cdn_blocked_clients
  handler,    \* the request the event loop is serving
  job,        \* where each worker is inside the analysis of its video
  cut,        \* history: the clients a kill was made for since they last queued a video
  failed      \* history: the videos a job of which failed since they were last queued

serviceVars == <<row, whitelist, recent, pending, cdn, handler, job, cut, failed>>
vars == <<queueVars, serviceVars>>

-----------------------------------------------------------------------------
Blocking == {"block", "soft_block"}
Verdicts == {"allow"} \cup Blocking       \* "monitor" is treated like "allow"
Statuses == Verdicts \cup {"pending"}     \* VideoStatus
NoRow    == [status |-> "none", override |-> FALSE]
NoVerdict(status) == status \in {"none", "pending"}

NoRequest == [pc |-> "idle", client |-> NoClient, video |-> NoVideo,
              navigation |-> FALSE, status |-> "none"]
NoJob     == [step |-> "none", verdict |-> "allow", clients |-> {}]
JobSteps  == {"none", "analysis", "flagged", "cutting", "done"}

(* One more second for every entry of a map of time stamps. *)
Older(map) == [c \in Clients |-> [v \in Videos |-> IF map[c][v] > 0 THEN map[c][v] - 1 ELSE 0]]

Empty == [c \in Clients |-> [v \in Videos |-> 0]]

(* db.log_request() of a client with an address *)
Log(c, v) == recent' = IF c = NoClient THEN recent ELSE [recent EXCEPT ![c][v] = RecentMax]

(* get_recent_clients_for_video() *)
RecentClients(v) == {c \in Clients : recent[c][v] > 0}

(* GET /api/client-pending: _is_client_pending or _is_client_cdn_blocked *)
Denied(c) == \E v \in Videos : pending[c][v] > 0 \/ cdn[c][v] > 0

ServiceTypeOK ==
  /\ row \in [Videos -> [status : Statuses \cup {"none"}, override : BOOLEAN]]
  /\ whitelist \in SUBSET Videos
  /\ recent \in [Clients -> [Videos -> 0..RecentMax]]
  /\ pending \in [Clients -> [Videos -> 0..PendingTimeout]]
  /\ cdn \in [Clients -> [Videos -> 0..CdnTtl]]
  /\ handler \in [pc : {"idle", "enqueue", "read", "mark", "act"},
                  client : Clients \cup {NoClient}, video : Videos \cup {NoVideo},
                  navigation : BOOLEAN, status : Statuses \cup {"none", "whitelisted"}]
  /\ handler.pc = "enqueue" <=> loop.pc # "idle"
  /\ job \in [Workers -> [step : JobSteps, verdict : Verdicts, clients : SUBSET Clients]]
  /\ \A w \in Workers : job[w].step # "none" => worker[w].pc = "run"
  /\ cut \in SUBSET (Clients \X Videos)
  /\ failed \in SUBSET Videos

ServiceInit ==
  /\ QueueInit
  /\ row = [v \in Videos |-> NoRow]
  /\ whitelist = {}
  /\ recent = Empty
  /\ pending = Empty
  /\ cdn = Empty
  /\ handler = NoRequest
  /\ job = [w \in Workers |-> NoJob]
  /\ cut = {}
  /\ failed = {}

-----------------------------------------------------------------------------
(* Mistakes a maintainer could make in the actions below; each is caught by *)
(* one of the properties at the end of the module.                          *)

(* a request for a video that is already in flight always waits *)
AnalyzeReadInFlight ==
  /\ handler.pc = "read"
  /\ handler' = IF NoVerdict(row[handler.video].status) \/ handler.video \in inFlight
                  THEN [handler EXCEPT !.pc = "mark"] ELSE NoRequest
  /\ UNCHANGED <<queueVars, row, whitelist, recent, pending, cdn, job, cut, failed>>

(* a repeated request extends the entry instead of renewing it *)
AnalyzeMarkExtends ==
  /\ handler.pc = "mark"
  /\ pending' = [pending EXCEPT ![handler.client][handler.video] = @ + PendingTimeout]
  /\ handler' = NoRequest
  /\ UNCHANGED <<queueVars, row, whitelist, recent, cdn, job, cut, failed>>

(* CDN entries do not expire *)
TickKeepsCdn ==
  /\ handler.pc = "idle"
  /\ recent' = Older(recent)
  /\ pending' = Older(pending)
  /\ <<recent', pending'>> # <<recent, pending>>
  /\ UNCHANGED <<queueVars, cdn, row, whitelist, handler, job, cut, failed>>

-----------------------------------------------------------------------------
(* POST /api/analyze                                                       *)

(* The request is logged, and enqueue() is entered. *)
Analyze(c, v, p) ==
  /\ handler.pc = "idle"
  /\ EnqueueCall(v, p)
  /\ Log(c, v)
  /\ handler' = [NoRequest EXCEPT !.pc = "enqueue", !.client = c, !.video = v]
  /\ UNCHANGED <<row, whitelist, pending, cdn, job, cut, failed>>

(* The steps of enqueue() itself; a viewer who queues a video waits afresh, *)
(* and the new job may make up for one that failed.                         *)
Queues == loop.pc = "put" /\ ~Full

InEnqueue ==
  /\ EnqueueCheck \/ EnqueuePut \/ EnqueueAdd
  /\ cut' = IF Queues THEN cut \ {<<handler.client, handler.video>>} ELSE cut
  /\ failed' = IF Queues THEN failed \ {handler.video} ELSE failed
  /\ UNCHANGED <<row, whitelist, recent, pending, cdn, handler, job>>

(* enqueue() has returned: "existing" is looked up only if it returned False. *)
AnalyzeQueued ==
  /\ EnqueueReturn
  /\ handler' = IF handler.client = NoClient THEN NoRequest
                ELSE [handler EXCEPT !.pc = IF loop.queued THEN "mark" ELSE "read"]
  /\ UNCHANGED <<row, whitelist, recent, pending, cdn, job, cut, failed>>

(* existing = db.get_video(video_id), and the test of its status *)
AnalyzeRead ==
  /\ handler.pc = "read"
  /\ handler' = IF NoVerdict(row[handler.video].status)
                  THEN [handler EXCEPT !.pc = "mark"] ELSE NoRequest
  /\ UNCHANGED <<queueVars, row, whitelist, recent, pending, cdn, job, cut, failed>>

(* _mark_client_pending() *)
AnalyzeMark ==
  /\ handler.pc = "mark"
  /\ pending' = [pending EXCEPT ![handler.client][handler.video] = PendingTimeout]
  /\ handler' = NoRequest
  /\ UNCHANGED <<queueVars, row, whitelist, recent, cdn, job, cut, failed>>

-----------------------------------------------------------------------------
(* POST /api/check with a video                                            *)

(* is_whitelisted() and get_video_status() *)
Check(c, v, navigation) ==
  /\ handler.pc = "idle"
  /\ running
  /\ handler' = [pc |-> "act", client |-> c, video |-> v, navigation |-> navigation,
                 status |-> IF v \in whitelist THEN "whitelisted" ELSE row[v].status]
  /\ UNCHANGED <<queueVars, row, whitelist, recent, pending, cdn, job, cut, failed>>

CdnBlocked(c) == \E v \in Videos : cdn[c][v] > 0

(* What the handler then does with the status it has read. *)
CheckAct ==
  LET c == handler.client
      v == handler.video
  IN
  /\ handler.pc = "act"
  /\ IF handler.status \in Blocking \cup {"whitelisted"} THEN Log(c, v) ELSE UNCHANGED recent
  /\ cdn' = IF c = NoClient \/ handler.status = "soft_block" THEN cdn
            ELSE IF handler.status # "block" THEN [cdn EXCEPT ![c] = Empty[c]]
            ELSE IF handler.navigation \/ CdnBlocked(c) THEN [cdn EXCEPT ![c][v] = CdnTtl]
            ELSE cdn
  /\ handler' = NoRequest
  /\ UNCHANGED <<queueVars, row, whitelist, pending, job, cut, failed>>

-----------------------------------------------------------------------------
(* The administrator's requests, each one statement on the database.       *)

(* POST /api/override: an UPDATE, so a video without a row is left alone. *)
Override(v, status) ==
  /\ handler.pc = "idle"
  /\ running
  /\ row[v] # NoRow
  /\ row' = [row EXCEPT ![v] = [status |-> status, override |-> TRUE]]
  /\ UNCHANGED <<queueVars, whitelist, recent, pending, cdn, handler, job, cut, failed>>

(* POST /api/whitelist and DELETE /api/whitelist/{id} *)
Whitelist(v, listed) ==
  /\ handler.pc = "idle"
  /\ running
  /\ whitelist' = IF listed THEN whitelist \cup {v} ELSE whitelist \ {v}
  /\ UNCHANGED <<queueVars, row, recent, pending, cdn, handler, job, cut, failed>>

-----------------------------------------------------------------------------
(* A worker: the steps of the queue, and the analysis between its begin and *)
(* its end.                                                                 *)

JobStarts(w) ==
  /\ WorkerBegin(w)
  /\ job' = [job EXCEPT ![w] = [NoJob EXCEPT !.step = "analysis"]]
  /\ UNCHANGED <<row, whitelist, recent, pending, cdn, handler, cut, failed>>

(* db.upsert_video(): a manual override keeps its status.  A verdict that    *)
(* flags the video goes on to the kill.                                     *)
PersistResult(w, verdict) ==
  LET v == worker[w].video IN
  /\ job[w].step = "analysis"
  /\ row' = [row EXCEPT ![v].status = IF row[v].override THEN @ ELSE verdict]
  /\ job' = [job EXCEPT ![w].verdict = verdict,
                        ![w].step = IF verdict \in Blocking THEN "flagged" ELSE "done"]
  /\ UNCHANGED <<queueVars, whitelist, recent, pending, cdn, handler, cut, failed>>

(* A part of the job of w goes wrong, and nothing makes up for it. *)
Fails(w) == failed' = failed \cup {worker[w].video}

(* db.upsert_video() raises, "Failed to persist video record": the analysis *)
(* returns.                                                                  *)
PersistFails(w) ==
  /\ job[w].step = "analysis"
  /\ job' = [job EXCEPT ![w].step = "done"]
  /\ Fails(w)
  /\ UNCHANGED <<queueVars, row, whitelist, recent, pending, cdn, handler, cut>>

(* recent_clients = db.get_recent_clients_for_video(video_id, 300) *)
FindViewers(w) ==
  /\ job[w].step = "flagged"
  /\ job' = [job EXCEPT ![w].step = "cutting", ![w].clients = RecentClients(worker[w].video)]
  /\ UNCHANGED <<queueVars, row, whitelist, recent, pending, cdn, handler, cut, failed>>

(* kill_states_for_video() for one of them; the sequential pipeline also    *)
(* denies the CDN for a blocked video.                                      *)
CutViewer(w) ==
  LET v == worker[w].video IN
  /\ job[w].step = "cutting"
  /\ \E c \in job[w].clients :
       /\ cut' = cut \cup {<<c, v>>}
       /\ job' = [job EXCEPT ![w].clients = @ \ {c}]
       /\ cdn' = IF ~Parallel /\ job[w].verdict = "block"
                   THEN [cdn EXCEPT ![c][v] = CdnTtl] ELSE cdn
  /\ UNCHANGED <<queueVars, row, whitelist, recent, pending, handler, failed>>

CuttingEnds(w) ==
  /\ job[w].step = "cutting"
  /\ job[w].clients = {}
  /\ job' = [job EXCEPT ![w].step = "done"]
  /\ UNCHANGED <<queueVars, row, whitelist, recent, pending, cdn, handler, cut, failed>>

(* "State kill failed": the lookup of the viewers or a kill raises, and the  *)
(* viewers that are left keep their connections.                            *)
CuttingFails(w) ==
  /\ \/ job[w].step = "flagged"
     \/ job[w].step = "cutting" /\ job[w].clients # {}
  /\ job' = [job EXCEPT ![w].step = "done", ![w].clients = {}]
  /\ Fails(w)
  /\ UNCHANGED <<queueVars, row, whitelist, recent, pending, cdn, handler, cut>>

JobEnds(w) ==
  /\ WorkerEnd(w)
  /\ job[w].step = "done"
  /\ job' = [job EXCEPT ![w] = NoJob]
  /\ UNCHANGED <<row, whitelist, recent, pending, cdn, handler, cut, failed>>

(* "Unhandled error analyzing": what an analysis does outside its own tries  *)
(* raises, the copy of the settings and mkdtemp() among it; it has stored   *)
(* nothing, and the worker goes on as after any other job.                  *)
JobRaises(w) ==
  /\ WorkerEnd(w)
  /\ job[w].step = "analysis"
  /\ job' = [job EXCEPT ![w] = NoJob]
  /\ Fails(w)
  /\ UNCHANGED <<row, whitelist, recent, pending, cdn, handler, cut>>

(* _clear_client_pending() *)
ReleaseViewers(w) ==
  /\ WorkerRelease(w)
  /\ pending' = [c \in Clients |-> [pending[c] EXCEPT ![worker[w].video] = 0]]
  /\ UNCHANGED <<row, whitelist, recent, cdn, handler, job, cut, failed>>

-----------------------------------------------------------------------------
(* A second passes.  A handler takes far less: it awaits nothing.           *)
Tick ==
  /\ handler.pc = "idle"
  /\ recent' = Older(recent)
  /\ pending' = Older(pending)
  /\ cdn' = Older(cdn)
  /\ <<recent', pending', cdn'>> # <<recent, pending, cdn>>
  /\ UNCHANGED <<queueVars, row, whitelist, handler, job, cut, failed>>

ServiceStops == Stop /\ handler.pc = "idle" /\ UNCHANGED serviceVars

(* The database survives, the maps do not. *)
ServiceRestarts ==
  /\ Restart
  /\ pending' = Empty
  /\ cdn' = Empty
  /\ handler' = NoRequest
  /\ job' = [w \in Workers |-> NoJob]
  /\ cut' = {}
  /\ failed' = {}
  /\ UNCHANGED <<row, whitelist, recent>>

InWorker(w) == (WorkerTop(w) \/ WorkerGet(w) \/ WorkerEmpty(w) \/ WorkerDiscard(w))
               /\ UNCHANGED serviceVars

HandlerStep == InEnqueue \/ AnalyzeQueued \/ AnalyzeRead \/ AnalyzeMark \/ CheckAct

JobStep(w) ==
  \/ JobStarts(w)
  \/ \E verdict \in Verdicts : PersistResult(w, verdict)
  \/ PersistFails(w)
  \/ FindViewers(w)
  \/ CutViewer(w)
  \/ CuttingEnds(w)
  \/ CuttingFails(w)
  \/ JobEnds(w)
  \/ JobRaises(w)
  \/ ReleaseViewers(w)

Request(c, v) ==
  \/ \E p \in Priorities : Analyze(c, v, p)
  \/ \E navigation \in BOOLEAN : Check(c, v, navigation)

ServiceNext ==
  \/ \E c \in Clients \cup {NoClient}, v \in Videos : Request(c, v)
  \/ HandlerStep
  \/ \E v \in Videos, status \in Statuses : Override(v, status)
  \/ \E v \in Videos, listed \in BOOLEAN : Whitelist(v, listed)
  \/ \E w \in Workers : InWorker(w) \/ JobStep(w)
  \/ Tick
  \/ ServiceStops
  \/ ServiceRestarts

ServiceSpec == ServiceInit /\ [][ServiceNext]_vars

(* Handlers and threads are scheduled and an analysis ends.     Time passes   *)
(* between requests however many there are: Tick is disabled inside a handler *)
(* only because a handler takes no time, hence strong fairness.               *)
ServiceFairness ==
  /\ WF_vars(HandlerStep)
  /\ \A w \in Workers : WF_vars(InWorker(w) \/ JobStep(w))
  /\ SF_vars(Tick)

FairServiceSpec == ServiceSpec /\ ServiceFairness

-----------------------------------------------------------------------------
(* When a worker ends the wait of a client for a video, and no further       *)
(* analysis of it is under way, then the client has been cut off the video   *)
(* if it was flagged: a viewer never gets the CDN back before the kill.      *)
(* Excepted is a video whose job has failed - it raised, its verdict was     *)
(* refused, the lookup of its viewers or a kill raised - as long as nobody   *)
(* has queued it again.  (A manual override decides for itself.)             *)
Released(c, v) == pending[c][v] > 0 /\ pending'[c][v] = 0

FlaggedViewersAreCut ==
  [][\A w \in Workers : ReleaseViewers(w) =>
        \A c \in Clients, v \in Videos :
           /\ Released(c, v)
           /\ ~HasJob(v)
           /\ v \notin failed
           /\ row[v].status \in Blocking /\ ~row[v].override
           => <<c, v>> \in cut]_vars

(* A client that stops making requests gets the CDN back, whatever happened  *)
(* to the analyses it was waiting for.                                       *)
DenialEnds ==
  \A c \in Clients :
     (<>[][\A v \in Videos : ~Request(c, v)]_vars) => <>[]~Denied(c)

=============================================================================

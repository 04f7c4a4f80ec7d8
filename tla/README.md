# A TLA+ verification project for brainrotfilter

brainrotfilter is a content filter for a household: Squid intercepts YouTube
traffic, helper processes ask an analyzer service about every video a client
opens, the service downloads and scores unknown videos in background threads,
and a verdict ends in an ACL file, a killed connection, a temporary firewall
rule and a CDN denial. This directory holds TLA+ models of its control logic,
the TLC configurations that check them, and TLAPS proofs about them. All
definitions are translated from the Python source in `src/brainrotfilter/`; the
map in `PROJECT.json` gives the lines of each.

## 1. Inventory

| Component | State it keeps | Operations | Talks to |
|---|---|---|---|
| Analysis queue (`analyzer_service.py`, `AnalysisQueue`) | `_queue`, `_in_flight`, `_job_steps`, `_running`, worker threads | `enqueue`, `_worker`, `_begin_job`, `_end_job`, `start`, `stop` | handlers enqueue; workers call the pipeline and `_clear_client_pending` |
| Verdict and client gate (`analyzer_service.py`, both pipelines) | `_pending_clients`, `_cdn_blocked_clients`, `videos` and `requests` tables | `/api/analyze`, `/api/check`, `/api/client-pending`, `/api/override`, `/api/whitelist`, persist and kill | queue, store, state killer; asked by redirector, ICAP server and ACL helpers |
| State killer (`state_killer.py`) | `_active_blocks`, the kernel's REJECT rules | `kill_states_for_video`, `_add_client_block`, `cleanup_expired_blocks` | workers, event loop; one cleanup thread per copy of the service module |
| YouTube API shim (`youtubei_shim.py`) | none of its own; imports the service | `_register_decision` for clicks and impressions | the queue and the gate's maps, through an import |
| Parallel pipeline (`parallel_analyzer.py`) | a settings snapshot, futures, temporary directories | phases 1, 1.5 and 2 with time-outs, early exit, persist | content analyzers, YouTube client, store |
| Scoring and thresholds (`parallel_analyzer.py`, `config.py`) | none | combine, early exit, status bands | pipelines, recalculation |
| Content analyzers (keyword, comment, engagement, thumbnail, audio, scene, shorts) | none | from counts and ratios to a score | pipeline |
| Video store and settings (`db_manager.py`, `config.py`) | `videos`, `channels`, `requests`, `settings`, `config._cache` | upsert, override, recalculate, settings | everyone |
| ACL files (`_write_acl_file`) | two list files and their temporary names | update after a verdict, an override, a whitelist entry, a recalculation | Squid reads them |
| Channel profiler (`channel_profiler.py`) | `channels` table | read, count, escalate, write | pipelines (several workers), the refresh endpoint |
| Squid redirector, ACL helper | the helper's cache; a pool for triggers | one answer per request | store; the service over HTTP |
| ICAP server (`icap_server.py`) | a pool of threads and its queue | OPTIONS, REQMOD, report | the service over HTTP |
| Watchdog (`watchdog.py`) | restart times of the last hour | probe, restart | systemd units |
| Profile manager (`profile_manager.py`, routes) | `profiles`, `profile_devices`, a cache by client | edit, assign, default, lookup | administrator |
| Community keywords | keyword file, its backup, hash of the last list | sync, rollback | the community's server |
| Migrations (`db_migrations.py`) | schema, recorded version | run at each start | store |
| Snapshots, configuration bundles | snapper's list; files and their `.bak` | factory snapshot, rollback, import | the running service's files |
| ML classifier (`ml_classifier.py`) | model files, the model in memory | train, roll back, load | administrator |
| Setup and uninstall (`linux_configurator.py`, `apply_squid_config.sh`, wizard, uninstaller) | Squid's configuration, certificate, firewall rules, flags | wizard steps, root helper, uninstall steps | Squid, the kernel |
| YouTube client, console, templates, packaging | none of interest | I/O | - |

What makes them correct, and what is hard about each:

* **Queue.** One analysis per video at a time; every accepted job is run once; the
  limit is kept. Hard: `enqueue()` gives up the lock between its test and its
  insertion, and workers run in between.
* **Gate.** A client that waits for a video is released, and if the video is flagged not
  before its connections are cut; a client that asks for nothing gets the CDN back; a
  manual decision is never undone. Hard: handlers, workers, time-outs, a failing
  database and raising jobs interleave.
* **State killer.** Rules do not pile up, expiries are forgotten, rules go away. Hard:
  `iptables -C`, `-I` and `-D` are separate processes outside the lock, each of which
  may fail; the table is lost in a restart and the kernel's rules are not.
* **Shim.** A click on an unknown video gets it analysed. Hard: the module may be
  imported twice, under two names, with two queues.
* **Pipeline and scoring.** A late thread never loses its file; a failure never makes a
  video worse; a skipped download would not have changed the verdict; every analysis
  ends. Hard: time-outs cancel nothing, the exit test computes another formula than
  the persist step, settings change in between.
* **Store, ACL files, channels.** A manual status survives; after a recalculation the
  settings of now apply; the list is what the table says; a profile describes one
  moment. Hard: several threads read, compute and write without a common lock.
* **Readers of verdicts.** An answer fits the tables if they stood still, and the cache
  forgets. Hard: four queries per answer, each of which may fail.
* **ICAP.** Connections end and plays are reported, with peers that stall or send their
  request in dribs.
* **Administration.** What is recorded is complete, what is reported as done is done,
  what is served survives a restart. Hard: check-then-act by two requests, a crash
  between two writes, failing calls taken for empty answers.

The hazards of the code, each at its line, are listed in `PROJECT.json`.

## 2. The modules

| Module | Models | State and actions in the code |
|---|---|---|
| `JobBoard` | the abstract promise of the queue | one state per video: idle, waiting, running |
| `AnalysisQueue` | `class AnalysisQueue` | `queue` is `_queue` (one FIFO per priority), `inFlight` is `_in_flight`, `jobSteps` the keys of `_job_steps`; `loop` is the place of the event loop inside `enqueue()`, `worker[w]` the place of a thread inside `_worker()` |
| `AnalyzerService` | the gate: extends `AnalysisQueue` | `pending` is `_pending_clients`, `cdn` is `_cdn_blocked_clients`, `recent` the `requests` table, `row` the `videos` table, `handler` the request on the event loop, `job[w]` the place of a worker in the pipeline; `cut` and `failed` are history variables |
| `StateKiller` | `state_killer.py` and the cleanup loop | `blocks` is `_active_blocks`, `rules` the kernel's chain, `killer[t]` and `cleaner[k]` the places of threads; `failures` is history |
| `ShimPipeline` | the shim beside the queue: extends `AnalysisQueue` and instantiates it a second time | `importedQueue`, `importedInFlight` are the second module's copies; `analysed` is history |
| `ContentScores` | the seven analyzers, from what they count to a score | operators only |
| `Scoring` | `_ConfigSnapshot.compute_combined`, `max_possible_combined`, `_can_skip_download`, `score_to_status` | operators only |
| `Pipeline` | `parallel_analyze` and its phases: extends `ContentScores` and `Scoring` | `main` and `second` are the places of the calling thread and of phase 2's, `task` the analyzers' futures, `got` and `heard` the scores each has collected, `snap` the snapshot, `dirs` the temporary directories |
| `VideoStore` | the `videos` table and its three writers | `row`, `weight` and `limit` (settings), `analysis[t]`, `recalc`; `stored` is a history variable |
| `AclFiles` | `_update_acl_files` and `_write_acl_file` | inodes, the two paths that name them, and each writer's open one |
| `ChannelProfiles` | `profile_channel` | `channel` is the record, `profiler[t]` what a thread has read; `moments` and `limits` are history |
| `GateReaders` | `squid_acl_helper.py`, `squid_redirector.py` and the answer of `/api/check` | the tables, `ask` the request and the query it is at, `cache` the helper's |
| `IcapServer` | `icap_server.py` | `conn` the place of each connection, from `accept` through the pool to the answer |
| `Migrations`, `ConfigBundle`, `Snapshots`, `Profiles`, `Keywords`, `MlModels`, `Watchdog` | one administration component each | the files, tables and threads named at each VARIABLE |
| `SquidSetup`, `FirewallSetup` | wizard, root helper and uninstaller: Squid's files, the kernel's rules | `wizard[w]` and `setup[s]` the steps of concurrent requests, `helper` the oneshot unit |
| `LinuxSetup` | the two together | any interleaving of their steps |
| `...Proofs` | | `AnalysisQueueProofs`, `AnalyzerServiceProofs`, `StateKillerProofs`, `ScoringProofs`, `PipelineProofs` and `GateReadersProofs` are about the module they name, `ScoringProofs` also about `ContentScores`, `VideoStoreProofs` also about `AclFiles` and `ChannelProfiles`, `AdministrationProofs` about `Profiles`, `LinuxSetup`, `Keywords`, `MlModels`, `Snapshots`, `ConfigBundle` and `Migrations` |
| `MC...` | | instances, and, in `MCPipeline` and `MCAdministration`, assumptions that test the pure operators against other definitions over small ranges |

Composition: `AnalyzerService` and `ShimPipeline` conjoin their own steps with the
queue's actions, so the queue's guards and effects are those of `AnalysisQueue`.
Every step of `AnalyzerService` is a queue step or leaves the queue alone, and the
queue is checked and proved to implement `JobBoard` (`ImplementsBoard`), so the
service implements it too. `Pipeline` builds every score
from the operators of `ContentScores` and `Scoring`. `MCGateway`, `MCStore` and
`MCAdministration` put modules that share no state into one run: `focus`, chosen in
the initial state, says which of them moves.

Granularity: request handlers are coroutines without an `await`, hence one handler at
a time is on the event loop, but every access to state that the worker threads share
is a step of its own. A subprocess call, a file operation or a database transaction
is one step. `db_migrations.py` is finer: each statement commits by itself.

Abstractions of data: in `AnalyzerService` a verdict is a free choice (`monitor` is
treated like `allow`, as the gate treats it); a video, client or worker is a model
value; a time stamp is the time it has left, counting down with a tick; in
`VideoStore` the individual scores of a video are one number, and the settings one
weight and one threshold, while `Pipeline` has all of them. Scores are integers in
hundredths of a point, because the code rounds every one to two decimals, weights in
hundredths, ratios in thousandths. In `AnalyzerService` an entry that has expired
and an entry that is absent are the same, because every reader of the maps treats
them alike; `StateKiller` keeps them apart, because there the cleanup does not.

Definitions above a module's actions that are introduced as mistakes are not part of
any specification. Each is a plausible error of a maintainer, and is used to confirm
that the property it is paired with in `PROJECT.json` would notice.

## 3. The runs

| Run | Instance | What it shows |
|---|---|---|
| `queue` | 3 videos, 2 workers, limit 2, stops and restarts | never two jobs of a video; jobs are covered by `_in_flight` or by the add under way; the queue implements `JobBoard`; urgent jobs are taken, normal ones too if urgent submissions end |
| `service_viewers` | 1 video, 2 workers, 2 clients, parallel pipeline, database may refuse, jobs may raise | viewers of a flagged video are cut before they are released, unless a job of the video has failed since it was last queued |
| `service_sequential` | 1 video, 1 worker, 1 client, sequential pipeline, database may refuse, jobs may raise | a client that stops asking gets the CDN back, whatever fails |
| `killer` | 1 client, 2 killers, 2 cleaners, 1 restart, 1 failing `iptables` call | rules of a client never outnumber the killing threads and the failed calls; expiries are forgotten |
| `pipeline` | a dull and a gaudy video, default and text-heavy settings that change at any time | scores stay in range; no analyzer's directory goes; failures only lower a score; the early exit agrees with the complete analysis; every analysis ends and cleans up |
| `gateway` | the three readers over all rows and tiers; 2 connections, 1 pool thread; 2 videos for the shim | an answer about tables at rest is the right one; the cache forgets; connections end unless a peer dribbles for ever; plays and clicks lead to an analysis |
| `store` | 2 videos, 2 analyses, 2 weights and limits; 2 writers of a list; 3 videos of a channel, 2 profilers | manual statuses are kept; a recalculation takes effect; an undisturbed list is exact; a profile describes a moment |
| `administration` | two of each concurrent actor, see below | the recorded version is complete; a reported success is one; caches, hashes and models agree with what they stand for; setups do not pile up; rollbacks reach the first factory snapshot; the watchdog never gives up |
| `queue_refusal`, `killer_leak`, `shim_imported`, `store_recalculation` | small | the code does not do what a comment or docstring says (section 6) |

### Bounds and why they are enough

* **Queue**: three videos against a limit of two reach a full queue with a third
  submission refused; two workers reach every interleaving of two jobs, and the
  races of the code are between one worker and the event loop. The proofs lift the
  safety part to any numbers.
* **Service**: all maps are indexed by video and client and the handlers touch one pair
  at a time. Two clients distinguish "the viewer" from "the other one"; two workers
  allow a second job of the video while the first one is releasing. `PendingTimeout`
  2, `RecentMax` 3 and `CdnTtl` 1 keep the order of the code's 180, 300 and 40
  seconds. The symmetric run has no liveness property.
* **Killer**: two threads between `-C` and `-I`, two cleaners in the same deletion;
  `MaxFailures` 1 lets one `-C`, `-I` or `-D` fail anywhere; `MaxRules` 4 exceeds the
  three rules the killers can then reach, so its guard never disables a step; one
  restart leaves rules without a table. `killer_leak` has no failing call, so that what
  it finds needs none.
* **Pipeline**: one analysis at a time, since two share nothing but the settings. The
  dull video is certain to be allowed under the second settings, the gaudy one reaches the caps; every
  analyzer may in addition end with zero or be late. Under the default weights the
  early exit never fires, which `DefaultsNeverSkip` asserts, so the second settings
  raise the weight of the keywords.
* **Gateway**: one reader is observed at a time, because readers share nothing but the
  tables; a cache of one entry evicts at each new token; one pool thread is the whole
  pool for two connections. `MaxTriggers` 2 bounds the triggers that wait. The shim
  has two videos, a queue of two and one worker.
* **Store**: two values of each setting and scores on both sides of both limits, with
  one product above the cap; three videos are the least number with which a channel
  can be stopped; the flag limits 40 and 101 are one that a share can reach and one that
  none does, which `PUT /api/settings` accepts too; `MaxMoments` 2 bounds how often the videos change under one
  profile, enough for a count mixed from two moments.
* **Administration**: versions 2 and 3 with two statements each; two files, one of them
  the database; four snapshots; two profiles that may overlap on two clients; two
  words with weights up to two; two concurrent wizards; four models of which two are
  kept; two services and two restarts in an hour of two ticks. `MaxDoubts` 1 bounds
  the checks for a rule that fail although the rule is there.

### Fairness and why the code justifies it

* `LoopStep`, `HandlerStep`: a handler awaits nothing, so the event loop runs it to its
  end (weak fairness).
* Each worker thread: the operating system schedules it, `queue.get` has a time-out of
  one second and loops, and an analysis returns because its downloads, its
  subprocess calls and its phases have time-outs (weak fairness per worker).
  `Pipeline` shows the last part: `AnalysisEnds` needs only that the two threads
  and each analyzer go on (weak fairness of each).
* `Tick` in `AnalyzerService` is strongly fair: it is disabled while a handler is being
  served only because a handler takes no time; real time passes however many requests
  there are. In `StateKiller` it is weakly fair.
* Killers and cleaners: every `subprocess.run` of iptables carries a time-out of five
  seconds, and a call that fails is a step like one that succeeds.
* ICAP: a pool thread takes tasks in their order, so no connection waits for ever for
  its turn (strong fairness of the take-up); each read of the socket and each post has
  a time-out, so a thread does not rest (weak). That a request ends is not assumed: the
  time-out starts anew with every few bytes (`PeerTrickles`), and `ConnectionsEnd` has
  the premise `PeersFinish`, that no peer goes on so for ever within one request.
* Watchdog: its loop goes on and the clock advances (weak).
* No fairness is assumed of clients, administrators, settings, stops or restarts.

## 4. What is proved

For every number of videos, workers, clients, threads and for every limit:

* `AnalysisQueueProofs`: `QueueTypeCorrect`; `QueueInvariant`, the inductive
  invariant `QueueInv == QueueTypeOK /\ OneJobPerVideo /\ JobsInFlight /\
  PutIsFresh`, and its parts `OneJobAlways`, `JobsAlwaysInFlight`, `PutAlwaysFresh`;
  `QueueImplementsBoard`. `OneJobPerVideo` alone is not inductive: a put could
  duplicate a job. `PutIsFresh` says it cannot, and is itself kept only because a
  video with a job is in `_in_flight` or is the one the event loop is about to add
  (`JobsInFlight`). The one caller of `enqueue()` at a time is essential here: `loop`
  is a single variable because the handlers are coroutines of one event loop. The
  step from `QueueInv` to the refinement is one case per action.
* `AnalyzerServiceProofs`: each step of the service is a queue step or leaves the queue
  alone, hence `ServiceOneJob` and, since the queue implements `JobBoard`,
  `ServiceImplementsBoard`; `ServiceTypeCorrect`, whose invariant also says at which
  step of a job its video, its verdict and its viewers are set.
* The same module, for the promise of the gate: `GateInvariant` and
  `FlaggedViewersAreAlwaysCut`. A worker finds its viewers by the `requests` table and
  releases them by `_pending_clients`, and the two are written in different handlers.
  `RequestsOutliveWaits` ties them: a wait ends before the request for it is forgotten,
  because `PendingTimeout < RecentMax` (180 and 300 seconds in the code) and no time
  passes within a handler. `ViewersAreSeenTo` is the induction: whoever waits for a
  flagged video, or will before its handler ends, has been cut off it, or the video is
  queued, or a job of it has not looked for its viewers yet or has this one on its
  list, or a job of it has failed since it was last queued. Nothing is assumed of the
  database, the analysis, the lookup or the kills: each may fail, and `failed` then
  records the video until its next put.
* `StateKillerProofs`: `KillerTypeCorrect` and `DuplicatesAlwaysBounded`. The bound
  counts the rules together with the threads standing between `-C` and `-I`: `-I`
  trades one for the other, and a thread enters this window either when there is no
  rule, when the threads alone bound the sum, or after a `-C` that failed, which is
  counted in `failures`.
* `VideoStoreProofs`, the table: `StoreTypeCorrect`; `ManualStatusAlwaysKept`;
  `UpdatesAlwaysCurrent`, the invariant of a recalculation between its two
  transactions; `RecalculationAlwaysTakesEffect` from it.
* `VideoStoreProofs`, the list: `UndisturbedListAlwaysExact`. The invariant
  (`AloneRelies`) says of a writer whom nobody has joined that no other is at work, that
  the list it has read is that of now, and that its file is the one with the temporary
  name, empty until it writes and then just its list.
* `VideoStoreProofs`, the channels: `ProfileAlwaysDescribesAMoment`. What a thread has
  counted is among the moments it has witnessed, and its recommendation follows from
  that count under a limit it has witnessed (`Witnesses`); the escalation reads the
  limit again and needs the limit of that moment. The first attempt at this proof
  failed for a reason: the property asked for a share that reaches a limit in force,
  and `_score_to_channel_tier` blocks at 70 percent whatever the limit. TLC gave the
  counterexample with a limit of 80, the property now says so, and the run has such a
  limit.
* `ScoringProofs`, for all weights, limits and bonuses: `CombinedGrows` (a combined
  score is within 0 .. 100 points and grows with each part and with the bonus),
  `BlockIsCertain` and `AllowIsCertain`, the soundness of the two conditions of
  `_can_skip_download` under `SoundLimits`. The second has an exception that TLC
  found first: rounding may lift a score onto the monitor limit itself.
* `ScoringProofs`, the analyzers: for all counts, the score each of them makes is within
  0 .. 100 points (`KeywordsInRange` to `AudioInRange`, one lemma each). The
  curve of cuts needs that the piece chosen is the one the ratio falls on (`CutsInRange`,
  `PieceInRange`); the audio score, that clamping comes after the weights, which may
  be any numbers; keywords and bait patterns are added up by folds over sets, and no
  cap helps unless the fold is a number. `SumsExist` and `SumsAreNatural` say that of
  the equation a fold solves, for every finite set. Both are inductions on the inclusion
  of subsets, made without the library's induction rules: of the subsets for which the
  claim fails a least one would exist (`LeastSubset`), and it cannot be least.
* `PipelineProofs`: `AnalyzersStayInRange`, from the lemmas about the analyzers: with
  or without metadata, every thread ends with a score of 0 .. 100 points;
  `PipelineTypeCorrect`, the ranges of every thread, future, score and
  directory, from the range of `Combination` and what each phase stores;
  `FilesOutliveExtractors`, from an invariant that the with-blocks nest (`PoolsNest`: a
  running extractor implies an open pool, the pool the directory, the thread the
  caller's wait); `FailuresNeverRaise`, from `FoundInv` - what is collected of an
  analyzer is zero or what it found, and no thread is started twice in a run -
  together with `CombinedGrows`; `SkippedDownloadAgrees`, from `BlockIsCertain`,
  `AllowIsCertain` and that nothing of the download's parts is collected before the
  exit.
* `GateReadersProofs`: `ReadersInvariant`, and from it `SteadyTablesAlwaysDecide` and
  `CacheAlwaysForgets`. `SeenSoFar` says, place by place, what a request that found the
  tables at rest knows of them: each query it has behind it would give the same answer
  now and has not decided. `EntriesRightOrDying` says that a cached answer is right
  about the tables of now, or that the time they have been at rest and the time the
  entry has left are together within the time to live; a tick moves one into the other.
  `DisturbedIsRecent` joins the two: an answer that was disturbed enters the cache at
  the moment of its disturbance, because no tick falls into a request.
* `AdministrationProofs`: `CacheAlwaysCurrent` (every edit that changes a resolution
  empties the cache, and no other step changes one), `RulesNeverPileUp` (a rule
  beyond the number of setups needs a check that failed) and, with the half of Squid -
  the helper inserts only when it has read that the line is missing, and it is one
  oneshot unit - `SetupNeverPilesUp`; `SyncedAlwaysMerged` (merging twice is merging
  once, for the two strategies for which that is so), `ServedAlwaysSurvives` (between
  a write of the stable file and the assignment in memory the trainer stands at a step
  that knows the model), `FirstFactoryAlwaysWins` (numbers are not given twice, so the
  least flagged one is the first one for as long as it exists),
  `SuccessAlwaysMeansRestored` (a member is to be read, staged or restored unless there
  is an error, and a database that nobody had open while it was replaced has no log
  that belongs to another one), and `RecordedAlwaysComplete` (the invariant adds what a
  migrator has behind it when it is about to record a version; it holds for two
  migrators because every statement only adds).

Assumptions are the named `...Assumption` of the modules: limits are natural numbers,
concurrent setups, killing threads, writers of a list and a channel's videos are
finitely many, the ids of a list are numbers (the order of its lines), null values are not members of
their sets, `PendingTimeout < RecentMax`, a reader is asked what its callers ask it, the
statements of a migration are a sequence, weights and limits are not negative, what an
analyzer counts is a natural number and the texts and terms it searches are finite, and
the factor that dampens cuts is at most one if a video has the category that makes the
scene analyzer read it (yt-dlp gives none such). TLC evaluates all of them. TLC has
also checked each inductive invariant on the instance of its run.

Every safety property of a passing run is stated by a theorem. Model-checked only are
the liveness properties (`UrgentServed`, `NormalServed`, `DenialEnds`,
`BlocksAreForgotten`, `AnalysisEnds`, `ConnectionsEnd`, `PlaysAreSubmitted`,
`SharedClickIsAnalysed`, `NeverGivesUp`), because liveness under fairness and `ENABLED`
are beyond the prover. That a score is in range is proved; that it is the right
score `MCPipeline` tests on examples, against the points of the curve and against other
definitions over small ranges.

## 5. Plan

Done: queue, gate, state killer, shim, store; then scoring and pipeline, readers and
ICAP server, ACL files, channels, and administration. Next, in order:

1. Invariants behind the liveness properties, where they say something by themselves:
   the budget of the watchdog, the threads of the ICAP pool.
2. That more evidence never lowers an analyzer's score, as `CombinedGrows` has it for the
   combination: true of each count alone but for the words of a comment and the seconds
   and views of a video.
3. The viewers of a shim's click in `AnalyzerService`.
4. The shell redirector and helpers, which ask the service over HTTP.

## 6. Where the code and its comments disagree

Checked by a run each:

* `queue_refusal` - `enqueue()` adds to `_in_flight` after the put. A worker that takes
  and ends the job in between leaves the video in `_in_flight` for ever, and later
  submissions are refused though nothing is queued (`analyzer_service.py:181`).
* `killer_leak` - the cleanup pops an entry that a concurrent kill has just recorded;
  the rule that this kill inserted has no expiry left (`state_killer.py:193`).
* `shim_imported` - the unit file serves `brainrotfilter.analyzer_service:app`, while
  the shim imports `analyzer_service`: a second module object is created, and the
  click joins a queue no worker serves. (`sys.path` holds the package directory
  because of `analyzer_service.py:58` and the unit's `PYTHONPATH`.) The same double
  import starts a second cleanup thread, which is why `StateKiller` has two.
* `store_recalculation` - a verdict stored between the two transactions of a
  recalculation gets a combined score computed from the scores before it.

Seen in counterexamples while modelling, without a run of their own:

* `mkdtemp` and the copy of the settings are outside the analysis's `try` blocks
  (`parallel_analyzer.py:1041`, `958`). When one raises, the worker logs it
  (`analyzer_service.py:236-239`) and its `finally` releases the clients of the video with
  no row stored, against "This function does NOT raise" (`parallel_analyzer.py:943`) and
  "analysis outcome already written to DB" (`analyzer_service.py:243`); so it does when
  the database refuses the verdict. `JobRaises` and `PersistFails` are these steps, and
  what is left of the order is `FlaggedViewersAreCut`.
* Re-queuing an analysed video marks its client pending although a verdict is known
  (comment at `analyzer_service.py:735`): the verdict is looked up only when
  `enqueue()` returned False.
* A client refused because the queue is full is marked pending with no job to wait
  for, until the time-out (comment at `analyzer_service.py:261`).
* A client that keeps asking renews its entry each time, so the "hard timeout" of
  `analyzer_service.py:262-263` never strikes for it.
* The kill uses the computed verdict: the viewers of a video an administrator has
  allowed are cut when an analysis disagrees (`parallel_analyzer.py:1259-1260`).
* Two kills between each other's `-C` and `-I` insert the same rule twice
  (docstring at `state_killer.py:147-149`), and so does a kill whose `-C` fails or times
  out, since any exit code but 0 is taken for "no rule"; `DuplicatesBounded` is what
  does hold.
* An exception in the lookup of the viewers or in one kill ends the loop over them
  (`parallel_analyzer.py:1273`, `analyzer_service.py:575`): the viewers left are released
  uncut, although the job goes on as if they were.
* A kill that refreshes a block while the cleanup deletes its rules records a block
  without a rule (header at `state_killer.py:6-7`).
* An analysis combines scores with the weights of its start and compares with the
  thresholds of its end, although the snapshot exists "to avoid mid-run changes"
  (`parallel_analyzer.py:87`).
* Every status but `block` and `soft_block` falls through to the lifting of the CDN
  block, unknown and pending videos included, against the comment "not pending"
  (`analyzer_service.py:904-908`).
* `_persist_result` of the parallel pipeline, a "drop-in replacement", omits the
  sustained CDN deny of the sequential one (`parallel_analyzer.py:942`, `1266`).
* The shim marks a client pending without logging its request, so the kill after the
  verdict does not find it (`youtubei_shim.py:118`).

Pipeline and scoring:

* `parallel_analyzer.py:389` calls `shorts_detector.detect`, which does not exist: the
  bonus is always zero, against the header's "additive bonus (0-15 pts)". The
  detector itself gives up to 20.
* `NoDirectory` is, inside the pipeline, the `mkdtemp` that raises in a job (above).
* The music dampening asks for the category "10", and yt-dlp gives names; a test
  (`conftest.py:209`) supplies the number.
* The early exit compares with fractional limits which `score_to_status` truncates, so
  it may allow what a complete analysis would monitor (`FractionMisleads`); it never
  fires under the default weights; and it uses the combined score where the header
  says `keyword_score`.
* The default weights sum to 0.95 with the ML scorer off, though `config.py:61` says
  1.0; `phase1_timeout` is read and unused; the comments need an API key that is
  empty by default; the keyword docstring's "logarithmic compression" is linear.

Store, lists, channels:

* "Atomically write an ACL file" (`analyzer_service.py:619`): writers share one
  temporary name, and a torn or an older list can become the live one. A
  recalculation does not rewrite the files at all, and
  `get_blocked_video_ids` ignores the whitelist.
* A channel is blocked at 70 percent of flagged videos even when
  `channel_flag_percentage` is higher, because the block threshold is
  `min(2 * limit, 70)` (`channel_profiler.py:64`).
* Channel profiles lose concurrent updates; a first profile is never escalated and a
  second one escalates without new evidence; a tier that is not automatic is
  "preserved as admin-set" though nothing sets one; overrides and recalculations do
  not profile again; `blocked_channels.acl` is written before the profile.

Readers and ICAP:

* The redirector's header has "1. Whitelisted video or channel -> allow (OK)"
  (`squid_redirector.py:17`) before the status, but `_make_decision` looks up the video's
  status first and the whitelisting of the channel only before the channel's tier
  (`squid_redirector.py:178-191`): a flagged video of a whitelisted channel is
  redirected. `Decision`, and with it `SteadyTablesDecide`, states the order of the code,
  in all three readers.
* A socket's time-out bounds one read, and the loops over header lines and chunks read as
  long as something comes: a peer that sends a few bytes before each time-out holds its
  pool thread for ever, against "so one slow peer can't starve a worker"
  (`icap_server.py:366`). Hence the premise `PeersFinish` of `ConnectionsEnd`.
* Nobody calls the cache's `invalidate` or `clear`, and its `max_size` is no bound,
  since only expired entries are removed (`squid_acl_helper.py:76-80`); a failed query is cached as "not blocked";
  a bare id, or `/api/check` without a channel id, skips the channel's tier.
* The setup installs the shell versions of redirector and helpers only; the shell
  redirector sends no `source`, and known-allowed videos are queued again at every
  navigation.
* The socket's "tight" 15 seconds (`icap_server.py:366-368`) are overridden by the
  handler's `timeout = 30` (185), and the pool "with backpressure" (351) has a queue
  without a bound.

Administration:

* Migrations: `with conn` opens no transaction before a statement that changes the
  schema (`db_migrations.py:290`), so a failure keeps the statements before it. The
  slower of two migrators may set the recorded version back. The `profiles` table of
  migration 3 differs from the one `profile_manager.py` makes.
* Bundles: an import is no transaction over its files; the database is replaced in
  place while threads have it open; an export misses commits that are in the log;
  the restart kills the process that answers.
* Snapshots: with `--cleanup-algorithm number` the factory snapshot may be cleaned up,
  a later create then captures another state as "factory", and an unreadable list is
  taken for an empty one.
* Profiles: `create` and `update` with `is_default` do not clear other defaults, and
  the default ignores `enabled`; a rule over midnight ends with the last listed day;
  `monitor_only` keeps a block limit the profile itself gives; the redirector and the
  service do not use profiles.
* Keywords: a full synchronisation takes a changed weight for no change; a torn file
  followed by a synchronisation overwrites the good backup; a rollback keeps the
  saved hash, so the next synchronisation does nothing; the wizard's file has another
  layout and is read as empty.
* Setup: after an uninstall the deny rules never come back while the wizard reports
  "Squid configured"; an uninstall removes the helper scripts a later setup needs,
  leaves the include line without its certificate, and says "All BrainrotFilter
  configuration removed" with NAT rules in place; two concurrent certificate
  creations may leave a key that does not match; `apply_squid_config.sh` removes
  nothing when its include is the last line, against "Remove the line we just
  added"; a request written between its copy and its removal is lost;
  `iptables-save` persists the state killer's temporary rules.
* Models: `record_new_override` is never called, so the retraining after ten
  overrides never comes; a torn stable file leaves the classifier untrained though
  whole versions exist; a second rollback without a name goes to the same version.
* Watchdog: the header's backoff (`watchdog.py:12-13`) is an hourly cap only, and a
  restart of the watchdog forgets it.

## 7. What is not modelled

* The signal and image processing, text matching and library calls inside the content
  analyzers and the ML classifier: numeric code without shared state. What they count
  is a record of the video; what the code makes of the counts is `ContentScores`.
* YouTube client, HTTP parsing, ICAP wire format, templates, console, packaging: I/O
  and presentation. The console is a menu for one person over system commands.
* In the modelled parts: logging, statistics and the progress text of a job,
  the conntrack deletion (which keeps no
  state in the program), the shell redirector and helpers, app blocking, network
  detection and package checks of the configurator, edits of schedule rules,
  submissions of keywords.

## 8. Running it

`tlc -config queue.cfg AnalysisQueue.tla`, and likewise `killer*` with `StateKiller`,
`shim_imported` with `ShimPipeline`, `store_recalculation` with `VideoStore`,
`service*` with `MCAnalyzerService`, and `pipeline`, `gateway`, `store` and
`administration` with the `MC` module of their name. The proofs are checked with
`tlapm AnalysisQueueProofs.tla` and likewise for the other `...Proofs` modules. The
longest run, `service_viewers`, visits 5.1 million states in about two minutes.

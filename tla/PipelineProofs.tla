----------------------------- MODULE PipelineProofs -----------------------------
(* For all videos and settings, whatever is late, fails or raises: no analyzer   *)
(* of the pipeline works on a directory that is gone, each ends with a score in   *)
(* range, no failure makes a video worse than what its analyzers found, and a     *)
(* download that is skipped would not have changed the verdict.                   *)
EXTENDS Pipeline, ScoringProofs

\* Where main is while the executor of the download exists.
WithPhase2 == {"thumbnail", "phase2", "leave2"}

\* Where the thread of phase 2 is while it has its directory, and while its pool exists.
Inside == {"download", "scene", "audio", "leave", "finally"}
PoolOpen == {"scene", "audio", "leave"}

TasksTyped == task \in [Tasks -> {"none", "running", "done"}]
PoolHolds == \A t \in Phase2Tasks : task[t] = "running" => second \in PoolOpen
InsideHasP2 == second \in Inside => "p2" \in dirs
ThumbnailBeside == task["thumbnail"] = "running" => main \in WithPhase2
SecondBeside == second \notin {"none", "done"} => main \in WithPhase2
MainHasP15 == main \in WithPhase2 => "p15" \in dirs

\* The with-blocks nest: a running analyzer is inside a pool, the pool inside the
\* thread that made the directory, and that thread inside the wait of the caller.
PoolsNest ==
  /\ TasksTyped /\ PoolHolds /\ InsideHasP2
  /\ ThumbnailBeside /\ SecondBeside /\ MainHasP15

\* What the caller's thread does before and after it has company.
LEMMA MainAlone ==
  ASSUME PoolsNest,
         \/ \E v \in Videos : Start(v)
         \/ FetchMetadata \/ Phase1Crashes \/ Collect1 \/ LeavePhase1
         \/ GlobalTimeout \/ SkipDownload \/ NoDirectory \/ FullResult
  PROVE  PoolsNest'
<1> USE DEF PoolsNest, TasksTyped, PoolHolds, InsideHasP2, ThumbnailBeside, SecondBeside,
            MainHasP15, WithPhase2, Inside, PoolOpen, Tasks, Phase1Tasks, Phase2Tasks
<1>1. ASSUME NEW v \in Videos, Start(v) PROVE PoolsNest'
  BY <1>1 DEF Start
<1>2. CASE FetchMetadata
  BY <1>2 DEF FetchMetadata
<1>3. CASE Phase1Crashes \/ LeavePhase1
  BY <1>3 DEF Phase1Crashes, LeavePhase1
<1>4. CASE Collect1
  <2>1. main \notin WithPhase2 /\ main' \notin WithPhase2
    BY <1>4 DEF Collect1, NextWait
  <2>2. UNCHANGED <<task, second, dirs>>
    BY <1>4 DEF Collect1
  <2> QED BY <2>1, <2>2
<1>5. CASE GlobalTimeout \/ SkipDownload \/ NoDirectory \/ FullResult
  <2>1. main \notin WithPhase2 /\ main' \notin WithPhase2
    BY <1>5 DEF GlobalTimeout, SkipDownload, NoDirectory, FullResult, Persist
  <2>2. UNCHANGED <<task, second, dirs>>
    BY <1>5 DEF GlobalTimeout, SkipDownload, NoDirectory, FullResult, Persist
  <2> QED BY <2>1, <2>2
<1> QED
  BY <1>1, <1>2, <1>3, <1>4, <1>5

\* The caller's thread beside phase 2: it makes p15 before it starts anybody, and
\* removes it when both threads have ended.
LEMMA MainBeside ==
  ASSUME PoolsNest, StartPhase2 \/ CollectThumbnail \/ CollectPhase2 \/ LeavePhase2
  PROVE  PoolsNest'
<1> USE DEF PoolsNest, TasksTyped, PoolHolds, InsideHasP2, ThumbnailBeside, SecondBeside,
            MainHasP15, WithPhase2, Inside, PoolOpen, Tasks, Phase1Tasks, Phase2Tasks
<1>1. CASE StartPhase2
  BY <1>1 DEF StartPhase2
<1>2. CASE CollectThumbnail \/ CollectPhase2
  BY <1>2 DEF CollectThumbnail, CollectPhase2
<1>3. CASE LeavePhase2
  BY <1>3 DEF LeavePhase2
<1> QED
  BY <1>1, <1>2, <1>3

\* The thread of phase 2: its finally comes after its pool, which waits for the late.
LEMMA SecondNests ==
  ASSUME PoolsNest, SecondStep
  PROVE  PoolsNest'
<1> USE DEF PoolsNest, TasksTyped, PoolHolds, InsideHasP2, ThumbnailBeside, SecondBeside,
            MainHasP15, WithPhase2, Inside, PoolOpen, Tasks, Phase1Tasks, Phase2Tasks
<1>1. CASE BeginPhase2
  BY <1>1 DEF BeginPhase2
<1>2. CASE Download \/ DownloadFails
  BY <1>2 DEF Download, DownloadFails
<1>3. CASE Collect2
  BY <1>3 DEF Collect2
<1>4. CASE LeavePool
  BY <1>4 DEF LeavePool, Running
<1>5. CASE RemoveP2
  BY <1>5 DEF RemoveP2
<1> QED
  BY <1>1, <1>2, <1>3, <1>4, <1>5 DEF SecondStep

\* A running analyzer always has its directory: phase 2's time-outs leave threads
\* behind, and neither its finally nor the caller's with-block removes what they read.
THEOREM FilesOutliveExtractors == Spec => []ExtractorsHaveTheirFile
<1>1. Init => PoolsNest
  BY DEF Init, PoolsNest, TasksTyped, PoolHolds, InsideHasP2, ThumbnailBeside, SecondBeside,
         MainHasP15, WithPhase2, Inside, PoolOpen, Tasks, Phase1Tasks, Phase2Tasks
<1>2. ASSUME PoolsNest, [Next]_vars PROVE PoolsNest'
  <2>1. ASSUME NEW t \in Tasks, TaskEnds(t) PROVE PoolsNest'
    BY <1>2, <2>1 DEF TaskEnds, PoolsNest, TasksTyped, PoolHolds, InsideHasP2, ThumbnailBeside,
                      SecondBeside, MainHasP15, Tasks, Phase1Tasks, Phase2Tasks
  <2>2. CASE ChangeSettings \/ UNCHANGED vars
    BY <1>2, <2>2 DEF ChangeSettings, vars, PoolsNest, TasksTyped, PoolHolds, InsideHasP2,
                      ThumbnailBeside, SecondBeside, MainHasP15
  <2> QED
    BY <1>2, <2>1, <2>2, MainAlone, MainBeside, SecondNests DEF Next, MainStep
<1>3. PoolsNest => ExtractorsHaveTheirFile
  BY DEF PoolsNest, PoolHolds, InsideHasP2, ThumbnailBeside, MainHasP15, ExtractorsHaveTheirFile,
         Running, Inside, PoolOpen, Phase2Tasks
<1> QED
  BY <1>1, <1>2, <1>3, PTL DEF Spec

-----------------------------------------------------------------------------
\* Whatever an analyzer counts, in any number, and whatever the weights it reads from the
\* settings: it ends with a score of 0 .. 100 points, or with none.
THEOREM AnalyzersStayInRange ==
  ASSUME NEW t \in Tasks, NEW v \in Videos, NEW m \in BOOLEAN, NEW s \in Settings
  PROVE  Findings(t, v, m, s) \subseteq 0 .. Full
<1>1. 0 \in 0 .. Full
  BY DEF Full
<1>2. /\ IsEvidence(v)
      /\ {s.audio.loudness, s.audio.chaos, s.audio.nlp} \subseteq Int
      /\ v.category = "10" => s.music \in 0 .. 100
  BY PipelineAssumption
<1>3. Music(v, m) \in BOOLEAN /\ (Music(v, m) => s.music \in 0 .. 100)
  BY <1>2 DEF Music
<1>4. KeywordScore(Texts(v, m), Music(v, m)) \in 0 .. Full
  <2> DEFINE kept == {k \in DOMAIN v.texts : m \/ k = "captions"}
  <2>1. IsFiniteSet(DOMAIN v.texts) /\ \A c \in DOMAIN v.texts : IsText(v.texts[c])
    BY <1>2 DEF IsEvidence, IsTexts
  <2>2. kept \subseteq DOMAIN v.texts
    OBVIOUS
  <2>3. IsFiniteSet(kept)
    BY Zenon, <2>1, <2>2, FS_Subset
  <2>4. Texts(v, m) = [c \in kept |-> v.texts[c]]
    BY Zenon DEF Texts
  <2> HIDE DEF kept
  <2>5. IsTexts(Texts(v, m))
    BY <2>1, <2>2, <2>3, <2>4 DEF IsTexts
  <2> QED  BY <1>3, <2>5, KeywordsInRange
<1>5. CommentScore(v.comments) \in 0 .. Full
  BY <1>2, CommentsInRange DEF IsEvidence
<1>6. EngagementFound(v, m) \in 0 .. Full
  <2>1. AreFigures(NoFigures) /\ NoFigures.bait \in SUBSET DOMAIN BaitPoints
    BY DEF AreFigures, NoFigures
  <2>2. AreFigures(v.figures) /\ v.figures.bait \in SUBSET DOMAIN BaitPoints
    BY <1>2 DEF IsEvidence
  <2>3. EngagementScore(NoFigures) \in 0 .. Full
    BY <2>1, BaitIsNatural, EngagementInRange
  <2>4. EngagementScore(v.figures) \in 0 .. Full
    BY <2>2, BaitIsNatural, EngagementInRange
  <2> QED  BY <2>3, <2>4 DEF EngagementFound
<1>7. ThumbnailFound(v, m) \subseteq 0 .. Full
  <2>1. ThumbnailScore(v.image) \in 0 .. Full
    BY <1>2, ThumbnailInRange DEF IsEvidence
  <2>2. OcrFallback(v.triggers) \in 0 .. Full
    BY <1>2, OcrInRange DEF IsEvidence
  <2> QED  BY <1>1, <2>1, <2>2 DEF ThumbnailFound
<1>8. SceneScore(v.scan, Music(v, m), s.music) \in 0 .. Full
  <2>1. v.scan.cuts \in Nat /\ v.scan.seconds \in Nat
    BY <1>2 DEF IsEvidence
  <2> QED  BY <1>3, <2>1, SceneInRange
<1>9. AudioScore(v.sound, s.audio) \in 0 .. Full
  BY <1>2, AudioInRange DEF IsEvidence
<1> QED
  BY <1>1, <1>4, <1>5, <1>6, <1>7, <1>8, <1>9 DEF Findings, ShortsFound, Tasks, Phase1Tasks,
     Phase2Tasks

-----------------------------------------------------------------------------
(* Nothing is collected that was not found. *)

Before == {"metadata", "leave", "check"} \cup Phase1Tasks

RunTyped ==
  /\ settings \in Settings /\ snap \in Settings /\ video \in Videos /\ meta \in BOOLEAN
  /\ main \in Before \cup WithPhase2 \cup {"idle", "persist"}
  /\ second \in Phase2Tasks \cup {"none", "begin", "download", "leave", "finally", "done"}
  /\ task \in [Tasks -> {"none", "running", "done"}]
  /\ found \in [Tasks -> Score] /\ got \in [Tasks -> Score]
  /\ heard \in [Phase2Tasks -> Score]

\* A thread has found something only once it is done.
FoundWhenDone == \A t \in Tasks : task[t] # "done" => found[t] = 0

\* No thread is started twice in a run, and before phase 2 nothing is collected of it.
NotStartedYet ==
  /\ main \in Before => second = "none" /\ task["thumbnail"] = "none"
  /\ main \in Before => \A t \in Phase2Tasks \cup {"thumbnail"} : got[t] = 0
  /\ main = "metadata" => \A t \in Tasks : task[t] = "none"
  /\ second \in {"none", "begin", "download"} => \A t \in Phase2Tasks : task[t] = "none"

SecondInside == second \in {"begin", "download"} \cup Phase2Tasks => main \in WithPhase2

Collections ==
  /\ \A t \in Tasks : got[t] <= found[t]
  /\ \A t \in Phase2Tasks : heard[t] <= found[t]

FoundInv == RunTyped /\ FoundWhenDone /\ NotStartedYet /\ SecondInside /\ Collections

\* A score is a number, zero the least, and what is collected of a thread is at most
\* what it found.
LEMMA CollectedFound ==
  ASSUME FoundInv, NEW t \in Tasks
  PROVE  Collected(t) \in Score /\ Collected(t) <= found[t]
<1>1. PICK x : x = found[t]  OBVIOUS
<1>2. x \in Score  BY <1>1 DEF FoundInv, RunTyped
<1>3. x \in Score /\ x <= x /\ 0 \in Score /\ 0 <= x
  BY SMT, <1>2 DEF Score, Ceiling
<1>4. Collected(t) \in {0, x}  BY <1>1 DEF Collected
<1> QED  BY <1>1, <1>3, <1>4

\* At first nothing is found and nothing collected.
LEMMA FoundFirst == Init => FoundInv
<1>1. 0 \in Score /\ 0 <= 0  BY SMT, ScoresAreNumbers
<1> QED
  BY <1>1 DEF Init, FoundInv, RunTyped, FoundWhenDone, NotStartedYet, SecondInside,
     Collections, Zeros, Unheard, Before, WithPhase2, Tasks, Phase1Tasks, Phase2Tasks

\* The start of a run clears what the last one left.
LEMMA FoundFromStart ==
  ASSUME FoundInv, NEW v \in Videos, Start(v)
  PROVE  FoundInv'
<1>1. 0 \in Score /\ 0 <= 0  BY SMT, ScoresAreNumbers
<1>2. /\ settings' = settings /\ snap' = settings /\ video' = v /\ meta' = FALSE
      /\ main' = "metadata" /\ second' = "none" /\ task' = [t \in Tasks |-> "none"]
      /\ found' = Zeros /\ got' = Zeros /\ heard' = Unheard
  BY DEF Start
<1>3. RunTyped'
  BY <1>1, <1>2 DEF FoundInv, RunTyped, Zeros, Unheard, Before
<1>4. /\ \A t \in Tasks : found'[t] = 0 /\ got'[t] = 0 /\ task'[t] = "none"
      /\ \A t \in Phase2Tasks : heard'[t] = 0 /\ t \in Tasks
  BY <1>2 DEF Zeros, Unheard, Tasks
<1>5. FoundWhenDone' /\ Collections'
  BY Zenon, <1>1, <1>4 DEF FoundWhenDone, Collections
<1>6. NotStartedYet' /\ SecondInside'
  BY <1>2, <1>4 DEF NotStartedYet, SecondInside, Tasks, Phase2Tasks
<1> QED
  BY <1>3, <1>5, <1>6 DEF FoundInv

\* Steps of main that neither start a thread nor collect a score.
LEMMA FoundOnTheWay ==
  ASSUME FoundInv,
         \/ Phase1Crashes \/ LeavePhase1 \/ LeavePhase2
         \/ GlobalTimeout \/ SkipDownload \/ NoDirectory \/ FullResult
  PROVE  FoundInv'
<1>1. UNCHANGED <<settings, snap, video, meta, task, found, second, heard, got>>
  BY DEF Phase1Crashes, LeavePhase1, LeavePhase2, GlobalTimeout, SkipDownload, NoDirectory,
         FullResult, Persist
<1>2. CASE Phase1Crashes \/ LeavePhase1
  <2>1. main \in Before /\ main' = "check"
    BY <1>2 DEF Phase1Crashes, LeavePhase1, Before
  <2> QED
    BY <1>1, <2>1 DEF FoundInv, RunTyped, FoundWhenDone, NotStartedYet, SecondInside,
                      Collections, Before, WithPhase2, Phase1Tasks, Phase2Tasks
<1>3. CASE LeavePhase2
  <2>1. main' = "persist" /\ second = "done"
    BY <1>3 DEF LeavePhase2
  <2> QED
    BY <1>1, <2>1 DEF FoundInv, RunTyped, FoundWhenDone, NotStartedYet, SecondInside,
                      Collections, Before, WithPhase2, Phase1Tasks, Phase2Tasks
<1>4. CASE GlobalTimeout \/ SkipDownload \/ NoDirectory \/ FullResult
  <2>1. main \in {"check", "persist"} /\ main' = "idle"
    BY <1>4 DEF GlobalTimeout, SkipDownload, NoDirectory, FullResult, Persist
  <2>2. second \notin {"begin", "download"} \cup Phase2Tasks
    BY <2>1 DEF FoundInv, SecondInside, WithPhase2
  <2> QED
    BY <1>1, <2>1, <2>2 DEF FoundInv, RunTyped, FoundWhenDone, NotStartedYet, SecondInside,
                      Collections, Before, WithPhase2, Phase1Tasks, Phase2Tasks
<1> QED
  BY <1>2, <1>3, <1>4

\* Steps that start threads: they have found nothing yet.
LEMMA FoundWhenStarted ==
  ASSUME FoundInv, FetchMetadata \/ StartPhase2 \/ Download
  PROVE  FoundInv'
<1> USE DEF FoundInv, RunTyped, FoundWhenDone, NotStartedYet, SecondInside,
            Collections, Before, WithPhase2, Tasks, Phase1Tasks, Phase2Tasks
<1>1. CASE FetchMetadata  BY <1>1 DEF FetchMetadata
<1>2. CASE StartPhase2  BY <1>2 DEF StartPhase2
<1>3. CASE Download  BY <1>3 DEF Download
<1> QED  BY <1>1, <1>2, <1>3

\* Steps that collect.
LEMMA FoundWhenCollected ==
  ASSUME FoundInv, Collect1 \/ CollectThumbnail \/ CollectPhase2 \/ Collect2
  PROVE  FoundInv'
<1>1. CASE Collect1
  <2> DEFINE x == Collected(main)
  <2>1. main \in Tasks /\ main \in Before
    BY <1>1 DEF Collect1, Before, Tasks
  <2>2. x \in Score /\ x <= found[main]
    BY <2>1, CollectedFound
  <2>3. main' \in Before \ {"metadata"}
    BY <1>1 DEF Collect1, NextWait, Before, Phase1Tasks
  <2>4. /\ got' = [got EXCEPT ![main] = x]
        /\ UNCHANGED <<settings, snap, video, meta, task, found, second, heard>>
    BY <1>1 DEF Collect1
  <2> HIDE DEF x
  <2> QED
    BY <2>1, <2>2, <2>3, <2>4 DEF FoundInv, RunTyped, FoundWhenDone, NotStartedYet,
       SecondInside, Collections, Before, WithPhase2, Phase1Tasks, Phase2Tasks
<1>2. CASE CollectThumbnail
  <2> DEFINE x == Collected("thumbnail")
  <2>1. "thumbnail" \in Tasks  BY DEF Tasks
  <2>2. x \in Score /\ x <= found["thumbnail"]
    BY <2>1, CollectedFound
  <2>3. /\ got' = [got EXCEPT !["thumbnail"] = x] /\ main' = "phase2"
        /\ UNCHANGED <<settings, snap, video, meta, task, found, second, heard>>
    BY <1>2 DEF CollectThumbnail
  <2> HIDE DEF x
  <2> QED
    BY <2>1, <2>2, <2>3 DEF FoundInv, RunTyped, FoundWhenDone, NotStartedYet,
       SecondInside, Collections, Before, WithPhase2, Phase1Tasks, Phase2Tasks
<1>3. CASE CollectPhase2
  <2>1. /\ \A t \in Tasks : got'[t] = got[t] \/ (t \in Phase2Tasks /\ got'[t] = heard[t])
        /\ got' \in [Tasks -> Score]
    BY <1>3 DEF CollectPhase2, FoundInv, RunTyped
  <2>2. /\ main' = "leave2"
        /\ UNCHANGED <<settings, snap, video, meta, task, found, second, heard>>
    BY <1>3 DEF CollectPhase2
  <2> QED
    BY <2>1, <2>2 DEF FoundInv, RunTyped, FoundWhenDone, NotStartedYet,
       SecondInside, Collections, Before, WithPhase2, Phase1Tasks, Phase2Tasks
<1>4. CASE Collect2
  <2> DEFINE x == Collected(second)
  <2>1. second \in Phase2Tasks /\ second \in Tasks
    BY <1>4 DEF Collect2, Tasks
  <2>2. x \in Score /\ x <= found[second]
    BY <2>1, CollectedFound
  <2>3. /\ heard' = [heard EXCEPT ![second] = x] /\ second' \in {"audio", "leave"}
        /\ UNCHANGED <<settings, snap, video, meta, main, task, found, got>>
    BY <1>4 DEF Collect2
  <2>4. main \in WithPhase2
    BY <2>1 DEF FoundInv, SecondInside
  <2> HIDE DEF x
  <2> QED
    BY <2>1, <2>2, <2>3, <2>4 DEF FoundInv, RunTyped, FoundWhenDone, NotStartedYet,
       SecondInside, Collections, Before, WithPhase2, Phase1Tasks, Phase2Tasks
<1> QED
  BY <1>1, <1>2, <1>3, <1>4

\* Steps of phase 2 that only move it.
LEMMA FoundInside ==
  ASSUME FoundInv, BeginPhase2 \/ DownloadFails \/ LeavePool \/ RemoveP2
  PROVE  FoundInv'
<1>1. /\ UNCHANGED <<settings, snap, video, meta, main, task, found, heard, got>>
      /\ second' \in {"download", "finally", "done"}
      /\ second' = "download" => second = "begin"
      /\ second # "none"
  BY DEF BeginPhase2, DownloadFails, LeavePool, RemoveP2
<1> QED
  BY <1>1 DEF FoundInv, RunTyped, FoundWhenDone, NotStartedYet,
     SecondInside, Collections, Before, WithPhase2, Phase1Tasks, Phase2Tasks

\* A thread that ends replaces its zero by what it found.
LEMMA FoundWhenEnded ==
  ASSUME FoundInv, NEW t \in Tasks, TaskEnds(t)
  PROVE  FoundInv'
<1>1. PICK x \in Findings(t, video, meta, settings) : found' = [found EXCEPT ![t] = x]
  BY DEF TaskEnds
<1>2. x \in Score
  <2>1. video \in Videos /\ meta \in BOOLEAN /\ settings \in Settings
    BY DEF FoundInv, RunTyped
  <2>2. Findings(t, video, meta, settings) \subseteq 0 .. Full
    BY Zenon, <2>1, AnalyzersStayInRange
  <2>3. 0 .. Full = Score
    BY DEF Full, Score, Ceiling
  <2> QED  BY Zenon, <1>1, <2>2, <2>3
<1>3. /\ task[t] = "running" /\ task' = [task EXCEPT ![t] = "done"]
      /\ UNCHANGED <<settings, snap, video, meta, main, second, heard, got>>
  BY DEF TaskEnds, Running
<1>4. found[t] = 0 /\ found[t] <= x
  BY <1>2, <1>3, ScoresAreNumbers DEF FoundInv, FoundWhenDone
<1>5. \A u \in Tasks : found[u] <= found'[u]
  <2>1. \A u \in Tasks : found[u] \in Nat
    BY ScoresAreNumbers DEF FoundInv, RunTyped
  <2> QED  BY SMT, <1>1, <1>4, <2>1 DEF FoundInv, RunTyped
<1>6. Collections'
  <2>1. /\ found' \in [Tasks -> Score] /\ got \in [Tasks -> Score]
        /\ heard \in [Phase2Tasks -> Score] /\ found \in [Tasks -> Score]
    BY <1>1, <1>2 DEF FoundInv, RunTyped
  <2>2. \A u \in Tasks : found[u] \in Nat /\ found'[u] \in Nat /\ got[u] \in Nat
    BY <2>1, ScoresAreNumbers
  <2>3. \A u \in Phase2Tasks : heard[u] \in Nat /\ u \in Tasks
    BY <2>1, ScoresAreNumbers DEF Tasks
  <2> QED
    BY SMT, <1>3, <1>5, <2>2, <2>3 DEF FoundInv, Collections
<1>7. NotStartedYet'
  <2>1. /\ main \in Before => t # "thumbnail"
        /\ main # "metadata"
        /\ second \in {"none", "begin", "download"} => t \notin Phase2Tasks
    BY <1>3 DEF FoundInv, NotStartedYet
  <2> QED  BY <1>3, <2>1 DEF FoundInv, RunTyped, NotStartedYet, Tasks, Phase2Tasks
<1>8. (RunTyped /\ FoundWhenDone /\ SecondInside)'
  BY <1>1, <1>2, <1>3 DEF FoundInv, RunTyped, FoundWhenDone, SecondInside
<1> QED
  BY <1>6, <1>7, <1>8 DEF FoundInv

LEMMA FoundStep == FoundInv /\ [Next]_vars => FoundInv'
<1> SUFFICES ASSUME FoundInv, [Next]_vars PROVE FoundInv'  OBVIOUS
<1>1. CASE ChangeSettings \/ UNCHANGED vars
  BY <1>1 DEF ChangeSettings, vars, FoundInv, RunTyped, FoundWhenDone, NotStartedYet,
     SecondInside, Collections
<1> QED
  BY <1>1, FoundFromStart, FoundOnTheWay, FoundWhenStarted, FoundWhenCollected, FoundInside,
     FoundWhenEnded DEF Next, MainStep, SecondStep

\* What a run stores is bounded by what its analyzers found.
LEMMA StoredIsBounded ==
  ASSUME FoundInv, [Next]_vars, stored' # stored
  PROVE  stored'.combined <= Combined(snap, [p \in Parts |-> found[p]], found["shorts"])
<1> DEFINE F == [p \in Parts |-> found[p]]
           bound == Combined(snap, F, found["shorts"])
<1>1. /\ F \in [Parts -> Score] /\ Scores \in [Parts -> Score] /\ Below(Scores, F)
  BY DEF FoundInv, RunTyped, Collections, Scores, Below, Parts, Tasks, Phase1Tasks, Phase2Tasks
<1>2. /\ got["shorts"] \in Nat /\ found["shorts"] \in Nat /\ got["shorts"] <= found["shorts"]
  BY ScoresAreNumbers DEF FoundInv, RunTyped, Collections, Tasks, Phase1Tasks
<1>3. snap.weight \in [Parts -> Nat] /\ snap.others \in Nat
  BY PipelineAssumption DEF FoundInv, RunTyped
<1>4. /\ bound \in Score
      /\ Combined(snap, Scores, got["shorts"]) <= bound
  BY Zenon, <1>1, <1>2, <1>3, CombinedGrows
<1>5. CASE \E v \in Videos : Start(v)
  <2>1. stored'.combined = 0  BY <1>5 DEF Start, NotStored
  <2> QED  BY <1>4, <2>1, ScoresAreNumbers
<1>6. CASE GlobalTimeout \/ SkipDownload \/ FullResult
  <2>1. stored'.combined = Combined(snap, Scores, got["shorts"])
    BY <1>6 DEF GlobalTimeout, SkipDownload, FullResult, Persist
  <2> QED  BY <1>4, <2>1
<1> QED
  BY <1>5, <1>6 DEF Next, MainStep, SecondStep, FetchMetadata, Phase1Crashes, Collect1,
     LeavePhase1, StartPhase2, NoDirectory, CollectThumbnail, CollectPhase2, LeavePhase2,
     BeginPhase2, Download, DownloadFails, Collect2, LeavePool, RemoveP2, TaskEnds,
     ChangeSettings, vars

\* The filter fails open for any weights: whatever is late or fails, the stored score of
\* a run never exceeds the combination of what its analyzers found.
THEOREM FailuresNeverRaise == Spec => FailureNeverRaises
<1>1. Init => FoundInv
  BY FoundFirst
<1>2. FoundInv /\ [Next]_vars => FoundInv'
  BY FoundStep
<1>3. FoundInv /\ [Next]_vars =>
        [stored' # stored =>
          stored'.combined <= Combined(snap, [p \in Parts |-> found[p]], found["shorts"])]_vars
  BY StoredIsBounded
<1> QED
  BY <1>1, <1>2, <1>3, PTL DEF Spec, FailureNeverRaises

-----------------------------------------------------------------------------
(* The types, and the range of what is stored. *)

StoredType ==
  [exit : {"none", "full", "skip", "timeout"}, combined : 0 .. Full,
   status : {"pending", "allow", "monitor", "soft_block", "block"}]

\* A verdict, of whatever settings, is one of the four a video is judged by.
LEMMA VerdictTyped ==
  ASSUME NEW s, NEW x
  PROVE  Verdict(s, x) \in {"allow", "monitor", "soft_block", "block"}
  BY DEF Verdict

\* What main stores at the end of a run is within the points of a score, since clamping
\* comes after the bonus and rounding after clamping.
LEMMA StoredTyped ==
  ASSUME FoundInv, stored \in StoredType, [Next]_vars
  PROVE  stored' \in StoredType
<1>1. CASE \E v \in Videos : Start(v)
  BY <1>1, ScoresAreNumbers DEF Start, NotStored, StoredType, Full, Ceiling, Score
<1>2. ASSUME NEW exit \in {"full", "skip", "timeout"}, Persist(exit)
      PROVE  stored' \in StoredType
  <2> DEFINE x == Combined(snap, Scores, got["shorts"])
  <2>1. Scores \in [Parts -> Score] /\ Below(Scores, Scores)
    <3>1. Scores \in [Parts -> Score]
      BY DEF FoundInv, RunTyped, Scores, Parts, Tasks, Phase1Tasks, Phase2Tasks
    <3>2. \A y \in Parts : Scores[y] \in Nat
      BY <3>1, ScoresAreNumbers
    <3> QED  BY SMT, <3>1, <3>2 DEF Below
  <2>2. got["shorts"] \in Nat /\ got["shorts"] <= got["shorts"]
    <3>1. got["shorts"] \in Score
      BY DEF FoundInv, RunTyped, Tasks, Phase1Tasks
    <3> QED  BY SMT, <3>1, ScoresAreNumbers
  <2>3. snap.weight \in [Parts -> Nat] /\ snap.others \in Nat
    BY PipelineAssumption DEF FoundInv, RunTyped
  <2>4. x \in Score
    BY Zenon, <2>1, <2>2, <2>3, CombinedGrows
  <2>5. \/ stored' = [exit |-> exit, combined |-> x, status |-> Verdict(settings, x)]
        \/ stored' = stored
    BY <1>2 DEF Persist
  <2> HIDE DEF x
  <2>6. x \in 0 .. Full
    BY <2>4 DEF Full, Score, Ceiling
  <2>7. CASE stored' = stored
    BY <2>7
  <2>8. CASE stored' = [exit |-> exit, combined |-> x, status |-> Verdict(settings, x)]
    <3>1. PICK verdict \in {"allow", "monitor", "soft_block", "block"} :
             verdict = Verdict(settings, x)
      BY VerdictTyped
    <3>2. exit \in {"none", "full", "skip", "timeout"}
      BY <1>2
    <3> QED  BY <2>6, <2>8, <3>1, <3>2 DEF StoredType
  <2> QED
    BY <2>5, <2>7, <2>8
<1>3. CASE GlobalTimeout \/ SkipDownload \/ FullResult
  BY <1>2, <1>3 DEF GlobalTimeout, SkipDownload, FullResult
<1>4. CASE UNCHANGED stored
  BY <1>4
<1> QED
  BY <1>1, <1>3, <1>4 DEF Next, MainStep, SecondStep, FetchMetadata, Phase1Crashes, Collect1,
     LeavePhase1, StartPhase2, NoDirectory, CollectThumbnail, CollectPhase2, LeavePhase2,
     BeginPhase2, Download, DownloadFails, Collect2, LeavePool, RemoveP2, TaskEnds,
     ChangeSettings, vars

\* There are two temporary directories, the thumbnail's and that of phase 2.
LEMMA DirsTyped ==
  ASSUME dirs \subseteq {"p15", "p2"}, [Next]_vars
  PROVE  dirs' \subseteq {"p15", "p2"}
<1>1. CASE UNCHANGED dirs
  BY <1>1
<1>2. CASE StartPhase2 \/ LeavePhase2 \/ BeginPhase2 \/ RemoveP2
  BY <1>2 DEF StartPhase2, LeavePhase2, BeginPhase2, RemoveP2
<1> QED
  BY <1>1, <1>2 DEF Next, MainStep, SecondStep, Start, FetchMetadata, Phase1Crashes, Collect1,
     LeavePhase1, GlobalTimeout, SkipDownload, NoDirectory, CollectThumbnail, CollectPhase2,
     FullResult, Persist, Download, DownloadFails, Collect2, LeavePool, TaskEnds,
     ChangeSettings, vars

\* Whatever the weights, the bonus and the settings that change during a run, every score
\* that is found, collected, combined and stored stays within 0 .. 100 points.
THEOREM PipelineTypeCorrect == Spec => []PipelineTypeOK
<1> DEFINE TypeInv == FoundInv /\ stored \in StoredType /\ dirs \subseteq {"p15", "p2"}
<1>1. Init => TypeInv
  <2>1. ASSUME Init PROVE stored \in StoredType /\ dirs \subseteq {"p15", "p2"}
    BY <2>1 DEF Init, NotStored, StoredType, Full
  <2> QED  BY <2>1, FoundFirst
<1>2. TypeInv /\ [Next]_vars => TypeInv'
  BY FoundStep, StoredTyped, DirsTyped
<1>3. TypeInv => PipelineTypeOK
  <2>1. Score = 0 .. Full
    BY DEF Score, Full, Ceiling
  <2> QED
    BY <2>1 DEF FoundInv, RunTyped, PipelineTypeOK, StoredType, Before, WithPhase2
<1> HIDE DEF TypeInv
<1> QED
  BY <1>1, <1>2, <1>3, PTL DEF Spec

-----------------------------------------------------------------------------
\* Where nothing of the download is collected, "no download" is the scores as they are.
LEMMA NothingOfTheDownload ==
  ASSUME FoundInv, main \in Before
  PROVE  /\ Scores \in [Parts -> Score]
         /\ WithDownload(Scores, NoDownload) = Scores
<1>1. Scores \in [Parts -> Score]
  BY DEF FoundInv, RunTyped, Scores, Parts, Tasks, Phase1Tasks, Phase2Tasks
<1>2. Scores["scene"] = 0 /\ Scores["audio"] = 0 /\ Scores["thumbnail"] = 0
  BY DEF FoundInv, NotStartedYet, Scores, Parts, Phase2Tasks
<1> QED
  BY <1>1, <1>2 DEF WithDownload, NoDownload, Parts

\* What the two theorems about the conditions of the exit say of the run that takes it.
LEMMA ExitAgrees ==
  ASSUME FoundInv, SkipDownload, stored' # stored, settings = snap, SoundLimits(snap),
         NEW d \in DownloadType
  PROVE  \/ Verdict(settings, Combined(snap, WithDownload(Scores, d), got["shorts"])) = stored'.status
         \/ Combined(snap, WithDownload(Scores, d), got["shorts"]) = snap.monitor
<1>1. main \in Before
  BY DEF SkipDownload, Before
<1>2. PICK s, p, c, m : s = snap /\ p = Scores /\ c = got["shorts"] /\ m = s.monitor
  OBVIOUS
<1>3. IsSettings(s) /\ SoundLimits(s)
  BY <1>2, PipelineAssumption DEF FoundInv, RunTyped, IsSettings
<1>4. p \in [Parts -> Score] /\ WithDownload(p, NoDownload) = p
  BY <1>1, <1>2, NothingOfTheDownload
<1>5. c \in Nat
  <2>1. got["shorts"] \in Score
    BY DEF FoundInv, RunTyped, Tasks, Phase1Tasks
  <2> QED  BY <1>2, <2>1, ScoresAreNumbers
<1> DEFINE x == Combined(s, p, c)
           y == Combined(s, WithDownload(p, d), c)
<1>6. stored'.status = Verdict(s, x)
  BY <1>2 DEF SkipDownload, Persist
<1>7. CertainBlock(s, p, c) \/ CertainAllow(s, p, c)
  BY <1>2 DEF SkipDownload, CanSkipDownload
<1>8. NoDownload \in DownloadType
  BY ScoresAreNumbers DEF NoDownload, DownloadType
<1>9. CASE CertainBlock(s, p, c)
  <2>1. Verdict(s, x) = "block" /\ Verdict(s, y) = "block"
    <3>1. Verdict(s, y) = "block"
      BY Zenon, <1>3, <1>4, <1>5, <1>9, BlockIsCertain
    <3>2. Verdict(s, Combined(s, WithDownload(p, NoDownload), c)) = "block"
      BY Zenon, <1>3, <1>4, <1>5, <1>8, <1>9, BlockIsCertain
    <3> QED  BY <1>4, <3>1, <3>2
  <2> QED  BY <1>2, <1>6, <2>1
<1>10. CASE CertainAllow(s, p, c)
  <2>1. Verdict(s, y) = "allow" \/ y = m
    BY Zenon, <1>2, <1>3, <1>4, <1>5, <1>10, AllowIsCertain
  <2>2. Verdict(s, x) = "allow" \/ x = m
    <3>1. \/ Verdict(s, Combined(s, WithDownload(p, NoDownload), c)) = "allow"
          \/ Combined(s, WithDownload(p, NoDownload), c) = s.monitor
      BY Zenon, <1>3, <1>4, <1>5, <1>8, <1>10, AllowIsCertain
    <3> QED  BY <1>2, <1>4, <3>1
  <2>3. x <= y
    <3>1. Below(p, WithDownload(p, d)) /\ WithDownload(p, d) \in [Parts -> Score]
      BY <1>4, DownloadBetween
    <3>2. s.weight \in [Parts -> Nat] /\ s.others \in Nat /\ c <= c
      BY SMT, <1>3, <1>5 DEF IsSettings
    <3> QED  BY Zenon, <1>4, <1>5, <3>1, <3>2, CombinedGrows
  <2>4. Verdict(s, y) = "allow" => ~(y >= m)
    BY <1>2, <1>3 DEF Verdict, SoundLimits
  <2>5. y # m => Verdict(s, x) = Verdict(s, y)
    <3> HIDE DEF x, y
    <3> QED  BY <2>1, <2>2, <2>3, <2>4
  <2> QED  BY <1>2, <1>6, <2>5
<1> QED
  BY <1>7, <1>9, <1>10

\* The early exit of _can_skip_download() never decides what the complete analysis
\* would have decided otherwise, for any weights and any limits that are whole and in
\* order; TLC's instances of the property are the extreme downloads.
THEOREM SkippedDownloadAgrees == Spec => EarlyExitAgrees
<1>1. Init => FoundInv
  BY FoundFirst
<1>2. FoundInv /\ [Next]_vars => FoundInv'
  BY FoundStep
<1>3. ASSUME FoundInv, [Next]_vars, main = "check", stored' # stored, stored'.exit = "skip",
             settings = snap, SoundLimits(snap),
             NEW d \in [scene : {0, Full}, audio : {0, Full}, thumbnail : {0, Full}]
      PROVE  \/ Verdict(settings, Combined(snap, WithDownload(Scores, d), got["shorts"])) = stored'.status
             \/ Combined(snap, WithDownload(Scores, d), got["shorts"]) = snap.monitor
  <2>1. SkipDownload
    BY <1>3 DEF Next, MainStep, SecondStep, Start, FetchMetadata, Phase1Crashes, Collect1,
       LeavePhase1, GlobalTimeout, StartPhase2, NoDirectory, CollectThumbnail, CollectPhase2,
       LeavePhase2, FullResult, BeginPhase2, Download, DownloadFails, Collect2, LeavePool,
       RemoveP2, TaskEnds, ChangeSettings, vars, Persist, Phase1Tasks
  <2>2. d \in DownloadType
    BY ScoresAreNumbers DEF DownloadType, Full, Ceiling
  <2> QED  BY <1>3, <2>1, <2>2, ExitAgrees
<1>4. FoundInv /\ [Next]_vars =>
        [(main = "check" /\ stored' # stored /\ stored'.exit = "skip"
            /\ settings = snap /\ SoundLimits(snap)) =>
         \A d \in [scene : {0, Full}, audio : {0, Full}, thumbnail : {0, Full}] :
           LET complete == Combined(snap, WithDownload(Scores, d), got["shorts"])
           IN  Verdict(settings, complete) = stored'.status \/ complete = snap.monitor]_vars
  BY <1>3
<1> QED
  BY <1>1, <1>2, <1>4, PTL DEF Spec, EarlyExitAgrees

=================================================================================

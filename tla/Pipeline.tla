-------------------------------- MODULE Pipeline --------------------------------
(***************************************************************************)
(* parallel_analyze() of one video after another, under settings that an   *)
(* administrator changes meanwhile.  The thread of the call ("main") runs  *)
(* phase 1 in a pool of threads, tries to skip the download, and runs the  *)
(* thumbnail's analysis beside phase 2, which downloads the video once and *)
(* runs the scene and the audio analyzer on the file in a pool of its own. *)
(*                                                                         *)
(* A time-out cancels nothing: main takes a zero for the late result, and  *)
(* waits for the late thread when it leaves the pool's with-block.         *)
(***************************************************************************)
EXTENDS ContentScores, Scoring

CONSTANTS
  Videos,     \* records of the evidence a video holds for each analyzer
  Settings    \* records of the settings: Scoring's, and those of the analyzers

Phase1Tasks == {"keyword", "comment", "engagement", "shorts"}
Phase2Tasks == {"scene", "audio"}
Tasks == Phase1Tasks \cup Phase2Tasks \cup {"thumbnail"}

VARIABLES
  settings,   \* config, as the administrator last saved it
  snap,       \* the _ConfigSnapshot of the run
  video,      \* the video under analysis
  meta,       \* get_video_details() returned a record
  main,       \* what the calling thread waits for or does next
  task,       \* Tasks -> the analyzer's thread: none, running or done
  found,      \* the score that thread ended with
  second,     \* where the thread of phase 2 is
  heard,      \* the scores that thread has collected
  got,        \* the scores main has collected
  dirs,       \* the temporary directories that exist
  stored      \* what upsert_video() has stored of the run

vars == <<settings, snap, video, meta, main, task, found, second, heard, got, dirs, stored>>

Zeros == [t \in Tasks |-> 0]
NotStored == [exit |-> "none", combined |-> 0, status |-> "pending"]
Unheard == [t \in Phase2Tasks |-> 0]

Init ==
  /\ settings \in Settings /\ snap = settings
  /\ video \in Videos /\ meta = FALSE
  /\ main = "idle" /\ second = "none"
  /\ task = [t \in Tasks |-> "none"]
  /\ found = Zeros /\ heard = Unheard /\ got = Zeros
  /\ dirs = {}
  /\ stored = NotStored

-----------------------------------------------------------------------------
(* What the analyzers make of video v, with its metadata (m) or without, under the *)
(* settings s.  yt-dlp gives the name of a category, never the number the dampening *)
(* asks for.                                                                        *)

Music(v, m) == m /\ v.category = "10"

\* Captions are fetched by the video's id; the other texts come with the metadata.
Texts(v, m) == [c \in {k \in DOMAIN v.texts : m \/ k = "captions"} |-> v.texts[c]]

NoFigures == [views |-> 0, days |-> 0, magnitude |-> 0, likes |-> 0, comments |-> 0,
              seconds |-> 0, bait |-> {}]

EngagementFound(v, m) == EngagementScore(IF m THEN v.figures ELSE NoFigures)

\* shorts_detector has no detect(): the AttributeError makes a bonus of zero.
ShortsFound == 0

\* _phase1_5_thumbnail_analysis(): no address, no score; the fallback after an exception.
ThumbnailFound(v, m) ==
  IF m THEN {ThumbnailScore(v.image), OcrFallback(v.triggers)} ELSE {0}

\* What a thread may end with; an analyzer that raises is a zero.
Findings(t, v, m, s) ==
  {0} \cup
  CASE t = "keyword"    -> {KeywordScore(Texts(v, m), Music(v, m))}
    [] t = "comment"    -> {CommentScore(v.comments)}
    [] t = "engagement" -> {EngagementFound(v, m)}
    [] t = "shorts"     -> {ShortsFound}
    [] t = "thumbnail"  -> ThumbnailFound(v, m)
    [] t = "scene"      -> {SceneScore(v.scan, Music(v, m), s.music)}
    [] t = "audio"      -> {AudioScore(v.sound, s.audio)}

\* What a video may hold for the analyzers.
IsEvidence(v) ==
  /\ IsTexts(v.texts) /\ AreComments(v.comments) /\ AreFigures(v.figures) /\ IsImage(v.image)
  /\ v.figures.bait \subseteq DOMAIN BaitPoints
  /\ {v.triggers, v.scan.cuts, v.scan.seconds} \subseteq Nat
  /\ IsSound(v.sound)

\* Weights and limits that are no negative numbers, and factors that are at most one; the
\* scene analyzer's is never read unless a video has the category it asks for.
ASSUME PipelineAssumption ==
  /\ \A v \in Videos : IsEvidence(v)
  /\ \A s \in Settings :
       /\ s.weight \in [Parts -> Nat] /\ s.others \in 0 .. 100
       /\ s.monitor \in Nat /\ s.soft \in Nat /\ s.block \in Nat
       /\ {s.audio.loudness, s.audio.chaos, s.audio.nlp} \subseteq Int
  /\ \A v \in Videos, s \in Settings : v.category = "10" => s.music \in 0 .. 100

Running == {t \in Tasks : task[t] = "running"}

TaskEnds(t) ==
  /\ t \in Running
  /\ task' = [task EXCEPT ![t] = "done"]
  /\ \E x \in Findings(t, video, meta, settings) : found' = [found EXCEPT ![t] = x]
  /\ UNCHANGED <<settings, snap, video, meta, main, second, heard, got, dirs, stored>>

\* A mistake: a late analyzer counts as if it had found the worst.
CollectedWorst(t) == IF task[t] = "done" THEN found[t] ELSE Full

\* result(timeout=...): the thread's score if it has ended, zero if it is late.
Collected(t) == IF task[t] = "done" THEN found[t] ELSE 0

-----------------------------------------------------------------------------
(* Phase 1. *)

Start(v) ==
  /\ main = "idle"
  /\ video' = v /\ snap' = settings /\ meta' = FALSE
  /\ task' = [t \in Tasks |-> "none"]
  /\ found' = Zeros /\ heard' = Unheard /\ got' = Zeros
  /\ second' = "none" /\ main' = "metadata"
  /\ stored' = NotStored
  /\ UNCHANGED <<settings, dirs>>

\* The metadata has no time-out; without it the four analyzers run all the same.
FetchMetadata ==
  /\ main = "metadata"
  /\ meta' \in BOOLEAN
  /\ task' = [t \in Tasks |-> IF t \in Phase1Tasks THEN "running" ELSE "none"]
  /\ main' = "keyword"
  /\ UNCHANGED <<settings, snap, video, found, second, heard, got, dirs, stored>>

\* An exception of phase 1 itself: the run goes on with nothing in hand.
Phase1Crashes ==
  /\ main = "metadata"
  /\ main' = "check"
  /\ UNCHANGED <<settings, snap, video, meta, task, found, second, heard, got, dirs, stored>>

NextWait == [keyword |-> "comment", comment |-> "engagement", engagement |-> "shorts",
             shorts |-> "leave"]

Collect1 ==
  /\ main \in Phase1Tasks
  /\ got' = [got EXCEPT ![main] = Collected(main)]
  /\ main' = NextWait[main]
  /\ UNCHANGED <<settings, snap, video, meta, task, found, second, heard, dirs, stored>>

LeavePhase1 ==
  /\ main = "leave"
  /\ Running = {}
  /\ main' = "check"
  /\ UNCHANGED <<settings, snap, video, meta, task, found, second, heard, got, dirs, stored>>

-----------------------------------------------------------------------------
(* The decision, and the two threads it may start. *)

Scores == [p \in Parts |-> got[p]]

\* _persist_result(): scores combined by the snapshot, judged by the settings of now.
\* A refused upsert ends the run with nothing stored.
Persist(exit) ==
  /\ LET combined == Combined(snap, Scores, got["shorts"])
     IN  \/ stored' = [exit |-> exit, combined |-> combined,
                       status |-> Verdict(settings, combined)]
         \/ stored' = stored
  /\ main' = "idle"
  /\ UNCHANGED <<settings, snap, video, meta, task, found, second, heard, got, dirs>>

GlobalTimeout == main = "check" /\ Persist("timeout")

SkipDownload ==
  /\ main = "check"
  /\ CanSkipDownload(snap, Scores, got["shorts"])
  /\ Persist("skip")

StartPhase2 ==
  /\ main = "check"
  /\ ~CanSkipDownload(snap, Scores, got["shorts"])
  /\ dirs' = dirs \cup {"p15"}
  /\ task' = [task EXCEPT !["thumbnail"] = "running"]
  /\ second' = "begin"
  /\ main' = "thumbnail"
  /\ UNCHANGED <<settings, snap, video, meta, found, heard, got, stored>>

\* mkdtemp() raises before the try: the run ends, nothing is stored.
NoDirectory ==
  /\ main = "check"
  /\ ~CanSkipDownload(snap, Scores, got["shorts"])
  /\ main' = "idle"
  /\ UNCHANGED <<settings, snap, video, meta, task, found, second, heard, got, dirs, stored>>

CollectThumbnail ==
  /\ main = "thumbnail"
  /\ got' = [got EXCEPT !["thumbnail"] = Collected("thumbnail")]
  /\ main' = "phase2"
  /\ UNCHANGED <<settings, snap, video, meta, task, found, second, heard, dirs, stored>>

\* Phase 2 in time, or a zero for each of its scores.
CollectPhase2 ==
  /\ main = "phase2"
  /\ got' = [t \in Tasks |-> IF t \in Phase2Tasks /\ second = "done" THEN heard[t] ELSE got[t]]
  /\ main' = "leave2"
  /\ UNCHANGED <<settings, snap, video, meta, task, found, second, heard, dirs, stored>>

LeavePhase2 ==
  /\ main = "leave2"
  /\ task["thumbnail"] = "done" /\ second = "done"
  /\ dirs' = dirs \ {"p15"}
  /\ main' = "persist"
  /\ UNCHANGED <<settings, snap, video, meta, task, found, second, heard, got, stored>>

FullResult == main = "persist" /\ Persist("full")

-----------------------------------------------------------------------------
(* Phase 2, in its thread. *)

\* mkdtemp() may fail; the caller's wrapper then answers with zeros.
BeginPhase2 ==
  /\ second = "begin"
  /\ \/ dirs' = dirs \cup {"p2"} /\ second' = "download"
     \/ UNCHANGED dirs /\ second' = "done"
  /\ UNCHANGED <<settings, snap, video, meta, main, task, found, heard, got, stored>>

Download ==
  /\ second = "download"
  /\ task' = [task EXCEPT !["scene"] = "running", !["audio"] = "running"]
  /\ second' = "scene"
  /\ UNCHANGED <<settings, snap, video, meta, main, found, heard, got, dirs, stored>>

\* A mistake: a failed download returns past the finally.
DownloadFailsReturns ==
  /\ second = "download"
  /\ second' = "done"
  /\ UNCHANGED <<settings, snap, video, meta, main, task, found, heard, got, dirs, stored>>

DownloadFails ==
  /\ second = "download"
  /\ second' = "finally"
  /\ UNCHANGED <<settings, snap, video, meta, main, task, found, heard, got, dirs, stored>>

Collect2 ==
  /\ second \in Phase2Tasks
  /\ heard' = [heard EXCEPT ![second] = Collected(second)]
  /\ second' = IF second = "scene" THEN "audio" ELSE "leave"
  /\ UNCHANGED <<settings, snap, video, meta, main, task, found, got, dirs, stored>>

\* A mistake: the directory goes as soon as both scores are collected.
LeavePoolEarly ==
  /\ second = "leave"
  /\ second' = "finally"
  /\ UNCHANGED <<settings, snap, video, meta, main, task, found, heard, got, dirs, stored>>

LeavePool ==
  /\ second = "leave"
  /\ Running \cap Phase2Tasks = {}
  /\ second' = "finally"
  /\ UNCHANGED <<settings, snap, video, meta, main, task, found, heard, got, dirs, stored>>

RemoveP2 ==
  /\ second = "finally"
  /\ dirs' = dirs \ {"p2"}
  /\ second' = "done"
  /\ UNCHANGED <<settings, snap, video, meta, main, task, found, heard, got, stored>>

-----------------------------------------------------------------------------
ChangeSettings ==
  /\ settings' \in Settings \ {settings}
  /\ UNCHANGED <<snap, video, meta, main, task, found, second, heard, got, dirs, stored>>

MainStep ==
  \/ FetchMetadata \/ Phase1Crashes \/ Collect1 \/ LeavePhase1
  \/ GlobalTimeout \/ SkipDownload \/ StartPhase2 \/ NoDirectory
  \/ CollectThumbnail \/ CollectPhase2 \/ LeavePhase2 \/ FullResult

SecondStep == BeginPhase2 \/ Download \/ DownloadFails \/ Collect2 \/ LeavePool \/ RemoveP2

Next ==
  \/ \E v \in Videos : Start(v)
  \/ MainStep
  \/ SecondStep
  \/ \E t \in Tasks : TaskEnds(t)
  \/ ChangeSettings

\* Every wait of main and of phase 2 has a time-out or ends with a thread, and an
\* analyzer ends because its subprocesses have time-outs and its input an end.
Spec ==
  /\ Init /\ [][Next]_vars
  /\ WF_vars(MainStep) /\ WF_vars(SecondStep)
  /\ \A t \in Tasks : WF_vars(TaskEnds(t))

-----------------------------------------------------------------------------
\* The type invariant: all scores and combinations stay within 0 .. 100 points.
PipelineTypeOK ==
  /\ settings \in Settings /\ snap \in Settings /\ video \in Videos /\ meta \in BOOLEAN
  /\ main \in Phase1Tasks \cup {"idle", "metadata", "leave", "check", "thumbnail", "phase2",
                                "leave2", "persist"}
  /\ task \in [Tasks -> {"none", "running", "done"}]
  /\ found \in [Tasks -> 0 .. Full] /\ got \in [Tasks -> 0 .. Full]
  /\ heard \in [Phase2Tasks -> 0 .. Full]
  /\ second \in Phase2Tasks \cup {"none", "begin", "download", "leave", "finally", "done"}
  /\ dirs \subseteq {"p15", "p2"}
  /\ stored \in [exit : {"none", "full", "skip", "timeout"}, combined : 0 .. Full,
                 status : {"pending", "allow", "monitor", "soft_block", "block"}]

\* No analyzer is at work on a directory that is gone: a time-out of phase 2 or of one
\* of its parts never removes the downloaded file under a late analyzer.
ExtractorsHaveTheirFile ==
  /\ Running \cap Phase2Tasks # {} => "p2" \in dirs
  /\ "thumbnail" \in Running => "p15" \in dirs

\* Time-outs, exceptions and skipped phases never make a video worse than what its
\* analyzers found in this run: the filter fails open, by the scores it lacks.
FailureNeverRaises ==
  [][stored' # stored =>
       stored'.combined <= Combined(snap, [p \in Parts |-> found[p]], found["shorts"])]_vars

\* A run that skips the download stores the verdict that every analysis of the download
\* would have led to, if the limits are in order, whole, and not changed during the run;
\* only a score that rounding lifts onto the monitor limit itself may differ.
EarlyExitAgrees ==
  [][(main = "check" /\ stored' # stored /\ stored'.exit = "skip"
        /\ settings = snap /\ SoundLimits(snap)) =>
     \A d \in [scene : {0, Full}, audio : {0, Full}, thumbnail : {0, Full}] :
       LET complete == Combined(snap, WithDownload(Scores, d), got["shorts"])
       IN  Verdict(settings, complete) = stored'.status \/ complete = snap.monitor]_vars

\* An analysis that has begun comes to its end, whatever is late or fails, and leaves
\* no directory behind.
AnalysisEnds == main = "metadata" ~> (main = "idle" /\ dirs = {})

=============================================================================

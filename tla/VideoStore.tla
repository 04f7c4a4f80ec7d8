----------------------------- MODULE VideoStore -----------------------------
(***************************************************************************)
(* The videos table and its three writers: the analyses, which store a     *)
(* verdict reached with the settings of some moments ago; POST             *)
(* /api/videos/recalculate, which reads every video in one transaction and *)
(* writes the new verdicts in another; and POST /api/override.             *)
(*                                                                         *)
(* The request handlers are coroutines without an await, so a settings     *)
(* change, an override and a recalculation exclude one another.  The       *)
(* analyses are threads, and run between the two transactions.             *)
(*                                                                         *)
(* The individual scores of a video are one number, and the settings are a *)
(* weight (for the weights) and a limit (for the thresholds).              *)
(***************************************************************************)
EXTENDS Naturals

CONSTANTS Videos,
          Analyses,   \* the worker threads
          Scores,     \* what the analyzers may find
          Weights,    \* values of the weight settings
          Limits,     \* values of block_score_min
          MaxScore    \* the cap of a combined score (100)

ASSUME StoreAssumption ==
  /\ Scores \subseteq Nat
  /\ Weights \subseteq Nat
  /\ Limits \subseteq Nat
  /\ Weights # {} /\ Limits # {}
  /\ MaxScore \in Nat

VARIABLES
  weight,     \* the weight settings in config._cache
  limit,      \* the threshold settings
  row,        \* the videos table
  analysis,   \* where each worker thread is
  recalc,     \* the recalculation the event loop is serving
  stored      \* history: the videos stored since the recalculation read them

vars == <<weight, limit, row, analysis, recalc, stored>>

-----------------------------------------------------------------------------
Verdicts == {"allow", "block"}
Statuses == Verdicts \cup {"pending"}

NoRow == [score |-> 0, combined |-> 0, status |-> "none", override |-> FALSE]
Idle  == [pc |-> "idle"]

(* A maintainer's mistake: the combined score is not capped. *)
CombinedUncapped(score, w) == score * w

(* compute_combined_score() and score_to_status() *)
Combined(score, w) == IF score * w > MaxScore THEN MaxScore ELSE score * w
Verdict(combined, l) == IF combined >= l THEN "block" ELSE "allow"

(* What the current settings say of a video. *)
CurrentCombined(r) == Combined(r.score, weight)
CurrentVerdict(r)  == Verdict(CurrentCombined(r), limit)
IsCurrent(r) == r.combined = CurrentCombined(r) /\ r.status = CurrentVerdict(r)

(* The videos a recalculation may change: "WHERE manual_override = 0". *)
Automatic == {v \in Videos : row[v] # NoRow /\ ~row[v].override}

CombinedScores == 0..MaxScore
Judgement == [combined : CombinedScores, status : Verdicts]
Row    == [score : Scores, combined : CombinedScores, status : Statuses, override : BOOLEAN]
Run    == [pc : {"run"}, video : Videos, weight : Weights]
Judged == [pc : {"store"}, video : Videos, score : Scores, combined : CombinedScores,
           status : Verdicts]

StoreTypeOK ==
  /\ weight \in Weights
  /\ limit \in Limits
  /\ row \in [Videos -> Row \cup {NoRow}]
  /\ analysis \in [Analyses -> {Idle} \cup Run \cup Judged]
  /\ \/ recalc = Idle
     \/ /\ recalc.pc = "write"
        /\ DOMAIN recalc.updates \subseteq Automatic
        /\ recalc.updates \in [DOMAIN recalc.updates -> Judgement]
  /\ stored \in SUBSET Videos

StoreInit ==
  /\ weight \in Weights
  /\ limit \in Limits
  /\ row = [v \in Videos |-> NoRow]
  /\ analysis = [t \in Analyses |-> Idle]
  /\ recalc = Idle
  /\ stored = {}

-----------------------------------------------------------------------------
(* Mistakes a maintainer could make in the actions below; each is caught by *)
(* one of the properties at the end of the module.                          *)

(* a row whose score stays the same keeps its status *)
RecalculateScoresOnly ==
  LET changed == {v \in Automatic : row[v].combined # CurrentCombined(row[v])} IN
  /\ recalc = Idle
  /\ changed # {}
  /\ recalc' = [pc |-> "write",
                updates |-> [v \in changed |-> [combined |-> CurrentCombined(row[v]),
                                                status |-> CurrentVerdict(row[v])]]]
  /\ stored' = {}
  /\ UNCHANGED <<weight, limit, row, analysis>>

(* ON CONFLICT replaces the row, its override flag included *)
StoreReplaces(t) ==
  LET a == analysis[t] IN
  /\ a.pc = "store"
  /\ row' = [row EXCEPT ![a.video] = [score |-> a.score, combined |-> a.combined,
                                      status |-> a.status, override |-> FALSE]]
  /\ analysis' = [analysis EXCEPT ![t] = Idle]
  /\ stored' = stored \cup {a.video}
  /\ UNCHANGED <<weight, limit, recalc>>

-----------------------------------------------------------------------------
(* An analysis                                                             *)

(* parallel_analyze(): cfg = _ConfigSnapshot.from_config().  The queue runs  *)
(* a video once at a time.                                                  *)
StartAnalysis(t, v) ==
  /\ analysis[t] = Idle
  /\ v \notin {analysis[b].video : b \in {u \in Analyses : analysis[u] # Idle}}
  /\ analysis' = [analysis EXCEPT ![t] = [pc |-> "run", video |-> v, weight |-> weight]]
  /\ UNCHANGED <<weight, limit, row, recalc, stored>>

(* _persist_result(): combined with the weights of the snapshot, and judged  *)
(* by the thresholds of now.                                                *)
Judge(t, score) ==
  LET a == analysis[t]
      combined == Combined(score, a.weight)
  IN
  /\ a.pc = "run"
  /\ analysis' = [analysis EXCEPT ![t] = [pc |-> "store", video |-> a.video, score |-> score,
                                          combined |-> combined,
                                          status |-> Verdict(combined, limit)]]
  /\ UNCHANGED <<weight, limit, row, recalc, stored>>

(* db.upsert_video(): everything is replaced but an overridden status. *)
Store(t) ==
  LET a == analysis[t]
      old == row[a.video]
  IN
  /\ a.pc = "store"
  /\ row' = [row EXCEPT ![a.video] = [score |-> a.score, combined |-> a.combined,
                                      status |-> IF old.override THEN old.status ELSE a.status,
                                      override |-> old.override]]
  /\ analysis' = [analysis EXCEPT ![t] = Idle]
  /\ stored' = stored \cup {a.video}
  /\ UNCHANGED <<weight, limit, recalc>>

-----------------------------------------------------------------------------
(* The administrator                                                       *)

(* PUT /api/settings: config.save() of one key after the other *)
SetWeight(w) ==
  /\ recalc = Idle
  /\ weight' = w
  /\ UNCHANGED <<limit, row, analysis, recalc, stored>>

SetLimit(l) ==
  /\ recalc = Idle
  /\ limit' = l
  /\ UNCHANGED <<weight, row, analysis, recalc, stored>>

(* POST /api/override *)
Override(v, status) ==
  /\ recalc = Idle
  /\ row[v] # NoRow
  /\ row' = [row EXCEPT ![v].status = status, ![v].override = TRUE]
  /\ UNCHANGED <<weight, limit, analysis, recalc, stored>>

(* POST /api/videos/recalculate: get_all_videos_for_recalculate(), and the   *)
(* rows whose score or status changes; with none of them it is done.        *)
Recalculate ==
  LET changed == {v \in Automatic : ~IsCurrent(row[v])} IN
  /\ recalc = Idle
  /\ changed # {}
  /\ recalc' = [pc |-> "write",
                updates |-> [v \in changed |-> [combined |-> CurrentCombined(row[v]),
                                                status |-> CurrentVerdict(row[v])]]]
  /\ stored' = {}
  /\ UNCHANGED <<weight, limit, row, analysis>>

(* update_video_scores_bulk(), again "WHERE manual_override = 0" *)
WriteRecalculated ==
  /\ recalc.pc = "write"
  /\ row' = [v \in Videos |->
               IF v \in DOMAIN recalc.updates \cap Automatic
                 THEN [row[v] EXCEPT !.combined = recalc.updates[v].combined,
                                     !.status = recalc.updates[v].status]
                 ELSE row[v]]
  /\ recalc' = Idle
  /\ UNCHANGED <<weight, limit, analysis, stored>>

StoreNext ==
  \/ \E t \in Analyses :
       \/ \E v \in Videos : StartAnalysis(t, v)
       \/ \E score \in Scores : Judge(t, score)
       \/ Store(t)
  \/ \E w \in Weights : SetWeight(w)
  \/ \E l \in Limits : SetLimit(l)
  \/ \E v \in Videos, status \in Statuses : Override(v, status)
  \/ Recalculate
  \/ WriteRecalculated

StoreSpec == StoreInit /\ [][StoreNext]_vars

-----------------------------------------------------------------------------
(* "Manual overrides are left untouched": neither an analysis, whenever it   *)
(* started, nor a recalculation changes a status an administrator has given. *)
ManualStatusKept ==
  [][\A v \in Videos : row[v].override =>
        \/ row'[v].override /\ row'[v].status = row[v].status
        \/ \E status \in Statuses : Override(v, status)]_vars

(* After a recalculation every video without an override has the score and    *)
(* the status the current settings give it, except the videos an analysis    *)
(* has stored in the meantime.                                               *)
RecalculationTakesEffect ==
  [][WriteRecalculated =>
        \A v \in Automatic \ stored : IsCurrent(row'[v])]_vars

(* The docstring of api_videos_recalculate(): it "uses current config          *)
(* weights/thresholds against the individual scores already stored in the     *)
(* database".  A verdict stored between its two transactions is replaced by  *)
(* one computed from the scores of the verdict before.                       *)
RecalculatedFromStoredScores ==
  [][WriteRecalculated =>
        \A v \in DOMAIN recalc.updates \cap Automatic :
           row'[v].combined = CurrentCombined(row[v])]_vars
=============================================================================

-------------------------- MODULE VideoStoreProofs --------------------------
(***************************************************************************)
(* Proofs about the videos table, the list of blocked videos and the       *)
(* profiles of the channels, for any sets of videos, analyses, writers,    *)
(* threads, scores and settings.                                           *)
(***************************************************************************)
EXTENDS VideoStore, AclFiles, ChannelProfiles, FiniteSetTheorems, TLAPS

(* A combined score lies between 0 and the cap.                            *)
LEMMA CombinedInRange ==
  ASSUME NEW score \in Nat, NEW w \in Nat
  PROVE  Combined(score, w) \in CombinedScores
<1>1. score * w \in Nat
  OBVIOUS
<1>2. QED
  BY <1>1, StoreAssumption DEF Combined, CombinedScores

(* What the settings of now say of a row is a judgement.                   *)
LEMMA CurrentIsJudgement ==
  ASSUME StoreTypeOK, NEW v \in Automatic
  PROVE  /\ row[v] \in Row
         /\ CurrentCombined(row[v]) \in CombinedScores
         /\ CurrentVerdict(row[v]) \in Verdicts
<1>1. row[v] \in Row
  BY DEF StoreTypeOK, Automatic
<1>2. row[v].score \in Nat /\ weight \in Nat
  BY <1>1, StoreAssumption DEF StoreTypeOK, Row
<1>3. CurrentCombined(row[v]) \in CombinedScores
  BY <1>2, CombinedInRange DEF CurrentCombined
<1>4. QED
  BY <1>1, <1>3 DEF CurrentVerdict, Verdict, Verdicts

-----------------------------------------------------------------------------
(* The type invariant *)

(* A step of an analysis keeps the types.                                   *)
LEMMA AnalysisTyped ==
  ASSUME StoreTypeOK, NEW t \in Analyses,
         (\E v \in Videos : StartAnalysis(t, v)) \/ (\E score \in Scores : Judge(t, score))
         \/ Store(t)
  PROVE  StoreTypeOK'
<1>1. ASSUME NEW v \in Videos, StartAnalysis(t, v)
      PROVE  StoreTypeOK'
  <2>1. analysis' \in [Analyses -> {Idle} \cup Run \cup Judged]
    BY <1>1 DEF StoreTypeOK, StartAnalysis, Run
  <2>2. Automatic' = Automatic
    BY <1>1 DEF Automatic, StartAnalysis
  <2>3. QED
    BY <1>1, <2>1, <2>2 DEF StoreTypeOK, StartAnalysis
<1>2. ASSUME NEW score \in Scores, Judge(t, score)
      PROVE  StoreTypeOK'
  <2>1. analysis[t] \in Run
    BY <1>2 DEF StoreTypeOK, Judge, Idle, Run, Judged
  <2>2. Combined(score, analysis[t].weight) \in CombinedScores
    BY <2>1, CombinedInRange, StoreAssumption DEF Run
  <2>3. Verdict(Combined(score, analysis[t].weight), limit) \in Verdicts
    BY DEF Verdict, Verdicts
  <2>4. analysis' \in [Analyses -> {Idle} \cup Run \cup Judged]
    BY <1>2, <2>1, <2>2, <2>3 DEF StoreTypeOK, Judge, Run, Judged
  <2>5. Automatic' = Automatic
    BY <1>2 DEF Automatic, Judge
  <2>6. QED
    BY <1>2, <2>4, <2>5 DEF StoreTypeOK, Judge
<1>3. ASSUME Store(t)
      PROVE  StoreTypeOK'
  <2> DEFINE a == analysis[t]
             old == row[a.video]
             new == [score |-> a.score, combined |-> a.combined,
                     status |-> IF old.override THEN old.status ELSE a.status,
                     override |-> old.override]
  <2>1. a \in Judged
    BY <1>3 DEF StoreTypeOK, Store, Idle, Run, Judged
  <2>2. old \in Row \cup {NoRow} /\ a.video \in Videos
    BY <2>1 DEF StoreTypeOK, Judged
  <2>3. new \in Row
    <3>1. a.score \in Scores /\ a.combined \in CombinedScores /\ a.status \in Statuses
      BY <2>1 DEF Judged, Statuses
    <3>2. old.override \in BOOLEAN
      <4>1. CASE old = NoRow
        <5>1. NoRow.override = FALSE
          BY DEF NoRow
        <5>2. QED
          BY <4>1, <5>1
      <4>2. CASE old \in Row
        BY <4>2 DEF Row
      <4>3. QED
        BY <2>2, <4>1, <4>2
    <3>3. ASSUME old.override
          PROVE  old.status \in Statuses
      BY <2>2, <3>3 DEF Row, NoRow
    <3>4. (IF old.override THEN old.status ELSE a.status) \in Statuses
      BY <3>1, <3>3
    <3>5. QED
      BY <3>1, <3>2, <3>4 DEF Row
  <2>4. row' = [row EXCEPT ![a.video] = new]
    BY <1>3 DEF Store
  <2>5. row' \in [Videos -> Row \cup {NoRow}]
    BY <2>2, <2>3, <2>4 DEF StoreTypeOK
  <2>6. analysis' \in [Analyses -> {Idle} \cup Run \cup Judged]
    BY <1>3 DEF StoreTypeOK, Store
  <2>7. NoRow \notin Row
    BY DEF NoRow, Row, Statuses, Verdicts
  <2>8. Automatic \subseteq Automatic'
    BY <2>2, <2>3, <2>4, <2>7 DEF Automatic, StoreTypeOK
  <2>9. stored' \in SUBSET Videos
    BY <1>3, <2>2 DEF StoreTypeOK, Store
  <2>10. QED
    BY <1>3, <2>5, <2>6, <2>8, <2>9 DEF StoreTypeOK, Store
<1>4. QED
  BY <1>1, <1>2, <1>3

(* A step of the administrator keeps the types.                             *)
LEMMA AdministratorTyped ==
  ASSUME StoreTypeOK,
         (\E w \in Weights : SetWeight(w)) \/ (\E l \in Limits : SetLimit(l))
         \/ (\E v \in Videos, status \in Statuses : Override(v, status))
  PROVE  StoreTypeOK'
<1>1. ASSUME NEW w \in Weights, SetWeight(w)
      PROVE  StoreTypeOK'
  BY <1>1 DEF SetWeight, StoreTypeOK, Automatic, Idle
<1>2. ASSUME NEW l \in Limits, SetLimit(l)
      PROVE  StoreTypeOK'
  BY <1>2 DEF SetLimit, StoreTypeOK, Automatic, Idle
<1>3. ASSUME NEW v \in Videos, NEW status \in Statuses, Override(v, status)
      PROVE  StoreTypeOK'
  <2>1. row[v] \in Row
    BY <1>3 DEF Override, StoreTypeOK
  <2>2. [row[v] EXCEPT !.status = status, !.override = TRUE] \in Row
    BY <2>1 DEF Row
  <2>3. row' \in [Videos -> Row \cup {NoRow}]
    BY <1>3, <2>2 DEF Override, StoreTypeOK
  <2>4. QED
    BY <1>3, <2>3 DEF Override, StoreTypeOK, Idle
<1>4. QED
  BY <1>1, <1>2, <1>3

(* The second transaction is the end of a recalculation under way.          *)
LEMMA WriteIsPending ==
  ASSUME WriteRecalculated
  PROVE  recalc # Idle
<1>1. recalc.pc = "write" /\ Idle.pc = "idle"
  BY DEF WriteRecalculated, Idle
<1>2. QED
  BY <1>1

(* A recalculation keeps the types.                                         *)
LEMMA RecalculationTyped ==
  ASSUME StoreTypeOK, Recalculate \/ WriteRecalculated
  PROVE  StoreTypeOK'
<1>1. CASE Recalculate
  <2> DEFINE changed == {v \in Automatic : ~IsCurrent(row[v])}
             updates == [v \in changed |-> [combined |-> CurrentCombined(row[v]),
                                            status |-> CurrentVerdict(row[v])]]
  <2>1. recalc'.pc = "write" /\ recalc'.updates = updates
    BY <1>1 DEF Recalculate
  <2>2. \A v \in changed : CurrentCombined(row[v]) \in CombinedScores
                           /\ CurrentVerdict(row[v]) \in Verdicts
    BY CurrentIsJudgement
  <2>3. updates \in [changed -> Judgement]
    BY <2>2 DEF Judgement
  <2>4. Automatic' = Automatic
    BY <1>1 DEF Recalculate, Automatic
  <2>5. QED
    <3>1. DOMAIN updates = changed /\ changed \subseteq Automatic
      OBVIOUS
    <3>2. recalc'.pc = "write" /\ DOMAIN recalc'.updates \subseteq Automatic'
          /\ recalc'.updates \in [DOMAIN recalc'.updates -> Judgement]
      BY <2>1, <2>3, <2>4, <3>1
    <3>3. QED
      BY <1>1, <3>2 DEF Recalculate, StoreTypeOK
<1>2. CASE WriteRecalculated
  <2>1. recalc.updates \in [DOMAIN recalc.updates -> Judgement]
    BY <1>2, WriteIsPending DEF StoreTypeOK
  <2>2. ASSUME NEW v \in DOMAIN recalc.updates \cap Automatic
        PROVE  [row[v] EXCEPT !.combined = recalc.updates[v].combined,
                              !.status = recalc.updates[v].status] \in Row
    <3>1. row[v] \in Row
      BY CurrentIsJudgement
    <3>2. recalc.updates[v].combined \in CombinedScores /\ recalc.updates[v].status \in Statuses
      BY <2>1 DEF Judgement, Statuses
    <3>3. QED
      BY <3>1, <3>2 DEF Row
  <2>3. row' \in [Videos -> Row \cup {NoRow}]
    BY <1>2, <2>2 DEF WriteRecalculated, StoreTypeOK, Automatic
  <2>4. QED
    BY <1>2, <2>3 DEF WriteRecalculated, StoreTypeOK
<1>3. QED
  BY <1>1, <1>2

(* Every step keeps the types.                                              *)
LEMMA StepTyped ==
  ASSUME StoreTypeOK, [StoreNext]_vars
  PROVE  StoreTypeOK'
<1>1. CASE StoreNext
  BY <1>1, AnalysisTyped, AdministratorTyped, RecalculationTyped DEF StoreNext
<1>2. CASE UNCHANGED vars
  BY <1>2 DEF vars, StoreTypeOK, Automatic
<1>3. QED
  BY <1>1, <1>2

(* The columns of the videos table, what the threads carry and what a        *)
(* recalculation is about to write keep their ranges: a combined score never *)
(* leaves 0..MaxScore, and a pending write is about rows without override.   *)
THEOREM StoreTypeCorrect == StoreSpec => []StoreTypeOK
<1>1. StoreInit => StoreTypeOK
  BY DEF StoreInit, StoreTypeOK
<1>2. StoreTypeOK /\ [StoreNext]_vars => StoreTypeOK'
  BY StepTyped
<1>3. QED
  BY <1>1, <1>2, PTL DEF StoreSpec

-----------------------------------------------------------------------------
(* Manual statuses *)

(* Store and WriteRecalculated are the only steps but Override that write a *)
(* row, and both leave the flag and a manual status as they are.            *)
LEMMA StepKeepsManualStatus ==
  ASSUME StoreTypeOK, StoreNext, NEW v \in Videos, row[v].override,
         \A status \in Statuses : ~Override(v, status)
  PROVE  row'[v].override /\ row'[v].status = row[v].status
<1>1. ASSUME NEW t \in Analyses, Store(t)
      PROVE  row'[v].override /\ row'[v].status = row[v].status
  <2>1. CASE analysis[t].video = v
    <3>1. row'[v] = [score |-> analysis[t].score, combined |-> analysis[t].combined,
                     status |-> IF row[v].override THEN row[v].status ELSE analysis[t].status,
                     override |-> row[v].override]
      BY <1>1, <2>1 DEF Store, StoreTypeOK
    <3>2. row'[v].override = row[v].override
      BY <3>1
    <3>3. row'[v].status = IF row[v].override THEN row[v].status ELSE analysis[t].status
      BY <3>1
    <3>4. QED
      BY <3>2, <3>3
  <2>2. CASE analysis[t].video # v
    BY <1>1, <2>2 DEF Store, StoreTypeOK
  <2>3. QED
    BY <2>1, <2>2
<1>2. ASSUME NEW u \in Videos, NEW status \in Statuses, Override(u, status)
      PROVE  row'[v].override /\ row'[v].status = row[v].status
  <2>1. u # v
    BY <1>2
  <2>2. row'[v] = row[v]
    BY <1>2, <2>1 DEF Override, StoreTypeOK
  <2>3. QED
    BY <2>2
<1>3. CASE WriteRecalculated
  <2>1. v \notin Automatic
    BY DEF Automatic
  <2>2. row'[v] = row[v]
    BY <1>3, <2>1 DEF WriteRecalculated
  <2>3. QED
    BY <2>2
<1>4. ASSUME row' = row
      PROVE  row'[v].override /\ row'[v].status = row[v].status
  BY <1>4
<1>5. QED
  BY <1>1, <1>2, <1>3, <1>4
     DEF StoreNext, StartAnalysis, Judge, SetWeight, SetLimit, Recalculate

(* No analysis, whenever it started, and no recalculation takes back what an *)
(* administrator has decided of a video.                                     *)
THEOREM ManualStatusAlwaysKept == StoreSpec => ManualStatusKept
<1>1. StoreTypeOK /\ [StoreNext]_vars =>
        [\A v \in Videos : row[v].override =>
            \/ row'[v].override /\ row'[v].status = row[v].status
            \/ \E status \in Statuses : Override(v, status)]_vars
  <2>1. SUFFICES ASSUME StoreTypeOK, StoreNext, NEW v \in Videos, row[v].override,
                        \A status \in Statuses : ~Override(v, status)
                 PROVE  row'[v].override /\ row'[v].status = row[v].status
    OBVIOUS
  <2>2. QED
    BY <2>1, StepKeepsManualStatus
<1>2. QED
  BY <1>1, StoreTypeCorrect, PTL DEF StoreSpec, ManualStatusKept

-----------------------------------------------------------------------------
(* What a recalculation is about to write *)

(* Between its two transactions a recalculation carries exactly what the     *)
(* settings say of every row that no analysis has stored since, and it has   *)
(* left out the rows that already agree with the settings.                   *)
UpdatesCurrent ==
  recalc # Idle =>
    \A v \in Automatic \ stored :
       IF v \in DOMAIN recalc.updates
         THEN /\ recalc.updates[v].combined = CurrentCombined(row[v])
              /\ recalc.updates[v].status = CurrentVerdict(row[v])
         ELSE IsCurrent(row[v])

(* A step that leaves the settings and the rows alone keeps it.              *)
LEMMA QuietStepKeepsUpdates ==
  ASSUME UpdatesCurrent, UNCHANGED <<weight, limit, row, recalc, stored>>
  PROVE  UpdatesCurrent'
BY DEF UpdatesCurrent, Automatic, CurrentCombined, CurrentVerdict, IsCurrent

LEMMA StepKeepsUpdates ==
  ASSUME StoreTypeOK, UpdatesCurrent, [StoreNext]_vars
  PROVE  UpdatesCurrent'
<1>1. ASSUME NEW t \in Analyses, Store(t)
      PROVE  UpdatesCurrent'
  <2>1. \A v \in Videos : v # analysis[t].video => row'[v] = row[v]
    BY <1>1 DEF Store, StoreTypeOK
  <2>2. (Automatic \ stored)' \subseteq Automatic \ stored
    BY <1>1, <2>1 DEF Store, Automatic
  <2>3. \A v \in (Automatic \ stored)' : row'[v] = row[v]
    BY <1>1, <2>1 DEF Store, Automatic
  <2>4. weight' = weight /\ limit' = limit /\ recalc' = recalc
    BY <1>1 DEF Store
  <2>5. QED
    BY <2>2, <2>3, <2>4 DEF UpdatesCurrent, CurrentCombined, CurrentVerdict, IsCurrent
<1>2. ASSUME recalc' = Idle
      PROVE  UpdatesCurrent'
  BY <1>2 DEF UpdatesCurrent
<1>3. CASE Recalculate
  <2> DEFINE changed == {v \in Automatic : ~IsCurrent(row[v])}
             updates == [v \in changed |-> [combined |-> CurrentCombined(row[v]),
                                            status |-> CurrentVerdict(row[v])]]
  <2>1. recalc'.updates = updates
    BY <1>3 DEF Recalculate
  <2>2. weight' = weight /\ limit' = limit /\ row' = row
    BY <1>3 DEF Recalculate
  <2>3. \A v \in Automatic : (v \in DOMAIN updates <=> ~IsCurrent(row[v]))
    OBVIOUS
  <2>4. \A v \in changed : /\ updates[v].combined = CurrentCombined(row[v])
                           /\ updates[v].status = CurrentVerdict(row[v])
    OBVIOUS
  <2>5. DOMAIN updates = changed
    OBVIOUS
  <2> HIDE DEF updates, changed
  <2>6. QED
    BY <2>1, <2>2, <2>3, <2>4, <2>5
       DEF UpdatesCurrent, Automatic, CurrentCombined, CurrentVerdict, IsCurrent
<1>4. CASE UNCHANGED <<weight, limit, row, recalc, stored>>
  BY <1>4, QuietStepKeepsUpdates
<1>5. QED
  BY <1>1, <1>2, <1>3, <1>4
     DEF StoreNext, StartAnalysis, Judge, SetWeight, SetLimit, Override, WriteRecalculated, vars

THEOREM UpdatesAlwaysCurrent == StoreSpec => []UpdatesCurrent
<1>1. StoreInit => UpdatesCurrent
  BY DEF StoreInit, UpdatesCurrent
<1>2. StoreTypeOK /\ UpdatesCurrent /\ [StoreNext]_vars => UpdatesCurrent'
  BY StepKeepsUpdates
<1>3. QED
  BY <1>1, <1>2, StoreTypeCorrect, PTL DEF StoreSpec

(* After a recalculation the settings of now are those every row without an  *)
(* override was judged by, save the rows analyses have stored meanwhile.     *)
THEOREM RecalculationAlwaysTakesEffect == StoreSpec => RecalculationTakesEffect
<1>1. StoreTypeOK /\ UpdatesCurrent /\ [StoreNext]_vars =>
        [WriteRecalculated => \A v \in Automatic \ stored : IsCurrent(row'[v])]_vars
  <2>1. SUFFICES ASSUME StoreTypeOK, UpdatesCurrent, WriteRecalculated,
                        NEW v \in Automatic \ stored
                 PROVE  IsCurrent(row'[v])
    OBVIOUS
  <2>2. recalc # Idle
    BY <2>1, WriteIsPending
  <2>3. row[v] \in Row
    BY <2>1, CurrentIsJudgement
  <2>4. CASE v \in DOMAIN recalc.updates
    <3>1. row'[v] = [row[v] EXCEPT !.combined = recalc.updates[v].combined,
                                   !.status = recalc.updates[v].status]
      BY <2>1, <2>4 DEF WriteRecalculated, Automatic
    <3>2. /\ row'[v].score = row[v].score
          /\ row'[v].combined = recalc.updates[v].combined
          /\ row'[v].status = recalc.updates[v].status
      BY <2>3, <3>1 DEF Row
    <3>3. QED
      BY <2>1, <2>2, <2>4, <3>2 DEF UpdatesCurrent, IsCurrent, CurrentCombined, CurrentVerdict
  <2>5. CASE v \notin DOMAIN recalc.updates
    <3>1. row'[v] = row[v]
      BY <2>1, <2>5 DEF WriteRecalculated, Automatic
    <3>2. QED
      BY <2>1, <2>2, <2>5, <3>1 DEF UpdatesCurrent
  <2>6. QED
    BY <2>4, <2>5
<1>2. QED
  BY <1>1, StoreTypeCorrect, UpdatesAlwaysCurrent, PTL DEF StoreSpec, RecalculationTakesEffect

-----------------------------------------------------------------------------
(* The list of blocked videos (AclFiles). *)

(* A path's file is one of the inodes, and a writer that is away holds nothing. *)
FilesTyped ==
  /\ flagged \subseteq Ids
  /\ live \in Inodes /\ temp \in Inodes \cup {NoInode}
  /\ content = [i \in Inodes |-> content[i]]
  /\ writer = [w \in Writers |-> [at |-> writer[w].at, list |-> writer[w].list,
                                  inode |-> writer[w].inode]]
  /\ alone \in [Writers -> BOOLEAN]
  /\ \A w \in Writers : At(w, "away") => writer[w] = Away

(* What a writer that nobody has joined can rely on: it is the only one at work, *)
(* the list it has read is that of now, and its file is the one with the name    *)
(* ".tmp", empty until it writes and then just its list.                         *)
AloneRelies(w) ==
  /\ \A x \in Writers \ {w} : writer[x] = Away
  /\ writer[w].at \in {"read", "open", "write", "replace"}
  /\ writer[w].at # "read" => writer[w].list = BlockedIds
  /\ writer[w].at \in {"write", "replace"} => temp # NoInode /\ writer[w].inode = temp
  /\ At(w, "write") => content[temp] = <<>>
  /\ At(w, "replace") => content[temp] = BlockedIds

FilesInv == FilesTyped /\ \A w \in Writers : alone[w] => AloneRelies(w)

(* There is an inode for a new temporary file: the others are at most the live *)
(* one and one for each writer.                                                *)
LEMMA AnInodeIsFree ==
  ASSUME temp = NoInode
  PROVE  FreeInodes # {}
<1> SUFFICES ASSUME FreeInodes = {} PROVE FALSE
  OBVIOUS
<1> DEFINE Used == {writer[w].inode : w \in Writers}
           f == [w \in Writers |-> writer[w].inode]
           n == Cardinality(Writers)
<1>1. IsFiniteSet(Writers) /\ n \in Nat
  BY AclFilesAssumption, FS_CardinalityType
<1>2. f \in Surjection(Writers, Used)
  BY DEF Surjection
<1>3. IsFiniteSet(Used) /\ Cardinality(Used) <= n /\ Cardinality(Used) \in Nat
  BY <1>1, <1>2, FS_Surjection, FS_CardinalityType
<1>4. /\ IsFiniteSet(Used \cup {live})
      /\ Cardinality(Used \cup {live}) <= n + 1
      /\ Cardinality(Used \cup {live}) \in Nat
  <2> HIDE DEF Used, n
  <2>1. IsFiniteSet(Used \cup {live}) /\ Cardinality(Used \cup {live}) \in Nat
    BY <1>3, FS_AddElement, FS_CardinalityType
  <2>2. Cardinality(Used \cup {live}) = IF live \in Used THEN Cardinality(Used)
                                        ELSE Cardinality(Used) + 1
    BY <1>3, FS_AddElement
  <2> QED  BY <1>1, <1>3, <2>1, <2>2
<1>5. Inodes \subseteq Used \cup {live}
  BY <1>1 DEF FreeInodes, Inodes, NoInode
<1>6. Cardinality(Inodes) <= Cardinality(Used \cup {live})
  BY <1>4, <1>5, FS_Subset
<1>7. Cardinality(Inodes) = n + 2
  BY <1>1, FS_Interval DEF Inodes
<1> HIDE DEF Used, n
<1> QED
  BY <1>1, <1>4, <1>6, <1>7

(* No inode is mistaken for none. *)
LEMMA InodesAreSome == \A i \in Inodes : i # NoInode
<1>1. Cardinality(Writers) \in Nat
  BY AclFilesAssumption, FS_CardinalityType
<1> QED  BY <1>1 DEF Inodes, NoInode

(* A truncated file takes exactly the list that is written to it. *)
LEMMA WrittenFromEmpty ==
  ASSUME flagged \subseteq Ids
  PROVE  Overwritten(<<>>, BlockedIds) = BlockedIds
<1> DEFINE S == {BlockedIds[k] : k \in 1 .. Cardinality(flagged)}
<1>1. Cardinality(flagged) \in Nat
  BY AclFilesAssumption, FS_Subset, FS_CardinalityType
<1>2. PICK list : list = BlockedIds
  OBVIOUS
<1>3. list \in Seq(S)
  BY <1>1, <1>2 DEF BlockedIds
<1> HIDE DEF S
<1>4. Overwritten(<<>>, list) = list
  BY <1>3 DEF Overwritten
<1> QED
  BY <1>2, <1>4

(* Where a writer closes what it had open, nobody else begins to rely on anything. *)
LEMMA LeavingKeeps ==
  ASSUME FilesInv, NEW ws \in SUBSET Writers, Leaves(ws), UNCHANGED flagged,
         \E w \in ws : ~At(w, "away"),
         live' \in Inodes, temp' \in Inodes \cup {NoInode}
  PROVE  FilesInv'
<1>1. \A x \in Writers : alone'[x] = (x \notin ws /\ alone[x])
  BY DEF Leaves
<1>2. FilesTyped'
  BY DEF FilesInv, FilesTyped, Leaves, Away, At
<1>3. ASSUME NEW w \in Writers, alone'[w] PROVE FALSE
  <2>1. alone[w] /\ w \notin ws
    BY <1>1, <1>3
  <2>2. PICK x \in ws : ~At(x, "away") /\ x # w
    BY <2>1
  <2>3. writer[x] = Away
    BY <2>1, <2>2 DEF FilesInv, AloneRelies
  <2> QED  BY <2>2, <2>3 DEF At, Away
<1> QED
  BY <1>2, <1>3 DEF FilesInv

(* No step breaks what an undisturbed writer relies on. *)
LEMMA FilesStep == FilesInv /\ [FilesNext]_fileVars => FilesInv'
<1> SUFFICES ASSUME FilesInv, [FilesNext]_fileVars PROVE FilesInv'
  OBVIOUS
<1>0. FilesTyped /\ \A x \in Writers : alone[x] => AloneRelies(x)
  BY DEF FilesInv
<1>1. ASSUME NEW w \in Writers, ChangeAndUpdate(w) PROVE FilesInv'
  <2>1. FilesTyped'
    BY <1>0, <1>1 DEF ChangeAndUpdate, FilesTyped, At, Away
  <2>2. ASSUME NEW x \in Writers, alone'[x] PROVE AloneRelies(x)'
    <3>1. x = w /\ \A y \in Writers \ {w} : writer[y] = Away
      BY <1>0, <1>1, <2>2 DEF ChangeAndUpdate, FilesTyped
    <3> QED  BY <1>0, <1>1, <3>1 DEF ChangeAndUpdate, FilesTyped, AloneRelies, At
  <2> QED  BY <2>1, <2>2 DEF FilesInv
<1>2. CASE ChangeOnly
  BY <1>0, <1>2 DEF ChangeOnly, FilesInv, FilesTyped, At
<1>3. ASSUME NEW w \in Writers, ReadList(w) PROVE FilesInv'
  <2>1. /\ At(w, "read") /\ BlockedIds' = BlockedIds
        /\ UNCHANGED <<flagged, content, live, temp, alone>>
    BY <1>3 DEF ReadList, BlockedIds
  <2>2. /\ writer'[w] = [at |-> "open", list |-> BlockedIds, inode |-> writer[w].inode]
        /\ \A y \in Writers \ {w} : writer'[y] = writer[y]
        /\ writer' = [y \in Writers |-> writer'[y]]
    <3>1. PICK list : list = BlockedIds
      OBVIOUS
    <3>2. writer' = [writer EXCEPT ![w].at = "open", ![w].list = list]
      BY <1>3, <3>1 DEF ReadList
    <3>3. writer[w] = [at |-> writer[w].at, list |-> writer[w].list, inode |-> writer[w].inode]
      BY <1>0 DEF FilesTyped
    <3>4. writer'[w] = [at |-> "open", list |-> list, inode |-> writer[w].inode]
      BY <1>0, <3>2, <3>3 DEF FilesTyped
    <3>5. /\ \A y \in Writers \ {w} : writer'[y] = writer[y]
          /\ writer' = [y \in Writers |-> writer'[y]]
      BY <1>0, <3>2 DEF FilesTyped
    <3> QED  BY <3>1, <3>4, <3>5
  <2>3. FilesTyped'
    <3>1. writer' = [y \in Writers |-> [at |-> writer'[y].at, list |-> writer'[y].list,
                                         inode |-> writer'[y].inode]]
      BY <1>0, <2>2 DEF FilesTyped
    <3>2. \A y \in Writers : writer'[y].at = "away" => writer'[y] = Away
      BY <1>0, <2>2 DEF FilesTyped, At
    <3> QED  BY <1>0, <2>1, <3>1, <3>2 DEF FilesTyped, At
  <2>4. ASSUME NEW x \in Writers, alone'[x] PROVE AloneRelies(x)'
    <3>1. x = w /\ AloneRelies(w)
      BY <1>0, <2>1, <2>4 DEF AloneRelies, At, Away
    <3> QED  BY <2>1, <2>2, <3>1 DEF AloneRelies, At
  <2> QED  BY <2>3, <2>4 DEF FilesInv
<1>4. ASSUME NEW w \in Writers, Open(w) PROVE FilesInv'
  <2>1. PICK i \in Inodes :
          /\ At(w, "open") /\ temp' = i /\ content' = [content EXCEPT ![i] = <<>>]
          /\ writer' = [writer EXCEPT ![w].at = "write", ![w].inode = i]
          /\ UNCHANGED <<flagged, live, alone>>
    <3> DEFINE i == IF temp # NoInode THEN temp ELSE CHOOSE j \in FreeInodes : TRUE
    <3>1. i \in Inodes
      BY <1>0, AnInodeIsFree DEF FilesTyped, FreeInodes
    <3> QED  BY <1>4, <3>1 DEF Open, Opened
  <2>2. /\ writer'[w] = [at |-> "write", list |-> writer[w].list, inode |-> i]
        /\ \A y \in Writers \ {w} : writer'[y] = writer[y]
        /\ writer' = [y \in Writers |-> writer'[y]]
    <3>1. writer[w] = [at |-> writer[w].at, list |-> writer[w].list, inode |-> writer[w].inode]
      BY <1>0 DEF FilesTyped
    <3> QED  BY <1>0, <2>1, <3>1 DEF FilesTyped
  <2>3. FilesTyped'
    <3>1. writer' = [y \in Writers |-> [at |-> writer'[y].at, list |-> writer'[y].list,
                                         inode |-> writer'[y].inode]]
      BY <1>0, <2>2 DEF FilesTyped
    <3>2. \A y \in Writers : writer'[y].at = "away" => writer'[y] = Away
      BY <1>0, <2>2 DEF FilesTyped, At
    <3>3. content' = [j \in Inodes |-> content'[j]]
      BY <1>0, <2>1 DEF FilesTyped
    <3> QED  BY <1>0, <2>1, <3>1, <3>2, <3>3 DEF FilesTyped, At
  <2>4. content'[i] = <<>>
    BY <1>0, <2>1 DEF FilesTyped
  <2>5. BlockedIds' = BlockedIds
    BY <2>1 DEF BlockedIds
  <2>6. ASSUME NEW x \in Writers, alone'[x] PROVE AloneRelies(x)'
    <3>1. x = w /\ AloneRelies(w)
      BY <1>0, <2>1, <2>6 DEF AloneRelies, At, Away
    <3>2. writer[w].list = BlockedIds
      BY <2>1, <3>1 DEF AloneRelies, At
    <3>3. \A y \in Writers \ {w} : writer'[y] = Away
      BY <2>2, <3>1 DEF AloneRelies
    <3>4. /\ writer'[w].at = "write" /\ writer'[w].list = BlockedIds
          /\ writer'[w].inode = i
      BY <2>2, <3>2
    <3>5. temp' = i /\ i # NoInode
      BY <2>1, InodesAreSome
    <3> QED  BY <2>4, <2>5, <3>1, <3>3, <3>4, <3>5 DEF AloneRelies, At
  <2> QED  BY <2>3, <2>6 DEF FilesInv
<1>5. ASSUME NEW w \in Writers, Write(w) PROVE FilesInv'
  <2>1. /\ At(w, "write") /\ writer' = [writer EXCEPT ![w].at = "replace"]
        /\ content' = [content EXCEPT ![writer[w].inode] =
                         Overwritten(content[writer[w].inode], writer[w].list)]
        /\ UNCHANGED <<flagged, live, temp, alone>>
    BY <1>5 DEF Write
  <2>2. FilesTyped'
    BY <1>0, <2>1 DEF FilesTyped, At, Away
  <2>3. ASSUME NEW x \in Writers, alone'[x] PROVE AloneRelies(x)'
    <3>1. x = w /\ AloneRelies(w)
      BY <1>0, <2>1, <2>3 DEF AloneRelies, At, Away
    <3>2. /\ writer[w].inode = temp /\ temp \in Inodes
          /\ content[temp] = <<>> /\ writer[w].list = BlockedIds
      BY <1>0, <2>1, <3>1 DEF FilesTyped, AloneRelies, At
    <3>3. Overwritten(<<>>, BlockedIds) = BlockedIds
      BY <1>0, WrittenFromEmpty DEF FilesTyped
    <3>4. content'[temp] = BlockedIds
      BY <1>0, <2>1, <3>2, <3>3 DEF FilesTyped
    <3>5. BlockedIds' = BlockedIds
      BY <2>1 DEF BlockedIds
    <3>6. /\ writer'[w].at = "replace" /\ writer'[w].list = writer[w].list
          /\ writer'[w].inode = writer[w].inode
          /\ \A y \in Writers \ {w} : writer'[y] = writer[y]
      BY <1>0, <2>1 DEF FilesTyped
    <3> QED  BY <2>1, <3>1, <3>2, <3>4, <3>5, <3>6 DEF AloneRelies, At
  <2> QED  BY <2>2, <2>3 DEF FilesInv
<1>6. ASSUME NEW w \in Writers, WriteFails(w) \/ Replace(w) PROVE FilesInv'
  <2>1. /\ ~At(w, "away") /\ Leaves({w}) /\ UNCHANGED flagged
        /\ live' \in Inodes /\ temp' \in Inodes \cup {NoInode}
    BY <1>0, <1>6 DEF WriteFails, Replace, At, FilesTyped
  <2> QED  BY <2>1, LeavingKeeps
<1>7. CASE FilesCrash
  <2>1. Leaves(Writers) /\ UNCHANGED <<flagged, live, temp>>
    BY <1>7 DEF FilesCrash
  <2>2. \A x \in Writers : ~alone'[x]
    BY <2>1 DEF Leaves
  <2>3. FilesTyped'
    BY <1>0, <2>1 DEF FilesTyped, Leaves, Away, At
  <2> QED  BY <2>2, <2>3 DEF FilesInv
<1>8. CASE UNCHANGED fileVars
  <2>1. BlockedIds' = BlockedIds
    BY <1>8 DEF fileVars, BlockedIds
  <2> QED  BY <1>0, <1>8, <2>1 DEF fileVars, FilesInv, FilesTyped, AloneRelies, At
<1> QED
  BY <1>1, <1>2, <1>3, <1>4, <1>5, <1>6, <1>7, <1>8 DEF FilesNext

(* An update of the list that no other update or recalculation joins leaves      *)
(* exactly the blocked videos in the file Squid reads, whatever earlier writers, *)
(* failed writes and crashes left behind under the two paths.                    *)
THEOREM UndisturbedListAlwaysExact == FilesSpec => UndisturbedListIsExact
<1>1. FilesInit => FilesInv
  <2> SUFFICES ASSUME FilesInit PROVE FilesInv
    OBVIOUS
  <2>1. 1 \in Inodes
    BY AclFilesAssumption, FS_CardinalityType DEF Inodes
  <2> QED  BY <2>1 DEF FilesInit, FilesInv, FilesTyped, Away, At
<1>2. FilesInv /\ [FilesNext]_fileVars => FilesInv'
  BY FilesStep
<1>3. ASSUME FilesInv, [FilesNext]_fileVars, NEW w \in Writers,
             At(w, "replace"), writer'[w].at = "away", alone[w], live' # live
      PROVE  content'[live'] = BlockedIds
  <2>1. PICK x \in Writers : Replace(x)
    BY <1>3 DEF FilesNext, fileVars, ChangeAndUpdate, ReadList, Open, Write, WriteFails,
                ChangeOnly, FilesCrash
  <2>2. AloneRelies(w) /\ temp \in Inodes \cup {NoInode}
    BY <1>3 DEF FilesInv, FilesTyped
  <2>3. temp # NoInode /\ content[temp] = BlockedIds
    BY <1>3, <2>2 DEF AloneRelies, At
  <2>4. live' = temp /\ Leaves({x})
    BY <2>1, <2>3 DEF Replace
  <2>5. content'[live'] = content[live']
    BY <2>2, <2>3, <2>4 DEF Leaves
  <2> QED  BY <2>3, <2>4, <2>5
<1>4. FilesInv /\ [FilesNext]_fileVars =>
        [\A w \in Writers :
           (At(w, "replace") /\ writer'[w].at = "away" /\ alone[w] /\ live' # live)
              => content'[live'] = BlockedIds]_fileVars
  BY <1>3
<1> QED
  BY <1>1, <1>2, <1>4, PTL DEF FilesSpec, UndisturbedListIsExact

-----------------------------------------------------------------------------
(* The profile of a channel (ChannelProfiles). *)

Counts == [analyzed : Nat, flagged : Nat]

ChannelsTyped ==
  /\ flagLimit \in FlagLimits
  /\ profiler = [t \in Profilers |-> [at |-> profiler[t].at, existing |-> profiler[t].existing,
                                      count |-> profiler[t].count,
                                      recommended |-> profiler[t].recommended]]
  /\ \A t \in Profilers : profiler[t].at \in {"rest", "count", "decide"}
  /\ moments \in [Profilers -> SUBSET Counts]
  /\ limits \in [Profilers -> SUBSET FlagLimits]

(* A profile under way has witnessed the counts and the limit of now, and those *)
(* it has decided from.                                                         *)
Witnesses(t) ==
  /\ ~AtStep(t, "rest") => CountOf(video) \in moments[t] /\ flagLimit \in limits[t]
  /\ AtStep(t, "decide") =>
       /\ profiler[t].count \in moments[t]
       /\ \E f \in limits[t] : profiler[t].recommended = RecommendedTier(profiler[t].count, f)

ChannelsInv == ChannelsTyped /\ \A t \in Profilers : Witnesses(t)

(* The counts of a channel's videos are numbers. *)
LEMMA CountsTyped ==
  ASSUME NEW table
  PROVE  CountOf(table) \in Counts
<1>1. \A S \in SUBSET ChannelVideos : Cardinality(S) \in Nat
  BY ChannelsAssumption, FS_Subset, FS_CardinalityType
<1>2. PICK a, f : /\ a = {v \in ChannelVideos : table[v] # "pending"}
                  /\ f = {v \in ChannelVideos : table[v] = "block"}
  OBVIOUS
<1>3. Cardinality(a) \in Nat /\ Cardinality(f) \in Nat
  BY <1>1, <1>2
<1> QED  BY <1>2, <1>3 DEF CountOf, Counts

(* A share that reaches twice a percentage reaches it once. *)
LEMMA TwiceReaches ==
  ASSUME NEW count \in Counts, NEW pct \in Nat, Reaches(count, 2 * pct)
  PROVE  Reaches(count, pct)
<1>1. PICK a \in Nat, f \in Nat : a = count.analyzed /\ f = count.flagged
  BY DEF Counts
<1>2. pct * a \in Nat /\ (2 * pct) * a = pct * a + pct * a
  BY SMT, <1>1
<1>3. a > 0 /\ f * 100 >= (2 * pct) * a
  BY <1>1 DEF Reaches
<1>4. PICK x \in Nat : x = pct * a
  BY <1>2
<1>5. f * 100 >= x
  BY <1>2, <1>3, <1>4
<1> QED  BY <1>1, <1>3, <1>4, <1>5 DEF Reaches

(* A tier that stops the channel's videos is recommended only from three analysed *)
(* videos on, and for a share that reaches the limit, or 70 percent.              *)
LEMMA RecommendedStops ==
  ASSUME NEW count \in Counts, NEW flag \in Nat,
         RecommendedTier(count, flag) \in {"soft_block", "block"}
  PROVE  count.analyzed >= 3 /\ (Reaches(count, 70) \/ Reaches(count, flag))
<1>1. PICK a \in Nat : a = count.analyzed
  BY DEF Counts
<1>2. a >= 3
  <2> SUFFICES ASSUME a < 3 PROVE FALSE
    BY <1>1
  <2>1. RecommendedTier(count, flag) = "allow"
    BY <1>1 DEF RecommendedTier
  <2> QED  BY <2>1
<1>3. CASE Reaches(count, IF 2 * flag < 70 THEN 2 * flag ELSE 70)
  <2>1. Reaches(count, 2 * flag) \/ Reaches(count, 70)
    BY <1>3
  <2> QED  BY <1>1, <1>2, <2>1, TwiceReaches
<1>4. CASE ~Reaches(count, IF 2 * flag < 70 THEN 2 * flag ELSE 70)
  <2>1. Reaches(count, flag)
    <3> SUFFICES ASSUME ~Reaches(count, flag) PROVE FALSE
      OBVIOUS
    <3>1. RecommendedTier(count, flag) \in {"monitor", "allow"}
      BY <1>1, <1>2, <1>4 DEF RecommendedTier
    <3> QED  BY <3>1
  <2> QED  BY <1>1, <1>2, <2>1
<1> QED  BY <1>3, <1>4

(* A step that keeps the threads where they are and witnesses what it changes. *)
LEMMA WitnessedKeeps ==
  ASSUME ChannelsInv, UNCHANGED profiler,
         flagLimit' \in FlagLimits,
         moments' = Witnessed(moments, CountOf(video')) \/ UNCHANGED <<video, moments>>,
         limits' = Witnessed(limits, flagLimit') \/ UNCHANGED <<flagLimit, limits>>
  PROVE  ChannelsInv'
<1>1. CountOf(video') \in Counts
  BY CountsTyped
<1>2. moments' \in [Profilers -> SUBSET Counts]
  BY <1>1 DEF ChannelsInv, ChannelsTyped, Witnessed
<1>3. limits' \in [Profilers -> SUBSET FlagLimits]
  BY DEF ChannelsInv, ChannelsTyped, Witnessed
<1>4. ASSUME NEW t \in Profilers PROVE Witnesses(t)'
  <2>1. /\ ~AtStep(t, "rest") => CountOf(video') \in moments'[t]
        /\ moments[t] \subseteq moments'[t]
    <3>1. CASE moments' = Witnessed(moments, CountOf(video'))
      BY <3>1 DEF Witnessed
    <3>2. CASE UNCHANGED <<video, moments>>
      BY <3>2 DEF ChannelsInv, Witnesses, CountOf
    <3> QED  BY <3>1, <3>2
  <2>2. /\ ~AtStep(t, "rest") => flagLimit' \in limits'[t]
        /\ limits[t] \subseteq limits'[t]
    BY DEF ChannelsInv, Witnesses, Witnessed
  <2>3. CountOf(video)' = CountOf(video')
    BY DEF CountOf
  <2> QED  BY <2>1, <2>2, <2>3 DEF ChannelsInv, Witnesses, AtStep
<1> QED
  BY <1>2, <1>3, <1>4 DEF ChannelsInv, ChannelsTyped

(* No step makes a profile forget what it has witnessed. *)
LEMMA ChannelsStep == ChannelsInv /\ [ChannelsNext]_channelVars => ChannelsInv'
<1> SUFFICES ASSUME ChannelsInv, [ChannelsNext]_channelVars PROVE ChannelsInv'
  OBVIOUS
<1>0. ChannelsTyped /\ \A t \in Profilers : Witnesses(t)
  BY DEF ChannelsInv
<1>1. ASSUME NEW v \in ChannelVideos, NEW s, SetVideo(v, s) PROVE ChannelsInv'
  <2>1. /\ UNCHANGED <<profiler, flagLimit, limits>>
        /\ moments' = Witnessed(moments, CountOf(video'))
    BY <1>1 DEF SetVideo
  <2> QED  BY <1>0, <2>1, WitnessedKeeps DEF ChannelsTyped
<1>2. ASSUME NEW flag \in FlagLimits, SetFlagLimit(flag) PROVE ChannelsInv'
  <2>1. /\ UNCHANGED <<profiler, video, moments>> /\ flagLimit' = flag
        /\ limits' = Witnessed(limits, flagLimit')
    BY <1>2 DEF SetFlagLimit
  <2> QED  BY <1>2, <2>1, WitnessedKeeps
<1>3. ASSUME NEW t \in Profilers, ReadChannel(t) PROVE ChannelsInv'
  <2>1. /\ moments' = [moments EXCEPT ![t] = {CountOf(video)}]
        /\ limits' = [limits EXCEPT ![t] = {flagLimit}]
        /\ UNCHANGED <<video, flagLimit>> /\ CountOf(video)' = CountOf(video)
    BY <1>3 DEF ReadChannel, CountOf
  <2>2. /\ moments' \in [Profilers -> SUBSET Counts]
        /\ limits' \in [Profilers -> SUBSET FlagLimits]
        /\ CountOf(video) \in moments'[t] /\ flagLimit \in limits'[t]
        /\ \A u \in Profilers \ {t} : moments'[u] = moments[u] /\ limits'[u] = limits[u]
    BY <1>0, <2>1, CountsTyped DEF ChannelsTyped
  <2>3. PICK e : profiler' = [profiler EXCEPT ![t].at = "count", ![t].existing = e]
    BY <1>3 DEF ReadChannel
  <2>4. /\ profiler'[t] = [at |-> "count", existing |-> e, count |-> profiler[t].count,
                           recommended |-> profiler[t].recommended]
        /\ \A u \in Profilers \ {t} : profiler'[u] = profiler[u]
        /\ profiler' = [u \in Profilers |-> profiler'[u]]
    <3>1. profiler[t] = [at |-> profiler[t].at, existing |-> profiler[t].existing,
                         count |-> profiler[t].count, recommended |-> profiler[t].recommended]
      BY <1>0 DEF ChannelsTyped
    <3> QED  BY <1>0, <2>3, <3>1 DEF ChannelsTyped
  <2>5. ChannelsTyped'
    BY <1>0, <2>1, <2>2, <2>4 DEF ChannelsTyped
  <2>6. ASSUME NEW u \in Profilers PROVE Witnesses(u)'
    <3>1. CASE u = t
      BY <2>1, <2>2, <2>4, <3>1 DEF Witnesses, AtStep
    <3>2. CASE u # t
      BY <1>0, <2>1, <2>2, <2>4, <3>2 DEF Witnesses, AtStep
    <3> QED  BY <3>1, <3>2
  <2> QED  BY <2>5, <2>6 DEF ChannelsInv
<1>4. ASSUME NEW t \in Profilers, CountVideos(t) PROVE ChannelsInv'
  <2>1. PICK now, r :
          /\ now = CountOf(video) /\ r = RecommendedTier(now, flagLimit)
          /\ profiler' = [profiler EXCEPT ![t].at = "decide", ![t].count = now,
                                          ![t].recommended = r]
          /\ UNCHANGED <<video, flagLimit, moments, limits>>
    BY <1>4 DEF CountVideos
  <2>2. /\ profiler'[t] = [at |-> "decide", existing |-> profiler[t].existing, count |-> now,
                           recommended |-> r]
        /\ \A u \in Profilers \ {t} : profiler'[u] = profiler[u]
        /\ profiler' = [u \in Profilers |-> profiler'[u]]
    <3>1. profiler[t] = [at |-> profiler[t].at, existing |-> profiler[t].existing,
                         count |-> profiler[t].count, recommended |-> profiler[t].recommended]
      BY <1>0 DEF ChannelsTyped
    <3>2. profiler'[t] = [profiler[t] EXCEPT !.at = "decide", !.count = now, !.recommended = r]
      BY <1>0, <2>1 DEF ChannelsTyped
    <3>3. profiler'[t] = [at |-> "decide", existing |-> profiler[t].existing, count |-> now,
                          recommended |-> r]
      <4>1. PICK p : p = profiler[t]
        OBVIOUS
      <4> QED  BY <3>1, <3>2, <4>1
    <3>4. /\ \A u \in Profilers \ {t} : profiler'[u] = profiler[u]
          /\ profiler' = [u \in Profilers |-> profiler'[u]]
      BY <1>0, <2>1 DEF ChannelsTyped
    <3> QED  BY <3>3, <3>4
  <2>3. ChannelsTyped'
    <3>1. profiler' = [u \in Profilers |-> [at |-> profiler'[u].at,
                          existing |-> profiler'[u].existing, count |-> profiler'[u].count,
                          recommended |-> profiler'[u].recommended]]
      BY <1>0, <2>2 DEF ChannelsTyped
    <3>2. \A u \in Profilers : profiler'[u].at \in {"rest", "count", "decide"}
      BY <1>0, <2>2 DEF ChannelsTyped
    <3> QED  BY <1>0, <2>1, <3>1, <3>2 DEF ChannelsTyped
  <2>4. now \in moments[t] /\ flagLimit \in limits[t] /\ CountOf(video)' = CountOf(video)
    BY <1>0, <1>4, <2>1 DEF CountVideos, Witnesses, AtStep, CountOf
  <2>5. ASSUME NEW u \in Profilers PROVE Witnesses(u)'
    <3>1. CASE u = t
      <4>1. profiler'[u].count = now /\ profiler'[u].recommended = r
        BY <2>2, <3>1
      <4> QED  BY <2>1, <2>4, <3>1, <4>1 DEF Witnesses
    <3>2. CASE u # t
      BY <1>0, <2>1, <2>2, <2>4, <3>2 DEF Witnesses, AtStep
    <3> QED  BY <3>1, <3>2
  <2> QED  BY <2>3, <2>5 DEF ChannelsInv
<1>5. ASSUME NEW t \in Profilers, WriteChannel(t) \/ ProfileFails(t) PROVE ChannelsInv'
  <2>1. Rested(t) /\ UNCHANGED <<video, flagLimit>> /\ CountOf(video)' = CountOf(video)
    BY <1>5 DEF WriteChannel, ProfileFails, CountOf
  <2>2. ChannelsTyped'
    BY <1>0, <2>1 DEF Rested, ChannelsTyped, Resting
  <2>3. ASSUME NEW u \in Profilers PROVE Witnesses(u)'
    <3>1. CASE u = t
      BY <1>0, <2>1, <3>1 DEF Rested, ChannelsTyped, Resting, Witnesses, AtStep
    <3>2. CASE u # t
      BY <1>0, <2>1, <3>2 DEF Rested, ChannelsTyped, Witnesses, AtStep
    <3> QED  BY <3>1, <3>2
  <2> QED  BY <2>2, <2>3 DEF ChannelsInv
<1>6. CASE UNCHANGED channelVars
  BY <1>0, <1>6, WitnessedKeeps DEF channelVars, ChannelsTyped
<1> QED
  BY <1>1, <1>2, <1>3, <1>4, <1>5, <1>6 DEF ChannelsNext

(* Of several threads that profile a channel while its videos and the limit      *)
(* change, each writes counts that were true at one moment of its profile, and   *)
(* a tier that stops the channel's videos only for a share that reached a limit  *)
(* of that time, or 70 percent, among three or more videos.                      *)
THEOREM ProfileAlwaysDescribesAMoment == ChannelsSpec => ProfileDescribesAMoment
<1>1. ChannelsInit => ChannelsInv
  BY DEF ChannelsInit, ChannelsInv, ChannelsTyped, Witnesses, AtStep, Resting
<1>2. ChannelsInv /\ [ChannelsNext]_channelVars => ChannelsInv'
  BY ChannelsStep
<1>3. ASSUME ChannelsInv, [ChannelsNext]_channelVars, NEW t \in Profilers,
             AtStep(t, "decide"), profiler'[t].at = "rest", channel' # channel
      PROVE  LET count == [analyzed |-> channel'.analyzed, flagged |-> channel'.flagged]
             IN  /\ count \in moments[t]
                 /\ channel'.tier \in {"soft_block", "block"} =>
                      /\ count.analyzed >= 3
                      /\ Reaches(count, 70) \/ \E flag \in limits[t] : Reaches(count, flag)
  <2>1. PICK u \in Profilers : WriteChannel(u)
    BY <1>3 DEF ChannelsNext, channelVars, SetVideo, SetFlagLimit, ReadChannel, CountVideos,
                ProfileFails
  <2>2. u = t
    BY <1>3, <2>1 DEF WriteChannel, Rested, AtStep, ChannelsInv, ChannelsTyped
  <2>3. PICK p : p = profiler[t]
    OBVIOUS
  <2>4. PICK f \in limits[t] : p.recommended = RecommendedTier(p.count, f)
    BY <1>3, <2>3 DEF ChannelsInv, Witnesses
  <2>5. /\ p.count \in moments[t] /\ flagLimit \in limits[t] /\ p.count \in Counts
        /\ f \in Nat
    BY <1>3, <2>3, ChannelsAssumption DEF ChannelsInv, ChannelsTyped, Witnesses, AtStep
  <2>6. /\ channel'.tier = FinalTier(p).tier
        /\ channel'.analyzed = p.count.analyzed /\ channel'.flagged = p.count.flagged
    BY <2>1, <2>2, <2>3 DEF WriteChannel
  <2>7. p.count = [analyzed |-> channel'.analyzed, flagged |-> channel'.flagged]
    BY <2>5, <2>6 DEF Counts
  <2>8. ASSUME channel'.tier \in {"soft_block", "block"}
        PROVE  /\ p.count.analyzed >= 3
               /\ Reaches(p.count, 70) \/ \E flag \in limits[t] : Reaches(p.count, flag)
    <3>1. CASE p.count.analyzed >= 3 /\ Reaches(p.count, flagLimit)
      BY <2>5, <3>1
    <3>2. CASE ~(p.count.analyzed >= 3 /\ Reaches(p.count, flagLimit))
      <4>1. p.count.analyzed \in Nat
        BY <2>5 DEF Counts
      <4>2. FinalTier(p).tier = p.recommended
        BY <3>2, <4>1 DEF FinalTier
      <4> QED  BY <2>4, <2>5, <2>6, <2>8, <4>2, RecommendedStops
    <3> QED  BY <3>1, <3>2
  <2> QED  BY <2>5, <2>7, <2>8
<1>4. ChannelsInv /\ [ChannelsNext]_channelVars =>
        [\A t \in Profilers :
          (AtStep(t, "decide") /\ profiler'[t].at = "rest" /\ channel' # channel) =>
            LET count == [analyzed |-> channel'.analyzed, flagged |-> channel'.flagged]
            IN  /\ count \in moments[t]
                /\ channel'.tier \in {"soft_block", "block"} =>
                     /\ count.analyzed >= 3
                     /\ Reaches(count, 70) \/ \E flag \in limits[t] : Reaches(count, flag)
        ]_channelVars
  BY <1>3
<1> QED
  BY <1>1, <1>2, <1>4, PTL DEF ChannelsSpec, ProfileDescribesAMoment

=============================================================================

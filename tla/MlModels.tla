-------------------------------- MODULE MlModels -------------------------------
(***************************************************************************)
(* The trained models of the classifier: a file for each of the latest     *)
(* ones, named after its time, a copy of one of them under a stable name,  *)
(* and the one in memory that predicts.  Trainings and rollbacks come one  *)
(* after the other from a single executor thread; the service may end      *)
(* between any two of their writes.                                        *)
(***************************************************************************)
EXTENDS Integers, FiniteSets, FiniteSetsExt

CONSTANTS
  MaxModels,     \* bound: models trained; they are numbered by their time
  KeptModels,    \* MODEL_MAX_VERSIONS
  MinSamples, MinPerClass,   \* MIN_TOTAL_SAMPLES, MIN_PER_CLASS
  Labels         \* the counts of overridden videos: [brainrot, other]

VARIABLES
  files,      \* number -> "whole" or "torn", the models in files of their own
  latest,     \* the number of the newest model
  stable,     \* the model under the stable name, NoModel, or TornModel
  serving,    \* the model that predicts, or NoModel
  trainer     \* what the executor thread does, and with which model

modelVars == <<files, latest, stable, serving, trainer>>

NoModel == 0
TornModel == -1
Idle == [at |-> "idle", model |-> NoModel]

ModelsInit ==
  /\ files = << >> /\ latest = NoModel
  /\ stable = NoModel /\ serving = NoModel
  /\ trainer = Idle

\* train(): enough videos, and enough of each kind.
Enough(labels) ==
  /\ labels.brainrot + labels.other >= MinSamples
  /\ labels.brainrot >= MinPerClass /\ labels.other >= MinPerClass

Write(f, outcome) == files' = [n \in DOMAIN files \cup {f} |-> IF n = f THEN outcome ELSE files[n]]

\* The better of two classifiers is trained; without enough labels nothing changes.
Train(labels) ==
  /\ trainer = Idle /\ latest < MaxModels
  /\ Enough(labels)
  /\ trainer' = [at |-> "version", model |-> latest + 1]
  /\ UNCHANGED <<files, latest, stable, serving>>

\* _save_model(): its own file first.  A write that fails ends the training.
DumpVersion ==
  /\ trainer.at = "version"
  /\ latest' = trainer.model
  /\ \/ Write(trainer.model, "whole") /\ trainer' = [trainer EXCEPT !.at = "stable"]
     \/ Write(trainer.model, "torn") /\ trainer' = Idle
  /\ UNCHANGED <<stable, serving>>

\* Then the stable file, in place.
DumpStable ==
  /\ trainer.at = "stable"
  /\ \/ stable' = trainer.model /\ trainer' = [trainer EXCEPT !.at = "prune"]
     \/ stable' = TornModel /\ trainer' = Idle
  /\ UNCHANGED <<files, latest, serving>>

Older == {n \in DOMAIN files : Cardinality({m \in DOMAIN files : m > n}) >= KeptModels}

\* _prune_old_versions(); a file may refuse to go.
Prune ==
  /\ trainer.at = "prune"
  /\ \E gone \in SUBSET Older : files' = [n \in DOMAIN files \ gone |-> files[n]]
  /\ trainer' = [trainer EXCEPT !.at = "serve"]
  /\ UNCHANGED <<latest, stable, serving>>

Serve ==
  /\ trainer.at = "serve"
  /\ serving' = trainer.model
  /\ trainer' = Idle
  /\ UNCHANGED <<files, latest, stable>>

\* rollback(): to a named model, or to the one before the newest.  It is read before
\* anything changes, and one that is torn changes nothing.
Rollback(n) ==
  /\ trainer = Idle
  /\ n \in DOMAIN files /\ files[n] = "whole"
  /\ trainer' = [at |-> "copy", model |-> n]
  /\ UNCHANGED <<files, latest, stable, serving>>

\* A mistake: only the memory goes back.
CopyToMemory ==
  /\ trainer.at = "copy"
  /\ trainer' = [trainer EXCEPT !.at = "serve"]
  /\ UNCHANGED <<files, latest, stable, serving>>

CopyToStable ==
  /\ trainer.at = "copy"
  /\ \/ stable' = trainer.model /\ trainer' = [trainer EXCEPT !.at = "serve"]
     \/ stable' = TornModel /\ trainer' = Idle
  /\ UNCHANGED <<files, latest, serving>>

\* _load_model(): the stable file, and a newest one only if that is missing.  A file that
\* cannot be read leaves the classifier untrained.
Load(stableFile) ==
  CASE stableFile = TornModel -> NoModel
    [] stableFile # NoModel   -> stableFile
    [] OTHER -> IF DOMAIN files # {} /\ files[Max(DOMAIN files)] = "whole"
                THEN Max(DOMAIN files) ELSE NoModel

\* The service ends, in the middle of a write or not, and starts again.
ModelsRestart ==
  /\ stable' \in IF trainer.at \in {"stable", "copy"} THEN {stable, TornModel} ELSE {stable}
  /\ trainer' = Idle
  /\ \/ serving' = Load(stable') /\ UNCHANGED <<files, latest>>
     \/ /\ trainer.at = "version" /\ Write(trainer.model, "torn") /\ latest' = trainer.model
        /\ serving' = IF stable' = NoModel THEN NoModel ELSE Load(stable')

ModelsNext ==
  \/ \E labels \in Labels : Train(labels)
  \/ DumpVersion \/ DumpStable \/ Prune \/ Serve
  \/ \E n \in 1 .. MaxModels : Rollback(n)
  \/ CopyToStable
  \/ ModelsRestart

ModelsSpec == ModelsInit /\ [][ModelsNext]_modelVars

-----------------------------------------------------------------------------
\* What predicts is what the next start would load: trainings, rollbacks, failed writes
\* and restarts never leave an administrator with a model that silently changes at the
\* next start.  A stable file that was never written, or is torn, is excepted: the
\* classifier is then untrained at the next start.
ServedModelSurvives ==
  trainer = Idle /\ stable \notin {NoModel, TornModel} => serving = stable

=============================================================================

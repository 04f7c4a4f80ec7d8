------------------------------ MODULE JobBoard ------------------------------
(***************************************************************************)
(* What the analysis queue of the analyzer service promises its callers:   *)
(* every video has at most one analysis job, the job waits, is run once,   *)
(* and is then forgotten, so that the video may be submitted again.  How   *)
(* the jobs wait (priority classes, a bounded heap, a set of videos in     *)
(* flight, a pool of threads) is left to AnalysisQueue, which implements   *)
(* this specification.                                                     *)
(***************************************************************************)
CONSTANT Videos

VARIABLE board   \* the state of the one job a video may have

States == {"idle", "waiting", "running"}

BoardTypeOK == board \in [Videos -> States]

BoardInit == board = [v \in Videos |-> "idle"]

(* A video without a job is accepted. *)
Accept(v) ==
  /\ board[v] = "idle"
  /\ board' = [board EXCEPT ![v] = "waiting"]

(* A worker takes the waiting job of v. *)
Take(v) ==
  /\ board[v] = "waiting"
  /\ board' = [board EXCEPT ![v] = "running"]

(* The analysis of v has ended, with or without a verdict. *)
Done(v) ==
  /\ board[v] = "running"
  /\ board' = [board EXCEPT ![v] = "idle"]

(* The service process goes away: jobs are kept in memory only. *)
Forget == board' = [v \in Videos |-> "idle"]

BoardNext ==
  \/ \E v \in Videos : Accept(v) \/ Take(v) \/ Done(v)
  \/ Forget

BoardSpec == BoardInit /\ [][BoardNext]_board
=============================================================================

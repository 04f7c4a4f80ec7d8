------------------------- MODULE MCAnalyzerService -------------------------
(* Instances of AnalyzerService for TLC. *)
EXTENDS AnalyzerService, TLC

(* Clients and workers are interchangeable; used by safety runs only. *)
ServiceSymmetry == Permutations(Clients) \cup Permutations(Workers)
=============================================================================

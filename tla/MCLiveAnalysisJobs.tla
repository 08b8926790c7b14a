------------------------ MODULE MCLiveAnalysisJobs --------------------------
(* Values of the constants of LiveAnalysisJobs for TLC. *)
EXTENDS LiveAnalysisJobs, TLC

Symmetry == Permutations(Workers) \cup Permutations(Clients)
=============================================================================

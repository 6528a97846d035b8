------------------------------- MODULE MCJobs -------------------------------
(* One job and a handful of racing invocations. *)
EXTENDS Jobs, TLC

CallerSymmetry == Permutations(Callers)

MCDirectPatches == {"claim", "progress", "succeeded", "failed"}
MCAllFaults == FaultKinds
=============================================================================

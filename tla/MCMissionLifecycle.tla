------------------------- MODULE MCMissionLifecycle -------------------------
(* One mission, one or two controller processes.                           *)
EXTENDS MissionLifecycle, TLC
CONSTANTS p1, p2

ProcSymmetry == Permutations({p1, p2})
OneOwner == CommandNames \ {"delegate"}
=============================================================================

--------------------------- MODULE MCMissionQueue ---------------------------
(* Two processes; one mission is a prerequisite of the other.              *)
EXTENDS MissionQueue
CONSTANTS p1, p2, m1, m2

SecondNeedsFirst == [m \in Mission |-> IF m = m2 THEN {m1} ELSE {}]
NoDeps == {{}}
=============================================================================

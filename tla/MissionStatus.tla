--------------------------- MODULE MissionStatus ----------------------------
(***************************************************************************)
(* The statuses of a mission and the table of libs/core/mission-status.ts, *)
(* shared by the mission commands and by the chain of workers that run     *)
(* them.                                                                   *)
(***************************************************************************)
Statuses == {"planned", "active", "validating", "distilling", "completed",
             "paused", "failed", "archived"}

\* ALLOWED_TRANSITIONS.
Allowed == {<<"planned", "active">>,
            <<"active", "validating">>, <<"active", "distilling">>,
            <<"active", "paused">>, <<"active", "failed">>,
            <<"validating", "distilling">>, <<"validating", "active">>,
            <<"distilling", "completed">>,
            <<"paused", "active">>, <<"failed", "active">>,
            <<"completed", "archived">>}

isValidTransition(current, target) == <<current, target>> \in Allowed
=============================================================================

------------------------- MODULE MCScheduleDelay --------------------------
(* A day of four units: a trip with at most two scheduled visits of one or *)
(* two stops, planned early, late and past midnight.                       *)
EXTENDS ScheduleDelay

MCPlanned == {0, 3, 5}
MCPredicted == {0, 1, 3, 4, 5, 7}
=============================================================================

----------------------------- MODULE MCServing ------------------------------
(* Two vehicles, two trips, both modes and three stored rows over a clock  *)
(* that outlives the freshness window and the age of a fresh prediction.   *)
EXTENDS Serving, TLC

\* No operator distinguishes two vehicles or two trips.
MCSymmetry == Permutations(Vehicles) \cup Permutations(Trips)

MCLags == {0, 1}
=============================================================================

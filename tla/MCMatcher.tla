----------------------------- MODULE MCMatcher -----------------------------
(***************************************************************************)
(* Small instances of Matcher.  Hours are UTC hours of two days; Toronto   *)
(* is four hours behind.                                                   *)
(***************************************************************************)
EXTENDS Matcher, TLC

CONSTANTS t1, s1

Predicted(p, r) ==
    [kind |-> Prediction, trip |-> t1, stop |-> s1, recordedAt |-> r,
     predictedAt |-> p]

Seen(near, r) ==
    [kind |-> VehiclePosition, trip |-> t1, near |-> near, recordedAt |-> r]

MCTimes == 0 .. 47
MCStartupStops == {{}, {s1}}
MCAllStops == {{s1}}

(* An overdue prediction, a bus at the stop at the same instant and again  *)
(* later, and a bus elsewhere.                                             *)
MiddayFeed == {Predicted(13, 14), Seen({s1}, 14), Seen({s1}, 15), Seen({}, 16)}

(* 01:00 UTC is 21:00 the day before in Toronto.                           *)
EveningFeed == {Predicted(25, 26), Predicted(13, 14)}

(* The overdue prediction and the passing bus bear the same instant.       *)
SameInstantFeed == {Predicted(13, 14), Seen({s1}, 14)}

(* A prediction, the bus that passes later, and the prediction overdue.    *)
WholeFeed == {Predicted(13, 12), Seen({s1}, 13), Predicted(13, 14)}

(* No operator distinguishes two processes.                                *)
MCSymmetry == Permutations(Instances)
=============================================================================

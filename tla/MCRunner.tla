------------------------------ MODULE MCRunner ------------------------------
(* Small instances of Runner: three payloads of trip updates, one of which *)
(* Normalize refuses, and one of vehicle positions.                        *)
EXTENDS Runner

CONSTANTS t1, s1, u1, u2, u3, v1

P(n) == [kind |-> Prediction, trip |-> t1, stop |-> s1, recordedAt |-> n,
         predictedAt |-> 13]

V == [kind |-> VehiclePosition, trip |-> t1, near |-> {s1}, recordedAt |-> 15]

MCFeed == {P(12), P(14), V}
MCTimes == 12 .. 15

MCFeedType(p) == IF p = v1 THEN 2 ELSE 1

MCEventsOf(p) ==
    CASE p = u1 -> <<P(12), P(14)>>
      [] p = u2 -> <<P(14)>>
      [] p = v1 -> <<V>>
      [] OTHER -> <<>>
=============================================================================

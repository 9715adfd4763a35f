----------------------------- MODULE ArrivalLog -----------------------------
(***************************************************************************)
(* What the matcher and the store promise together: an append-only         *)
(* register of arrivals, at most one per (trip, service date, stop,        *)
(* method), each joined once, when it is stored, to the predictions        *)
(* already persisted for it.  Redeliveries, restarts, rebalances and       *)
(* failures of the implementation are invisible here.                      *)
(***************************************************************************)
EXTENDS Domain

VARIABLES
    rows,      \* the prediction table
    arrivals,  \* the arrival_observed table
    links      \* the prediction_error table: <<prediction, arrival key>>

logVars == <<rows, arrivals, links>>

LogInit ==
    /\ rows = {}
    /\ arrivals = {}
    /\ links = {}

(* The ingester commits a batch of predictions.                            *)
PersistBatch ==
    /\ \E ps \in SUBSET (Feed \cap PredictionEvent) : rows' = rows \cup ps
    /\ UNCHANGED <<arrivals, links>>

(* An arrival nobody has stored yet is stored with all its errors.         *)
Observe ==
    /\ \E a \in Arrivals :
          /\ ArrivalKey(a) \notin KeysOf(arrivals)
          /\ arrivals' = arrivals \cup {a}
          /\ links' = links \cup
                {<<p, ArrivalKey(a)>> : p \in {q \in rows : Joins(q, a)}}
    /\ UNCHANGED rows

LogNext == PersistBatch \/ Observe

LogSpec == LogInit /\ [][LogNext]_logVars
=============================================================================

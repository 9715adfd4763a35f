---------------------------- MODULE MCDashboard ----------------------------
(* A page on another origin that the API allows, and errors of two routes  *)
(* at each of two horizons, that of a late prediction and the longest told *)
(* apart: the limit of the page keeps the first horizon whole and cuts the *)
(* second.                                                                 *)
EXTENDS Dashboard

E(route, recorded, predicted, difference) ==
    [route |-> route, recorded |-> recorded, predicted |-> predicted, error |-> difference]

MCErrors == <<E(1, 3, 1, 60), E(3, 1, 1, -30), E(1, 0, 9, 5), E(2, 0, 9, 40)>>

MCPageRequest ==
    [origin |-> {[host |-> "web"]}, method |-> "POST", carriesKey |-> FALSE]

MCAllowedOrigins == {[host |-> "web"]}

MCMaxVersion ==
    [s \in Sources |-> CASE s = "dashboard" -> 2 [] s = "vehicles" -> 1 [] s = "quality" -> 4]
=============================================================================

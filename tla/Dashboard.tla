----------------------------- MODULE Dashboard -----------------------------
(***************************************************************************)
(* The page of web/src/App.vue: one load asks the API for the dashboard,   *)
(* the vehicles and the quality summary, waits for the three answers, and  *)
(* then updates what is shown and which of three warnings is raised.  A    *)
(* load is started by mounting, by the interval timer and by the button;   *)
(* the preferences stop and restart the timer.                             *)
(*                                                                         *)
(* What the API holds for a source is a version that only grows: one more  *)
(* than the snapshots whose events are stored, the versions of the vehicle *)
(* list, and the number of prediction errors.  Zero is nothing: no         *)
(* dashboard object yet, or an empty list.                                 *)
(***************************************************************************)
EXTENDS Api

CONSTANTS
    PageRequest,    \* what the API sees of the page's requests
    QualityLimit,   \* the rows that the page asks of the summary (100)
    MaxVersion,     \* bound on the versions of each source
    MaxFailures,    \* bound on failed requests
    MaxLoads        \* bound on the loads in flight; the page keeps it at one

Sources == {"dashboard", "vehicles", "quality"}
Versions(s) == 0..MaxVersion[s]

ASSUME DashboardAssumption ==
    /\ MaxVersion \in [Sources -> Nat \ {0}] /\ MaxVersion["quality"] =< Len(Errors)
    /\ MaxFailures \in Nat /\ MaxLoads \in Nat \ {0}
    /\ QualityLimit \in Nat /\ LimitAccepted({QualityLimit})

\* The API is deployed for the page: its requests are let through.
ASSUME PageServed == Handle(PageRequest) = "served"

VARIABLES
    server,         \* the version the API would answer with
    collected,      \* one more than the snapshots stored, with or without events
    fresh,          \* the newest snapshot is younger than the window
    phase,          \* the component: setup, mounted, unmounted
    enabled,        \* autoRefreshEnabled
    timer,          \* the interval is set
    shown,          \* the version on display, of the panel its event count
    panel,          \* the rest of the panel: its collection and stale mark
    controller,     \* an AbortController has been made
    loads,          \* the loads in flight, oldest first
    isLoading, isRefreshing,
    error, qualityError, refreshError,
    failedLast,     \* the sources that failed in the last finished load
    failures

flagVars == <<isLoading, isRefreshing, error, qualityError, refreshError>>
loadVars == <<shown, panel, controller, loads, flagVars, failedLast>>
vars == <<server, collected, fresh, phase, enabled, timer, loadVars, failures>>

Panel == [last : Versions("dashboard"), stale : BOOLEAN]
NoPanel == [last |-> 0, stale |-> FALSE]

Statuses == {"pending", "counted", "fulfilled", "rejected", "aborted"}

Load == [existing : BOOLEAN, current : BOOLEAN, aborted : BOOLEAN,
         status : [Sources -> Statuses], value : [Sources -> Nat], panel : Panel]

TypeOK ==
    /\ DOMAIN server = Sources /\ DOMAIN shown = Sources
    /\ \A s \in Sources : server[s] \in Versions(s) /\ shown[s] \in Versions(s)
    /\ collected \in Versions("dashboard") /\ server["dashboard"] =< collected
    /\ fresh \in BOOLEAN /\ panel \in Panel
    /\ phase \in {"setup", "mounted", "unmounted"}
    /\ enabled \in BOOLEAN /\ timer \in BOOLEAN
    /\ controller \in BOOLEAN
    /\ loads \in Seq(Load) /\ Len(loads) =< MaxLoads
    /\ isLoading \in BOOLEAN /\ isRefreshing \in BOOLEAN
    /\ error \in BOOLEAN /\ qualityError \in BOOLEAN /\ refreshError \in BOOLEAN
    /\ failedLast \subseteq Sources
    /\ failures \in 0..MaxFailures

\* The dashboard object always exists, even for an empty database.
Init ==
    /\ server = [s \in Sources |-> IF s = "dashboard" THEN 1 ELSE 0]
    /\ collected = 1
    /\ fresh = FALSE
    /\ phase = "setup"
    /\ enabled = TRUE
    /\ timer = FALSE
    /\ shown = [s \in Sources |-> 0]
    /\ panel = NoPanel
    /\ controller = FALSE
    /\ loads = <<>>
    /\ isLoading = TRUE /\ isRefreshing = FALSE
    /\ error = FALSE /\ qualityError = FALSE /\ refreshError = FALSE
    /\ failedLast = {}
    /\ failures = 0

-----------------------------------------------------------------------------
HasExistingData == \E s \in Sources : shown[s] > 0

\* Mutant: the guard of loadData is dropped: loads overlap.
NeverBusy == FALSE

Busy == controller /\ (isLoading \/ isRefreshing)

Abort(load) == [load EXCEPT !.current = FALSE, !.aborted = TRUE]

NewLoad == [existing |-> HasExistingData, current |-> TRUE, aborted |-> FALSE,
            status |-> [s \in Sources |-> "pending"],
            value |-> [s \in Sources |-> 0], panel |-> NoPanel]

\* loadData, up to the requests: the previous controller is aborted, the
\* warnings of the last load are taken down.
StartLoad ==
    /\ Len(loads) < MaxLoads
    /\ loads' = Append([i \in DOMAIN loads |-> Abort(loads[i])], NewLoad)
    /\ controller' = TRUE
    /\ isRefreshing' = (isRefreshing \/ HasExistingData)
    /\ isLoading' = (isLoading \/ ~HasExistingData)
    /\ error' = FALSE /\ qualityError' = FALSE /\ refreshError' = FALSE
    /\ shown' = IF HasExistingData THEN shown ELSE [shown EXCEPT !["quality"] = 0]
    /\ UNCHANGED <<panel, failedLast>>

LoadData == IF Busy THEN UNCHANGED loadVars ELSE StartLoad

\* Mutant: the watcher only ever stops the timer.
ScheduleRefreshOnce(on) == timer' = (on /\ phase = "setup")

\* scheduleRefresh
ScheduleRefresh(on) == timer' = on

\* onMounted
Mount ==
    /\ phase = "setup"
    /\ phase' = "mounted"
    /\ LoadData
    /\ ScheduleRefresh(enabled)
    /\ UNCHANGED <<server, collected, fresh, enabled, failures>>

\* The interval fires.
Tick ==
    /\ timer
    /\ LoadData
    /\ UNCHANGED <<server, collected, fresh, phase, enabled, timer, failures>>

\* The button is there when nothing is loading and enabled when nothing is
\* refreshing.
Click ==
    /\ phase = "mounted" /\ ~isLoading /\ ~isRefreshing
    /\ LoadData
    /\ UNCHANGED <<server, collected, fresh, phase, enabled, timer, failures>>

\* The preference changes, and its watcher runs.
Toggle ==
    /\ phase = "mounted"
    /\ enabled' = ~enabled
    /\ ScheduleRefresh(~enabled)
    /\ UNCHANGED <<server, collected, fresh, phase, loadVars, failures>>

\* onUnmounted
Unmount ==
    /\ phase = "mounted"
    /\ phase' = "unmounted"
    /\ loads' = [i \in DOMAIN loads |->
                    IF loads[i].current THEN [loads[i] EXCEPT !.aborted = TRUE] ELSE loads[i]]
    /\ timer' = FALSE
    /\ UNCHANGED <<server, collected, fresh, enabled, shown, panel, controller, flagVars, failedLast, failures>>

-----------------------------------------------------------------------------
(* The three requests of a load settle in any order.                       *)

Waits(i, s) == i \in DOMAIN loads /\ loads[i].status[s] \in {"pending", "counted"}

Settle(i, s, status, value) ==
    /\ loads' = [loads EXCEPT ![i].status[s] = status, ![i].value[s] = value]
    /\ UNCHANGED <<server, collected, fresh, phase, enabled, timer, shown, panel, controller, flagVars,
                   failedLast>>

\* The resolver of the dashboard asks the database twice: for the events ...
CountEvents(i) ==
    /\ Waits(i, "dashboard") /\ ~loads[i].aborted
    /\ loads[i].status["dashboard"] = "pending"
    /\ Settle(i, "dashboard", "counted", server["dashboard"])
    /\ UNCHANGED failures

\* Mutant: the last collection is remembered from one answer to the next.
RememberedSnapshot == IF panel.last > 0 THEN panel.last ELSE collected

LatestSnapshotAt == collected

\* ... and for the last collection, which is stale when there is none or it is
\* older than the freshness window.
AnswerDashboard(i) ==
    /\ Waits(i, "dashboard") /\ ~loads[i].aborted
    /\ loads[i].status["dashboard"] = "counted"
    /\ loads' = [loads EXCEPT ![i].status["dashboard"] = "fulfilled",
                              ![i].panel = [last |-> LatestSnapshotAt, stale |-> ~fresh]]
    /\ UNCHANGED <<server, collected, fresh, phase, enabled, timer, shown, panel, controller, flagVars,
                   failedLast, failures>>

Answer(i, s) ==
    /\ s # "dashboard"
    /\ Waits(i, s) /\ ~loads[i].aborted
    /\ Settle(i, s, "fulfilled", server[s])
    /\ UNCHANGED failures

\* An HTTP error, errors in the GraphQL answer, or no answer at all.
Reject(i, s) ==
    /\ failures < MaxFailures
    /\ failures' = failures + 1
    /\ Waits(i, s) /\ ~loads[i].aborted
    /\ Settle(i, s, "rejected", 0)

AbortError(i, s) ==
    /\ Waits(i, s) /\ loads[i].aborted
    /\ Settle(i, s, "aborted", 0)
    /\ UNCHANGED failures

Failed(load) == {s \in Sources : load.status[s] = "rejected"}

\* What the three branches raise once the promises have settled.
RaisesError(load) == ~load.existing /\ Failed(load) \cap {"dashboard", "vehicles"} # {}
\* Mutant: the quality request is forgotten among the refresh failures.
RaisesRefreshErrorForTwo(load) ==
    load.existing /\ Failed(load) \cap {"dashboard", "vehicles"} # {}

RaisesRefreshError(load) == load.existing /\ Failed(load) # {}
RaisesQualityError(load) == ~load.existing /\ "quality" \in Failed(load)

Finish(i) ==
    /\ i \in DOMAIN loads
    /\ \A s \in Sources : ~Waits(i, s)
    /\ shown' = [s \in Sources |->
                    IF loads[i].status[s] = "fulfilled" THEN loads[i].value[s] ELSE shown[s]]
    /\ panel' = IF loads[i].status["dashboard"] = "fulfilled" THEN loads[i].panel ELSE panel
    /\ error' = (error \/ RaisesError(loads[i]))
    /\ refreshError' = (refreshError \/ RaisesRefreshError(loads[i]))
    /\ qualityError' = (qualityError \/ RaisesQualityError(loads[i]))
    /\ isLoading' = (isLoading /\ ~loads[i].current)
    /\ isRefreshing' = (isRefreshing /\ ~loads[i].current)
    /\ failedLast' = Failed(loads[i])
    /\ loads' = SubSeq(loads, 1, i - 1) \o SubSeq(loads, i + 1, Len(loads))
    /\ UNCHANGED <<server, collected, fresh, phase, enabled, timer, controller, failures>>

\* The ingester has stored a snapshot; its events follow in a transaction of
\* their own.
Collect ==
    /\ collected < MaxVersion["dashboard"]
    /\ collected' = collected + 1
    /\ fresh' = TRUE
    /\ UNCHANGED <<server, phase, enabled, timer, loadVars, failures>>

\* The ingester has stored those events, or the positions of vehicles, and the
\* matcher errors.
ServerAdvances(s) ==
    /\ server[s] < MaxVersion[s]
    /\ s = "dashboard" => server[s] < collected
    /\ server' = [server EXCEPT ![s] = @ + 1]
    /\ UNCHANGED <<collected, fresh, phase, enabled, timer, loadVars, failures>>

\* The freshness window of the newest snapshot has passed.
Expire ==
    /\ fresh
    /\ fresh' = FALSE
    /\ UNCHANGED <<server, collected, phase, enabled, timer, loadVars, failures>>

-----------------------------------------------------------------------------
\* The regrouping of ErrorQualityChart.vue: the routes of a horizon together.
Summaries == [n \in Versions("quality") |-> ErrorSummary(n, {QualityLimit})]

Points == [n \in Versions("quality") |->
    {LET rows == {g \in Summaries[n] : g.horizon = h}
     IN  [horizon |-> h, count |-> MapThenSumSet(LAMBDA g : g.count, rows),
          total |-> MapThenSumSet(LAMBDA g : g.total, rows)] :
     h \in {g.horizon : g \in Summaries[n]}}]

-----------------------------------------------------------------------------
Settles(i, s) ==
    \/ Answer(i, s) \/ Reject(i, s) \/ AbortError(i, s)
    \/ s = "dashboard" /\ (CountEvents(i) \/ AnswerDashboard(i))

Next ==
    \/ Mount \/ Tick \/ Click \/ Toggle \/ Unmount
    \/ \E i \in 1..MaxLoads : Finish(i) \/ \E s \in Sources : Settles(i, s)
    \/ Collect \/ Expire
    \/ \E s \in Sources : ServerAdvances(s)

\* The browser runs what is due; a request is answered, fails or is aborted
\* (the API and the proxy both bound the time of an answer).
Fairness ==
    /\ WF_vars(Mount) /\ WF_vars(Tick)
    /\ \A i \in 1..MaxLoads :
        WF_vars(Finish(i)) /\ \A s \in Sources : WF_vars(Settles(i, s))

Spec == Init /\ [][Next]_vars
FairSpec == Spec /\ Fairness

-----------------------------------------------------------------------------
(* Properties.                                                             *)

\* What is on display never goes back to older data nor disappears: not when
\* a refresh fails or is aborted, nor when answers of two loads cross
\* (App.vue:33, and README.md:84-87).
ShownNeverGoesBack ==
    [][panel'.last >= panel.last /\ \A s \in Sources : shown'[s] >= shown[s]]_vars

\* The events that the panel counts were collected by the time it shows, though
\* the API reads the two one after the other while snapshots are being stored
\* (schema.resolvers.go:21-27).
CountedIsCollected == shown["dashboard"] =< panel.last

\* Of the points of the quality chart all but the last are exact: each weighs
\* every error of its horizon, whatever its route, and no shorter horizon is
\* missing, although the summary is cut off (postgres.go:461-463).
ShortHorizonsExact ==
    LET n == shown["quality"]
    IN  \A p \in Points[n] : \A k \in 1..n :
            Horizon(Errors[k]) < p.horizon =>
                LET sample == {j \in 1..n : Horizon(Errors[j]) = Horizon(Errors[k])}
                IN  [horizon |-> Horizon(Errors[k]), count |-> Cardinality(sample),
                     total |-> Total(sample)] \in Points[n]

Idle == phase = "mounted" /\ controller /\ loads = <<>>

\* Once a load is over a warning is up exactly when one of its requests
\* failed: old data are never passed off as refreshed (App.vue:52-71), and a
\* load that succeeded takes every earlier warning down (App.vue:43-45).
WarningsMatchFailures ==
    Idle => ((failedLast # {}) <=> (error \/ refreshError \/ qualityError))

\* While the page stays open with automatic refresh on, it ends up showing
\* what the API holds, whatever failed or was clicked before.
EventuallyFresh ==
    <>[](phase = "mounted" /\ enabled) =>
        <>[](shown = server /\ panel = [last |-> collected, stale |-> ~fresh])

\* What docs/resultats.md:47-53 says: every point of the chart weighs all the
\* errors of its horizon.
EveryPointExact ==
    LET n == shown["quality"]
    IN  \A p \in Points[n] : p.count = Cardinality({k \in 1..n : Horizon(Errors[k]) = p.horizon})

\* What docs/resultats.md:56-58 says: when the API is unavailable the quality
\* panel shows its own error state, distinct from the empty one.
QualityPanelShowsError ==
    Idle /\ "quality" \in failedLast /\ shown["quality"] = 0 => qualityError
=============================================================================

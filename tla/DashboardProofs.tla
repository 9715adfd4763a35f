-------------------------- MODULE DashboardProofs --------------------------
(***************************************************************************)
(* What the page shows, for any growth of the database, any failures of    *)
(* requests and any use of the button and the preference.                  *)
(***************************************************************************)
EXTENDS Dashboard, FiniteSetTheorems, WellFoundedInduction, TLAPS

\* What the API held when it was asked is between what is shown and what it
\* holds now; an answered dashboard was collected after it was counted.
InOrder(load) ==
    /\ \A s \in Sources : load.status[s] \in {"counted", "fulfilled"} =>
            shown[s] =< load.value[s] /\ load.value[s] =< server[s]
    /\ load.status["dashboard"] = "fulfilled" =>
            /\ panel.last =< load.panel.last /\ load.panel.last =< collected
            /\ load.value["dashboard"] =< load.panel.last

\* At most one load is in flight: it is the current one, the flags that keep
\* another from starting are up and the warnings of the one before are down.
OneLoad ==
    \/ loads = <<>>
    \/ \E load \in Load :
        /\ loads = <<load>> /\ load.current /\ InOrder(load)
        /\ controller /\ (isLoading \/ isRefreshing)
        /\ ~error /\ ~refreshError /\ ~qualityError

Counters ==
    /\ server \in [Sources -> Nat] /\ shown \in [Sources -> Nat]
    /\ collected \in Versions("dashboard") /\ panel \in Panel
    /\ server["dashboard"] =< collected
    /\ shown["dashboard"] =< panel.last /\ panel.last =< collected
    /\ \A s \in Sources : shown[s] =< server[s] /\ server[s] =< MaxVersion[s]

Flags ==
    /\ fresh \in BOOLEAN /\ controller \in BOOLEAN
    /\ isLoading \in BOOLEAN /\ isRefreshing \in BOOLEAN
    /\ error \in BOOLEAN /\ qualityError \in BOOLEAN /\ refreshError \in BOOLEAN

Warned ==
    controller /\ loads = <<>> =>
        ((failedLast # {}) <=> (error \/ refreshError \/ qualityError))

PageInv == Counters /\ Flags /\ OneLoad /\ Warned

NoneGoesBack == panel'.last >= panel.last /\ \A s \in Sources : shown'[s] >= shown[s]

-----------------------------------------------------------------------------
LEMMA PageInit == Init => PageInv
<1> SUFFICES ASSUME Init PROVE PageInv
  OBVIOUS
<1>1. Counters
  BY DashboardAssumption DEF Init, Counters, Versions, Panel, NoPanel, Sources
<1>2. Flags /\ OneLoad /\ Warned
  BY DEF Init, Flags, OneLoad, Warned
<1> QED BY <1>1, <1>2 DEF PageInv

\* Starting a load shows nothing else and leaves one load in flight.
LEMMA StartKeeps ==
    ASSUME PageInv, LoadData, UNCHANGED <<server, collected, fresh>>
    PROVE  PageInv' /\ NoneGoesBack
<1>1. CASE Busy
  <2>1. UNCHANGED <<server, collected, fresh, loadVars>>
    BY <1>1 DEF LoadData
  <2>2. Counters' /\ Flags' /\ Warned'
    BY <2>1 DEF PageInv, Counters, Flags, Warned, loadVars, flagVars
  <2>3. OneLoad'
    BY <2>1 DEF PageInv, OneLoad, InOrder, loadVars, flagVars
  <2>4. NoneGoesBack
    BY <2>1 DEF PageInv, Counters, NoneGoesBack, loadVars, Panel, Versions
  <2> QED BY <2>2, <2>3, <2>4 DEF PageInv
<1>2. CASE ~Busy
  <2>1. StartLoad
    BY <1>2 DEF LoadData
  <2>2. loads = <<>>
    BY <1>2 DEF PageInv, OneLoad, Busy
  <2>3. NewLoad \in Load /\ NewLoad.current
    BY DashboardAssumption DEF NewLoad, Load, Statuses, NoPanel, Panel, Versions, Sources, HasExistingData
  <2>4. loads' = <<NewLoad>>
    <3>1. [i \in DOMAIN loads |-> Abort(loads[i])] = <<>>
      BY <2>2
    <3> QED BY <2>1, <3>1, <2>3 DEF StartLoad
  <2>5. shown' = shown
    <3>1. CASE HasExistingData
      BY <2>1, <3>1 DEF StartLoad
    <3>2. CASE ~HasExistingData
      <4>1. shown["quality"] = 0 /\ shown \in [Sources -> Nat] /\ "quality" \in Sources
        BY <3>2 DEF HasExistingData, PageInv, Counters, Sources
      <4> QED BY <2>1, <3>2, <4>1 DEF StartLoad
    <3> QED BY <3>1, <3>2
  <2>6. panel' = panel /\ controller' = TRUE /\ (isLoading' \/ isRefreshing')
        /\ ~error' /\ ~refreshError' /\ ~qualityError'
    BY <2>1 DEF StartLoad, PageInv, Flags
  <2>7. Counters'
    BY <2>5, <2>6 DEF PageInv, Counters
  <2>8. Flags'
    BY <2>1 DEF StartLoad, PageInv, Flags, HasExistingData
  <2>9. OneLoad'
    <3>1. \A s \in Sources : NewLoad.status[s] = "pending"
      BY DEF NewLoad
    <3>2. InOrder(NewLoad)'
      BY <3>1 DEF InOrder, NewLoad, Sources
    <3> QED BY <2>3, <2>4, <2>6, <3>1 DEF OneLoad, InOrder, Sources
  <2>10. Warned'
    BY <2>4 DEF Warned
  <2>11. NoneGoesBack
    BY <2>5, <2>6 DEF NoneGoesBack, PageInv, Counters, Panel, Versions
  <2> QED BY <2>7, <2>8, <2>9, <2>10, <2>11 DEF PageInv
<1> QED BY <1>1, <1>2

\* A step that leaves what is shown and the flags alone, lets the counters of
\* the database grow, and at most moves the load in flight on.
LEMMA MovesOn ==
    ASSUME PageInv,
           UNCHANGED <<shown, panel, controller, flagVars, failedLast>>, fresh' \in BOOLEAN,
           server' \in [Sources -> Nat], collected' \in Versions("dashboard"),
           \A s \in Sources : server[s] =< server'[s] /\ server'[s] =< MaxVersion[s],
           collected =< collected', server'["dashboard"] =< collected',
           \A load \in Load : loads = <<load>> /\ load.current /\ InOrder(load) =>
                \E next \in Load : loads' = <<next>> /\ next.current /\ InOrder(next)',
           loads = <<>> => loads' = <<>>
    PROVE  PageInv' /\ NoneGoesBack
<1>1. Counters'
  BY DEF PageInv, Counters, Panel, Versions
<1>2. Flags'
  BY DEF PageInv, Flags, flagVars
<1>3. OneLoad' /\ Warned'
  <2>1. CASE loads = <<>>
    BY <2>1 DEF PageInv, OneLoad, Warned, flagVars
  <2>2. CASE loads # <<>>
    <3>1. PICK load \in Load :
            /\ loads = <<load>> /\ load.current /\ InOrder(load)
            /\ controller /\ (isLoading \/ isRefreshing)
            /\ ~error /\ ~refreshError /\ ~qualityError
      BY <2>2 DEF PageInv, OneLoad
    <3>2. PICK next \in Load : loads' = <<next>> /\ next.current /\ InOrder(next)'
      BY <3>1
    <3> QED BY <3>1, <3>2 DEF OneLoad, Warned, flagVars
  <2> QED BY <2>1, <2>2
<1>4. NoneGoesBack
  BY DEF PageInv, Counters, NoneGoesBack, Panel, Versions
<1> QED BY <1>1, <1>2, <1>3, <1>4 DEF PageInv

\* What grows in the database leaves the load in flight in order.
LEMMA GrowthKeeps ==
    ASSUME PageInv, Collect \/ Expire \/ \E s \in Sources : ServerAdvances(s)
    PROVE  PageInv' /\ NoneGoesBack
<1>1. UNCHANGED <<shown, panel, controller, loads, flagVars, failedLast>>
  BY DEF Collect, Expire, ServerAdvances, loadVars
<1>2. fresh' \in BOOLEAN /\ server' \in [Sources -> Nat] /\ collected' \in Versions("dashboard")
  <2>1. CASE Collect
    BY <2>1, DashboardAssumption DEF Collect, PageInv, Counters, Versions, Sources
  <2>2. CASE Expire
    BY <2>2 DEF Expire, PageInv, Counters
  <2>3. CASE \E s \in Sources : ServerAdvances(s)
    BY <2>3 DEF ServerAdvances, PageInv, Counters, Flags
  <2> QED BY <2>1, <2>2, <2>3
<1>3. /\ \A s \in Sources : server[s] =< server'[s] /\ server'[s] =< MaxVersion[s]
      /\ collected =< collected' /\ server'["dashboard"] =< collected'
  <2>1. collected \in Nat /\ server["dashboard"] \in Nat /\ "dashboard" \in Sources
    BY DEF PageInv, Counters, Versions, Sources
  <2>2. CASE Collect
    BY <2>1, <2>2 DEF Collect, PageInv, Counters
  <2>3. CASE Expire
    BY <2>1, <2>3 DEF Expire, PageInv, Counters
  <2>4. CASE \E s \in Sources : ServerAdvances(s)
    <3>1. PICK r \in Sources : ServerAdvances(r)
      BY <2>4
    <3>2. /\ server[r] < MaxVersion[r] /\ (r = "dashboard" => server[r] < collected)
          /\ server' = [server EXCEPT ![r] = server[r] + 1] /\ collected' = collected
      BY <3>1 DEF ServerAdvances
    <3>3. \A s \in Sources : /\ server[s] \in Nat /\ MaxVersion[s] \in Nat
                             /\ server[s] =< MaxVersion[s]
      BY DashboardAssumption DEF PageInv, Counters
    <3>4. \A s \in Sources : server'[s] = IF s = r THEN server[r] + 1 ELSE server[s]
      BY <3>2 DEF PageInv, Counters
    <3>5. \A s \in Sources : server[s] =< server'[s] /\ server'[s] =< MaxVersion[s]
      BY <3>2, <3>3, <3>4
    <3>6. server'["dashboard"] =< collected'
      BY <2>1, <3>2, <3>4 DEF PageInv, Counters
    <3> QED BY <2>1, <3>2, <3>5, <3>6
  <2> QED BY <2>2, <2>3, <2>4
<1>4. \A load \in Load : InOrder(load) => InOrder(load)'
  <2> SUFFICES ASSUME NEW load \in Load, InOrder(load) PROVE InOrder(load)'
    OBVIOUS
  <2>1. load.value \in [Sources -> Nat] /\ load.panel.last \in Nat
    BY DEF Load, Panel, Versions
  <2>2. \A s \in Sources : server[s] \in Nat /\ shown[s] \in Nat /\ server'[s] \in Nat
    BY <1>2 DEF PageInv, Counters
  <2>3. collected \in Nat /\ collected' \in Nat
    BY <1>2 DEF PageInv, Counters, Versions
  <2> QED BY <1>1, <1>3, <2>1, <2>2, <2>3 DEF InOrder
<1> QED BY <1>1, <1>2, <1>3, <1>4, MovesOn

\* An answer moves the load in flight on; so does a failure or an abortion.
LEMMA SettleKeeps ==
    ASSUME PageInv, NEW i \in 1..MaxLoads, NEW s \in Sources, Settles(i, s)
    PROVE  PageInv' /\ NoneGoesBack
<1>0. i \in DOMAIN loads
  BY DEF Settles, Answer, Reject, AbortError, CountEvents, AnswerDashboard, Waits
<1>1. UNCHANGED <<server, collected, fresh, shown, panel, controller, flagVars, failedLast>>
  BY DEF Settles, Answer, Reject, AbortError, CountEvents, AnswerDashboard, Settle
<1>2. ASSUME NEW load \in Load, loads = <<load>>, load.current, InOrder(load)
      PROVE  \E next \in Load : loads' = <<next>> /\ next.current /\ InOrder(next)'
  <2>1. i = 1
    BY <1>0, <1>2
  <2>2. /\ \A r \in Sources : server[r] \in Nat /\ shown[r] \in Nat /\ shown[r] =< server[r]
        /\ load.value \in [Sources -> Nat] /\ load.status \in [Sources -> Statuses]
        /\ load.panel \in Panel /\ load.panel.last \in Nat /\ panel.last \in Nat
        /\ collected \in Versions("dashboard") /\ collected \in Nat
        /\ panel.last =< collected /\ server["dashboard"] =< collected
        /\ "dashboard" \in Sources /\ fresh \in BOOLEAN
    BY DEF PageInv, Counters, Flags, Load, Panel, Versions, Sources
  <2>3. ASSUME NEW status \in Statuses, NEW value \in Nat, Settle(i, s, status, value),
               status \in {"counted", "fulfilled"} => value = server[s],
               status = "fulfilled" => s # "dashboard"
        PROVE  \E next \in Load : loads' = <<next>> /\ next.current /\ InOrder(next)'
    <3>. DEFINE next == [load EXCEPT !.status[s] = status, !.value[s] = value]
    <3>1. loads' = <<next>>
      <4>1. loads' = [loads EXCEPT ![1].status[s] = status, ![1].value[s] = value]
        BY <2>1, <2>3 DEF Settle
      <4>2. [loads EXCEPT ![1].status[s] = status, ![1].value[s] = value]
              = [loads EXCEPT ![1] = next]
        BY <1>2
      <4>. HIDE DEF next
      <4> QED BY <1>2, <4>1, <4>2
    <3>2. next \in Load /\ next.current /\ next.panel = load.panel
      BY <1>2, <2>2 DEF Load
    <3>3. \A r \in Sources :
            /\ next.status[r] = IF r = s THEN status ELSE load.status[r]
            /\ next.value[r] = IF r = s THEN value ELSE load.value[r]
      BY <2>2 DEF Load
    <3>4. InOrder(next)'
      BY <1>1, <1>2, <2>2, <2>3, <3>2, <3>3 DEF InOrder
    <3> QED BY <3>1, <3>2, <3>4
  <2>4. CASE s = "dashboard" /\ AnswerDashboard(i)
    <3>1. PICK answered \in Panel : answered = [last |-> collected, stale |-> ~fresh]
      BY <2>2 DEF Panel
    <3>. DEFINE next == [load EXCEPT !.status["dashboard"] = "fulfilled", !.panel = answered]
    <3>2. loads' = <<next>>
      BY <1>2, <2>1, <2>4, <3>1 DEF AnswerDashboard, LatestSnapshotAt
    <3>3. next \in Load /\ next.current /\ next.panel = answered /\ next.value = load.value
      BY <1>2, <2>2 DEF Load, Statuses
    <3>4. \A r \in Sources :
            next.status[r] = IF r = "dashboard" THEN "fulfilled" ELSE load.status[r]
      BY <2>2 DEF Load
    <3>5. load.status["dashboard"] = "counted"
      BY <1>2, <2>1, <2>4 DEF AnswerDashboard
    <3>6. load.value["dashboard"] =< server["dashboard"] /\ shown["dashboard"] =< load.value["dashboard"]
      BY <1>2, <2>2, <3>5 DEF InOrder
    <3>7. answered.last = collected
      BY <3>1
    <3>8. InOrder(next)'
      BY <1>1, <1>2, <2>2, <3>3, <3>4, <3>6, <3>7 DEF InOrder
    <3>. HIDE DEF next
    <3> QED BY <3>2, <3>3, <3>8
  <2>5. CASE Answer(i, s)
    BY <2>2, <2>3, <2>5 DEF Answer, Statuses
  <2>6. CASE Reject(i, s)
    BY <2>3, <2>6 DEF Reject, Statuses
  <2>7. CASE AbortError(i, s)
    BY <2>3, <2>7 DEF AbortError, Statuses
  <2>8. CASE s = "dashboard" /\ CountEvents(i)
    BY <2>2, <2>3, <2>8 DEF CountEvents, Statuses
  <2> QED BY <2>4, <2>5, <2>6, <2>7, <2>8 DEF Settles
<1>3. loads # <<>>
  BY <1>0
<1>4. /\ \A r \in Sources : server[r] =< server'[r] /\ server'[r] =< MaxVersion[r]
      /\ collected =< collected' /\ server'["dashboard"] =< collected'
      /\ fresh' \in BOOLEAN /\ server' \in [Sources -> Nat] /\ collected' \in Versions("dashboard")
  BY <1>1 DEF PageInv, Counters, Flags, Versions
<1> QED BY <1>1, <1>2, <1>3, <1>4, MovesOn

\* A load that ends shows what it was answered, and its failures.
LEMMA FinishKeeps ==
    ASSUME PageInv, NEW i \in 1..MaxLoads, Finish(i)
    PROVE  PageInv' /\ NoneGoesBack
<1>1. PICK load \in Load :
        /\ loads = <<load>> /\ load.current /\ InOrder(load)
        /\ controller /\ (isLoading \/ isRefreshing)
        /\ ~error /\ ~refreshError /\ ~qualityError
  BY DEF Finish, PageInv, OneLoad
<1>2. i = 1 /\ loads[i] = load
  BY <1>1 DEF Finish
<1>3. loads' = <<>>
  BY <1>1, <1>2 DEF Finish
<1>4. /\ load.status \in [Sources -> Statuses] /\ load.value \in [Sources -> Nat]
      /\ load.panel \in Panel /\ "dashboard" \in Sources
  BY DEF Load, Sources
<1>5. UNCHANGED <<server, collected, fresh, controller>>
  BY DEF Finish
<1>6. /\ shown' = [s \in Sources |->
                    IF load.status[s] = "fulfilled" THEN load.value[s] ELSE shown[s]]
      /\ panel' = IF load.status["dashboard"] = "fulfilled" THEN load.panel ELSE panel
  BY <1>2 DEF Finish
<1>7. Counters'
  BY <1>1, <1>4, <1>5, <1>6 DEF PageInv, Counters, InOrder, Panel, Versions
<1>8. NoneGoesBack
  BY <1>1, <1>4, <1>6 DEF PageInv, Counters, InOrder, Panel, Versions, NoneGoesBack
<1>9. /\ error' = RaisesError(load) /\ refreshError' = RaisesRefreshError(load)
      /\ qualityError' = RaisesQualityError(load) /\ failedLast' = Failed(load)
  BY <1>1, <1>2 DEF Finish, RaisesError, RaisesRefreshError, RaisesQualityError, Load
<1>10. Flags'
  <2>1. error' \in BOOLEAN /\ refreshError' \in BOOLEAN /\ qualityError' \in BOOLEAN
    BY <1>9 DEF RaisesError, RaisesRefreshError, RaisesQualityError, Load
  <2>2. isLoading' \in BOOLEAN /\ isRefreshing' \in BOOLEAN
    BY DEF Finish
  <2> QED BY <1>5, <2>1, <2>2 DEF PageInv, Flags
<1>11. Failed(load) # {} <=>
         RaisesError(load) \/ RaisesRefreshError(load) \/ RaisesQualityError(load)
  BY DEF RaisesError, RaisesRefreshError, RaisesQualityError, Failed, Sources, Load
<1>12. Warned' /\ OneLoad'
  BY <1>3, <1>9, <1>11 DEF Warned, OneLoad
<1> QED BY <1>7, <1>8, <1>10, <1>12 DEF PageInv

\* The preference changes nothing of this; closing the page marks the load.
LEMMA LeaveKeeps ==
    ASSUME PageInv, Toggle \/ Unmount \/ UNCHANGED vars
    PROVE  PageInv' /\ NoneGoesBack
<1>1. UNCHANGED <<server, collected, fresh, shown, panel, controller, flagVars, failedLast>>
  BY DEF Toggle, Unmount, vars, loadVars
<1>2. ASSUME NEW load \in Load, loads = <<load>>, load.current, InOrder(load)
      PROVE  \E next \in Load : loads' = <<next>> /\ next.current /\ InOrder(next)'
  <2>1. InOrder(load)'
    BY <1>1, <1>2 DEF InOrder
  <2>2. CASE Toggle \/ UNCHANGED vars
    BY <1>2, <2>1, <2>2 DEF Toggle, vars, loadVars
  <2>3. CASE Unmount
    <3>. DEFINE next == [load EXCEPT !.aborted = TRUE]
    <3>1. loads' = <<next>>
      <4>1. DOMAIN loads = {1} /\ loads[1] = load
        BY <1>2
      <4>2. loads' = [i \in {1} |-> next]
        BY <1>2, <2>3, <4>1 DEF Unmount
      <4>. HIDE DEF next
      <4> QED BY <4>2
    <3>2. next \in Load /\ next.current
      BY <1>2 DEF Load
    <3>3. InOrder(next)'
      BY <2>1 DEF InOrder, Load
    <3>. HIDE DEF next
    <3> QED BY <3>1, <3>2, <3>3
  <2> QED BY <2>2, <2>3
<1>3. loads = <<>> => loads' = <<>>
  BY DEF Toggle, Unmount, vars, loadVars
<1>4. /\ \A s \in Sources : server[s] =< server'[s] /\ server'[s] =< MaxVersion[s]
      /\ collected =< collected' /\ server'["dashboard"] =< collected'
      /\ fresh' \in BOOLEAN /\ server' \in [Sources -> Nat] /\ collected' \in Versions("dashboard")
  BY <1>1 DEF PageInv, Counters, Flags, Versions
<1> QED BY <1>1, <1>2, <1>3, <1>4, MovesOn

LEMMA PageStep == PageInv /\ [Next]_vars => PageInv' /\ NoneGoesBack
<1> SUFFICES ASSUME PageInv, [Next]_vars PROVE PageInv' /\ NoneGoesBack
  OBVIOUS
<1>1. CASE Mount \/ Tick \/ Click
  BY <1>1, StartKeeps DEF Mount, Tick, Click
<1>2. CASE \E i \in 1..MaxLoads : Finish(i)
  BY <1>2, FinishKeeps
<1>3. CASE \E i \in 1..MaxLoads, s \in Sources : Settles(i, s)
  BY <1>3, SettleKeeps
<1>4. CASE Collect \/ Expire \/ \E s \in Sources : ServerAdvances(s)
  BY <1>4, GrowthKeeps
<1>5. CASE Toggle \/ Unmount \/ UNCHANGED vars
  BY <1>5, LeaveKeeps
<1> QED BY <1>1, <1>2, <1>3, <1>4, <1>5 DEF Next

-----------------------------------------------------------------------------
(* Sums over the subsets of a finite set.                                  *)

\* The minimal counterexample of an argument by induction, among sets.
LEMMA SmallestSet ==
    ASSUME NEW S, IsFiniteSet(S), NEW C, C \subseteq SUBSET S, C # {}
    PROVE  \E m \in C : m \subseteq S /\ IsFiniteSet(m) /\ \A x \in m : m \ {x} \notin C
<1>1. IsWellFoundedOn(StrictSubsetOrdering(S), FiniteSubsetsOf(S))
  BY FS_StrictSubsetOrderingWellFounded
<1>2. \A m \in C : m \subseteq S /\ IsFiniteSet(m)
  BY FS_Subset
<1>3. C \subseteq FiniteSubsetsOf(S)
  BY <1>2 DEF FiniteSubsetsOf
<1>4. PICK m \in C : \A n \in C : ~(<<n, m>> \in StrictSubsetOrdering(S))
  BY <1>1, <1>3, WFMin
<1>5. ASSUME NEW x \in m, m \ {x} \in C PROVE FALSE
  <2>1. (m \ {x}) \subseteq m /\ m \ {x} # m
    BY <1>5
  <2>2. <<m \ {x}, m>> \in StrictSubsetOrdering(S)
    BY <1>2, <1>5, <2>1 DEF StrictSubsetOrdering
  <2> QED BY <1>4, <1>5, <2>2
<1> QED BY <1>2, <1>5

\* One step of the recursion of MapThenSumSet, and what it computes on the
\* family D of sets.
SumStep(F, it, s) ==
    IF s = {} THEN 0
    ELSE F[CHOOSE x \in s : TRUE] + it[s \ {CHOOSE x \in s : TRUE}]

Sums(F, D, it) == it = [s \in D |-> SumStep(F, it, s)]

IntsOn(F, S) == \A x \in S : F[x] \in Int

\* The sets of at most n members.
UpTo(S, n) == {s \in SUBSET S : Cardinality(s) =< n}

Small == {ss \in Nat \X Nat : ss[1] < ss[2]}

LEMMA LeastNatural ==
    ASSUME NEW S, S \subseteq Nat, S # {}
    PROVE  \E m \in S : \A n \in S : m <= n
<1>1. IsWellFoundedOn(Small, Nat)
  BY NatLessThanWellFounded DEF OpToRel, Small
<1>2. PICK m \in S : \A n \in S : ~(<<n, m>> \in Small)
  BY <1>1, WFMin
<1>3. ASSUME NEW n \in S, n < m PROVE FALSE
  <2>1. <<n, m>> \in Small
    BY <1>3 DEF Small
  <2> QED BY <1>2, <2>1
<1> QED BY <1>3

LEMMA Removed ==
    ASSUME NEW S, IsFiniteSet(S), NEW n \in Nat, NEW s \in UpTo(S, n), s # {}
    PROVE  /\ n # 0
           /\ s \ {CHOOSE x \in s : TRUE} \in UpTo(S, n - 1)
<1>1. IsFiniteSet(s) /\ s \subseteq S /\ Cardinality(s) =< n
  BY FS_Subset DEF UpTo
<1>2. (CHOOSE x \in s : TRUE) \in s
  OBVIOUS
<1>3. Cardinality(s) \in Nat /\ Cardinality(s) # 0
  BY <1>1, FS_CardinalityType, FS_EmptySet
<1>4. Cardinality(s \ {CHOOSE x \in s : TRUE}) = Cardinality(s) - 1
  BY <1>1, <1>2, FS_RemoveElement
<1> QED BY <1>1, <1>3, <1>4 DEF UpTo

LEMMA SumsExistUpTo ==
    ASSUME NEW S, IsFiniteSet(S), NEW F
    PROVE  \A n \in Nat : \E it : Sums(F, UpTo(S, n), it)
<1> DEFINE Bad == {n \in Nat : ~\E it : Sums(F, UpTo(S, n), it)}
<1>1. SUFFICES ASSUME Bad # {} PROVE FALSE
  OBVIOUS
<1>2. PICK n \in Bad : \A m \in Bad : n <= m
  <2>1. Bad \subseteq Nat
    OBVIOUS
  <2> HIDE DEF Bad
  <2> QED BY <1>1, <2>1, LeastNatural
<1>3. n \in Nat /\ ~\E it : Sums(F, UpTo(S, n), it)
  OBVIOUS
<1>4. CASE n = 0
  <2>1. \A s \in UpTo(S, 0) : s = {}
    <3> TAKE s \in UpTo(S, 0)
    <3> QED BY Removed
  <2>2. Sums(F, UpTo(S, 0), [s \in UpTo(S, 0) |-> 0])
    BY <2>1 DEF Sums, SumStep
  <2> QED BY <1>3, <1>4, <2>2
<1>5. CASE n # 0
  <2>1. n - 1 \in Nat /\ n - 1 \notin Bad
    <3> HIDE DEF Bad
    <3> QED BY <1>2, <1>3, <1>5
  <2>2. PICK h : Sums(F, UpTo(S, n - 1), h)
    BY <2>1
  <2> DEFINE longer == [s \in UpTo(S, n) |-> IF s \in UpTo(S, n - 1) THEN h[s] ELSE SumStep(F, h, s)]
  <2>3. ASSUME NEW s \in UpTo(S, n) PROVE longer[s] = SumStep(F, longer, s)
    <3> DEFINE x == CHOOSE x \in s : TRUE
    <3>1. \A t \in UpTo(S, n - 1) : t \in UpTo(S, n)
      <4> TAKE t \in UpTo(S, n - 1)
      <4>1. t \subseteq S /\ Cardinality(t) =< n - 1
        BY DEF UpTo
      <4>2. Cardinality(t) \in Nat
        BY <4>1, FS_Subset, FS_CardinalityType
      <4> QED BY <1>3, <4>1, <4>2 DEF UpTo
    <3>2. s # {} => s \ {x} \in UpTo(S, n - 1)
      BY <1>3, Removed
    <3>3. s # {} => longer[s \ {x}] = h[s \ {x}]
      BY <3>1, <3>2
    <3>4. SumStep(F, longer, s) = SumStep(F, h, s)
      BY <3>3 DEF SumStep
    <3>5. s \in UpTo(S, n - 1) => h[s] = SumStep(F, h, s)
      BY <2>2 DEF Sums
    <3> QED BY <3>4, <3>5
  <2>4. Sums(F, UpTo(S, n), longer)
    BY <2>3 DEF Sums
  <2> QED BY <1>3, <2>4
<1> QED BY <1>4, <1>5

LEMMA SumsExist ==
    ASSUME NEW S, IsFiniteSet(S), NEW F
    PROVE  \E it : Sums(F, SUBSET S, it)
<1>1. Cardinality(S) \in Nat
  BY FS_CardinalityType
<1>2. UpTo(S, Cardinality(S)) = SUBSET S
  BY FS_Subset DEF UpTo
<1>3. \E it : Sums(F, UpTo(S, Cardinality(S)), it)
  BY <1>1, SumsExistUpTo
<1> QED BY <1>2, <1>3

\* Sums over the subsets of a finite set: they are integers, and the member
\* that is chosen first does not matter.
LEMMA SumsAreInts ==
    ASSUME NEW S, IsFiniteSet(S), NEW F, IntsOn(F, S),
           NEW it, Sums(F, SUBSET S, it)
    PROVE  \A s \in SUBSET S : it[s] \in Int
<1> DEFINE Bad == {s \in SUBSET S : it[s] \notin Int}
<1>1. SUFFICES ASSUME Bad # {} PROVE FALSE
  OBVIOUS
<1>2. PICK s \in Bad : s \subseteq S /\ \A x \in s : s \ {x} \notin Bad
  <2>1. Bad \subseteq SUBSET S
    OBVIOUS
  <2> HIDE DEF Bad
  <2> QED BY <1>1, <2>1, SmallestSet
<1>3. it[s] = SumStep(F, it, s)
  BY <1>2 DEF Sums
<1>4. it[s] \notin Int
  OBVIOUS
<1>5. CASE s = {}
  BY <1>3, <1>4, <1>5 DEF SumStep
<1>6. CASE s # {}
  <2> DEFINE c == CHOOSE x \in s : TRUE
  <2>1. c \in s /\ c \in S
    BY <1>2, <1>6
  <2>2. it[s \ {c}] \in Int
    BY <1>2, <2>1
  <2>3. it[s] = F[c] + it[s \ {c}]
    BY <1>3, <1>6 DEF SumStep
  <2>4. F[c] \in Int
    BY <2>1 DEF IntsOn
  <2> HIDE DEF c
  <2> QED BY <1>4, <2>2, <2>3, <2>4
<1> QED BY <1>5, <1>6

LEMMA SumsTake ==
    ASSUME NEW S, IsFiniteSet(S), NEW F, IntsOn(F, S),
           NEW it, Sums(F, SUBSET S, it)
    PROVE  \A s \in SUBSET S : \A x \in s : it[s] = F[x] + it[s \ {x}]
<1> DEFINE Bad == {s \in SUBSET S : ~\A x \in s : it[s] = F[x] + it[s \ {x}]}
<1>1. SUFFICES ASSUME Bad # {} PROVE FALSE
  OBVIOUS
<1>2. PICK s \in Bad : s \subseteq S /\ \A x \in s : s \ {x} \notin Bad
  <2>1. Bad \subseteq SUBSET S
    OBVIOUS
  <2> HIDE DEF Bad
  <2> QED BY <1>1, <2>1, SmallestSet
<1>3. PICK x \in s : it[s] # F[x] + it[s \ {x}]
  OBVIOUS
<1> DEFINE c == CHOOSE y \in s : TRUE
<1>4. c \in s
  BY <1>3
<1>5. it[s] = F[c] + it[s \ {c}]
  BY <1>2, <1>3 DEF Sums, SumStep
<1>6. \A y \in s : \A z \in s \ {y} : it[s \ {y}] = F[z] + it[(s \ {y}) \ {z}]
  <2> TAKE y \in s
  <2>1. s \ {y} \notin Bad /\ s \ {y} \in SUBSET S
    BY <1>2
  <2> QED BY <2>1
<1> HIDE DEF c, Bad
<1>7. x # c
  BY <1>3, <1>5
<1>8. it[s \ {c}] = F[x] + it[(s \ {c}) \ {x}]
  BY <1>4, <1>6, <1>7
<1>9. it[s \ {x}] = F[c] + it[(s \ {x}) \ {c}]
  BY <1>4, <1>6, <1>7
<1>10. (s \ {x}) \ {c} = (s \ {c}) \ {x}
  OBVIOUS
<1>11. it[(s \ {x}) \ {c}] = it[(s \ {c}) \ {x}]
  BY <1>10
<1>12. F[x] \in Int /\ F[c] \in Int /\ it[(s \ {x}) \ {c}] \in Int
  <2>1. (s \ {x}) \ {c} \in SUBSET S /\ x \in S /\ c \in S
    BY <1>2, <1>4
  <2>2. it[(s \ {x}) \ {c}] \in Int
    BY <2>1, SumsAreInts
  <2> QED BY <2>1, <2>2 DEF IntsOn
<1>13. it[s] = F[x] + it[s \ {x}]
  BY <1>5, <1>8, <1>9, <1>11, <1>12
<1> QED BY <1>3, <1>13

\* Disjoint sets add up.
LEMMA SumsUnion ==
    ASSUME NEW S, IsFiniteSet(S), NEW F, IntsOn(F, S),
           NEW it, Sums(F, SUBSET S, it), NEW s \in SUBSET S
    PROVE  \A t \in SUBSET S : s \cap t = {} => it[s \cup t] = it[s] + it[t]
<1> DEFINE Bad == {t \in SUBSET S : s \cap t = {} /\ it[s \cup t] # it[s] + it[t]}
<1>1. SUFFICES ASSUME Bad # {} PROVE FALSE
  OBVIOUS
<1>2. PICK t \in Bad : t \subseteq S /\ \A x \in t : t \ {x} \notin Bad
  <2>1. Bad \subseteq SUBSET S
    OBVIOUS
  <2> HIDE DEF Bad
  <2>2. \E m \in Bad : m \subseteq S /\ IsFiniteSet(m) /\ \A x \in m : m \ {x} \notin Bad
    BY <1>1, <2>1, SmallestSet
  <2> QED BY <2>2
<1>3. s \cap t = {} /\ it[s \cup t] # it[s] + it[t]
  OBVIOUS
<1>4. it[s] \in Int
  BY SumsAreInts
<1>5. CASE t = {}
  <2>1. it[{}] = 0
    BY DEF Sums, SumStep
  <2>2. s \cup t = s
    BY <1>5
  <2> QED BY <1>3, <1>4, <1>5, <2>1, <2>2
<1>6. CASE t # {}
  <2>1. PICK x \in t : TRUE
    BY <1>6
  <2>2. it[s \cup (t \ {x})] = it[s] + it[t \ {x}]
    <3>1. t \ {x} \notin Bad /\ t \ {x} \in SUBSET S /\ s \cap (t \ {x}) = {}
      BY <1>2, <1>3
    <3> QED BY <3>1
  <2> HIDE DEF Bad
  <2>3. it[t] = F[x] + it[t \ {x}]
    BY <1>2, SumsTake
  <2>4. it[s \cup t] = F[x] + it[s \cup (t \ {x})]
    <3>1. (s \cup t) \ {x} = s \cup (t \ {x}) /\ x \in s \cup t /\ s \cup t \in SUBSET S
      BY <1>2, <1>3
    <3> QED BY <3>1, SumsTake
  <2>5. F[x] \in Int /\ it[t \ {x}] \in Int
    <3>1. x \in S /\ t \ {x} \in SUBSET S
      BY <1>2
    <3>2. it[t \ {x}] \in Int
      BY <3>1, SumsAreInts
    <3> QED BY <3>1, <3>2 DEF IntsOn
  <2> QED BY <1>3, <1>4, <2>2, <2>3, <2>4, <2>5
<1> QED BY <1>5, <1>6

\* The sum over a set does not depend on the set it is computed within.
LEMMA SumsAgree ==
    ASSUME NEW S, IsFiniteSet(S), NEW F, NEW it, Sums(F, SUBSET S, it)
    PROVE  \A T \in SUBSET S : \A jt : Sums(F, SUBSET T, jt) => jt[T] = it[T]
<1> SUFFICES ASSUME NEW T \in SUBSET S, NEW jt, Sums(F, SUBSET T, jt)
             PROVE  jt[T] = it[T]
  OBVIOUS
<1> DEFINE Bad == {s \in SUBSET T : jt[s] # it[s]}
<1>1. SUFFICES ASSUME Bad # {} PROVE FALSE
  <2>1. T \in SUBSET T
    OBVIOUS
  <2> QED BY <2>1
<1>2. PICK s \in Bad : s \subseteq T /\ \A x \in s : s \ {x} \notin Bad
  <2>1. Bad \subseteq SUBSET T
    OBVIOUS
  <2>2. IsFiniteSet(T)
    BY FS_Subset
  <2> HIDE DEF Bad
  <2>3. \E m \in Bad : m \subseteq T /\ IsFiniteSet(m) /\ \A x \in m : m \ {x} \notin Bad
    BY <1>1, <2>1, <2>2, SmallestSet
  <2> QED BY <2>3
<1>3. jt[s] # it[s]
  OBVIOUS
<1>4. jt[s] = SumStep(F, jt, s) /\ it[s] = SumStep(F, it, s)
  BY <1>2 DEF Sums
<1>5. CASE s = {}
  BY <1>3, <1>4, <1>5 DEF SumStep
<1>6. CASE s # {}
  <2> DEFINE c == CHOOSE x \in s : TRUE
  <2>1. c \in s /\ c \in T
    BY <1>2, <1>6
  <2>2. jt[s \ {c}] = it[s \ {c}]
    <3>1. s \ {c} \notin Bad /\ s \ {c} \in SUBSET T
      BY <1>2, <2>1
    <3> QED BY <3>1
  <2>3. jt[s] = F[c] + jt[s \ {c}] /\ it[s] = F[c] + it[s \ {c}]
    BY <1>4, <1>6 DEF SumStep
  <2> HIDE DEF c
  <2> QED BY <1>3, <2>2, <2>3
<1> QED BY <1>5, <1>6

-----------------------------------------------------------------------------
(* The groups of the errors and their sums.                                *)

ErrorOf == [k \in 1 .. Len(Errors) |-> Errors[k].error]
CountOf(n) == [g \in Groups(n) |-> g.count]
TotalOf(n) == [g \in Groups(n) |-> g.total]

LEMMA TotalIs ==
    ASSUME NEW S \in SUBSET (1 .. Len(Errors)), IsFiniteSet(S)
    PROVE  \E it : Sums(ErrorOf, SUBSET S, it) /\ Total(S) = it[S]
<1> DEFINE Is(it) == it = [s \in SUBSET S |->
                            IF s = {} THEN 0
                            ELSE Errors[CHOOSE x \in s : TRUE].error
                                 + it[s \ {CHOOSE x \in s : TRUE}]]
<1>1. ASSUME NEW it PROVE Is(it) <=> Sums(ErrorOf, SUBSET S, it)
  <2>1. ASSUME NEW s \in SUBSET S, s # {}
        PROVE  ErrorOf[CHOOSE x \in s : TRUE] = Errors[CHOOSE x \in s : TRUE].error
    <3>1. (CHOOSE x \in s : TRUE) \in 1 .. Len(Errors)
      BY <2>1
    <3> QED BY <3>1 DEF ErrorOf
  <2>2. \A s \in SUBSET S :
            SumStep(ErrorOf, it, s) =
            IF s = {} THEN 0
            ELSE Errors[CHOOSE x \in s : TRUE].error + it[s \ {CHOOSE x \in s : TRUE}]
    BY <2>1 DEF SumStep
  <2> QED BY <2>2 DEF Sums
<1>2. \E it : Is(it)
  <2>1. \E it : Sums(ErrorOf, SUBSET S, it)
    BY SumsExist
  <2> HIDE DEF Is
  <2> QED BY <1>1, <2>1
<1>3. Total(S) = (CHOOSE it : Is(it))[S]
  BY DEF Total, MapThenSumSet, MapThenFoldSet
<1> HIDE DEF Is
<1>4. Is(CHOOSE it : Is(it))
  BY <1>2
<1> QED BY <1>1, <1>3, <1>4

LEMMA CountsSum ==
    ASSUME NEW n, NEW rows \in SUBSET Groups(n), IsFiniteSet(rows)
    PROVE  \E it : /\ Sums(CountOf(n), SUBSET rows, it)
                   /\ MapThenSumSet(LAMBDA g : g.count, rows) = it[rows]
<1> DEFINE Is(it) == it = [s \in SUBSET rows |->
                            IF s = {} THEN 0
                            ELSE (CHOOSE x \in s : TRUE).count
                                 + it[s \ {CHOOSE x \in s : TRUE}]]
<1>1. ASSUME NEW it PROVE Is(it) <=> Sums(CountOf(n), SUBSET rows, it)
  <2>1. ASSUME NEW s \in SUBSET rows, s # {}
        PROVE  CountOf(n)[CHOOSE x \in s : TRUE] = (CHOOSE x \in s : TRUE).count
    <3>1. (CHOOSE x \in s : TRUE) \in Groups(n)
      BY <2>1
    <3> QED BY <3>1 DEF CountOf
  <2>2. \A s \in SUBSET rows :
            SumStep(CountOf(n), it, s) =
            IF s = {} THEN 0
            ELSE (CHOOSE x \in s : TRUE).count + it[s \ {CHOOSE x \in s : TRUE}]
    BY <2>1 DEF SumStep
  <2> QED BY <2>2 DEF Sums
<1>2. \E it : Is(it)
  <2>1. \E it : Sums(CountOf(n), SUBSET rows, it)
    BY SumsExist
  <2> HIDE DEF Is
  <2> QED BY <1>1, <2>1
<1>3. MapThenSumSet(LAMBDA g : g.count, rows) = (CHOOSE it : Is(it))[rows]
  BY DEF MapThenSumSet, MapThenFoldSet
<1> HIDE DEF Is
<1>4. Is(CHOOSE it : Is(it))
  BY <1>2
<1> QED BY <1>1, <1>3, <1>4

LEMMA TotalsSum ==
    ASSUME NEW n, NEW rows \in SUBSET Groups(n), IsFiniteSet(rows)
    PROVE  \E it : /\ Sums(TotalOf(n), SUBSET rows, it)
                   /\ MapThenSumSet(LAMBDA g : g.total, rows) = it[rows]
<1> DEFINE Is(it) == it = [s \in SUBSET rows |->
                            IF s = {} THEN 0
                            ELSE (CHOOSE x \in s : TRUE).total
                                 + it[s \ {CHOOSE x \in s : TRUE}]]
<1>1. ASSUME NEW it PROVE Is(it) <=> Sums(TotalOf(n), SUBSET rows, it)
  <2>1. ASSUME NEW s \in SUBSET rows, s # {}
        PROVE  TotalOf(n)[CHOOSE x \in s : TRUE] = (CHOOSE x \in s : TRUE).total
    <3>1. (CHOOSE x \in s : TRUE) \in Groups(n)
      BY <2>1
    <3> QED BY <3>1 DEF TotalOf
  <2>2. \A s \in SUBSET rows :
            SumStep(TotalOf(n), it, s) =
            IF s = {} THEN 0
            ELSE (CHOOSE x \in s : TRUE).total + it[s \ {CHOOSE x \in s : TRUE}]
    BY <2>1 DEF SumStep
  <2> QED BY <2>2 DEF Sums
<1>2. \E it : Is(it)
  <2>1. \E it : Sums(TotalOf(n), SUBSET rows, it)
    BY SumsExist
  <2> HIDE DEF Is
  <2> QED BY <1>1, <2>1
<1>3. MapThenSumSet(LAMBDA g : g.total, rows) = (CHOOSE it : Is(it))[rows]
  BY DEF MapThenSumSet, MapThenFoldSet
<1> HIDE DEF Is
<1>4. Is(CHOOSE it : Is(it))
  BY <1>2
<1> QED BY <1>1, <1>3, <1>4

\* The group of an error, and the facts about groups.
GroupOf(n, k) ==
    LET sample == Sample(n, Errors[k].route, Horizon(Errors[k]))
    IN  [route |-> Errors[k].route, horizon |-> Horizon(Errors[k]),
         count |-> Cardinality(sample), total |-> Total(sample)]

LEMMA GroupsAre ==
    ASSUME NEW n \in 0 .. Len(Errors)
    PROVE  /\ Groups(n) = {GroupOf(n, k) : k \in 1 .. n}
           /\ IsFiniteSet(Groups(n))
<1>1. Groups(n) = {GroupOf(n, k) : k \in 1 .. n}
  <2>1. ASSUME NEW g \in Groups(n) PROVE \E k \in 1 .. n : g = GroupOf(n, k)
    <3>1. PICK key \in {<<Errors[k].route, Horizon(Errors[k])>> : k \in 1 .. n} :
            g = [route |-> key[1], horizon |-> key[2],
                 count |-> Cardinality(Sample(n, key[1], key[2])),
                 total |-> Total(Sample(n, key[1], key[2]))]
      BY <2>1 DEF Groups
    <3>2. PICK k \in 1 .. n : key = <<Errors[k].route, Horizon(Errors[k])>>
      BY <3>1
    <3>3. key[1] = Errors[k].route /\ key[2] = Horizon(Errors[k])
      BY <3>2
    <3> QED BY <3>1, <3>3 DEF GroupOf
  <2>2. ASSUME NEW k \in 1 .. n PROVE GroupOf(n, k) \in Groups(n)
    <3> DEFINE key == <<Errors[k].route, Horizon(Errors[k])>>
    <3>1. key[1] = Errors[k].route /\ key[2] = Horizon(Errors[k])
      OBVIOUS
    <3>2. key \in {<<Errors[j].route, Horizon(Errors[j])>> : j \in 1 .. n}
      OBVIOUS
    <3>3. GroupOf(n, k) = [route |-> key[1], horizon |-> key[2],
                           count |-> Cardinality(Sample(n, key[1], key[2])),
                           total |-> Total(Sample(n, key[1], key[2]))]
      BY <3>1 DEF GroupOf
    <3> HIDE DEF key
    <3> QED BY <3>2, <3>3 DEF Groups
  <2> QED BY <2>1, <2>2
<1>2. IsFiniteSet(1 .. n)
  BY ApiAssumption, FS_Interval
<1> DEFINE f == [k \in 1 .. n |-> GroupOf(n, k)]
<1>3. f \in Surjection(1 .. n, Groups(n))
  <2>1. f \in [1 .. n -> Groups(n)]
    BY <1>1
  <2>2. \A g \in Groups(n) : \E k \in 1 .. n : f[k] = g
    BY <1>1
  <2> QED BY <2>1, <2>2 DEF Surjection
<1>4. IsFiniteSet(Groups(n))
  BY <1>2, <1>3, FS_Surjection
<1> QED BY <1>1, <1>4

\* The n oldest errors.
Oldest(n) == 1 .. n

LEMMA SamplesAreFinite ==
    ASSUME NEW n \in 0 .. Len(Errors)
    PROVE  \A s \in SUBSET Oldest(n) :
            s \in SUBSET (1 .. Len(Errors)) /\ IsFiniteSet(s) /\ Cardinality(s) \in Nat
<1> TAKE s \in SUBSET Oldest(n)
<1>0. s \in SUBSET (1 .. n)
  BY DEF Oldest
<1>1. Len(Errors) \in Nat /\ n \in Nat
  BY ApiAssumption
<1>2. IsFiniteSet(1 .. n)
  BY <1>1, FS_Interval
<1>3. IsFiniteSet(s)
  BY <1>0, <1>2, FS_Subset
<1>4. s \in SUBSET (1 .. Len(Errors))
  BY <1>0, <1>1
<1> QED BY <1>3, <1>4, FS_CardinalityType

\* The total of a sample, seen within all the errors.
LEMMA TotalWithin ==
    ASSUME NEW n \in 0 .. Len(Errors), NEW s \in SUBSET Oldest(n),
           NEW it, Sums(ErrorOf, SUBSET Oldest(n), it)
    PROVE  Total(s) = it[s]
<1>1. IsFiniteSet(Oldest(n))
  BY SamplesAreFinite
<1>0. IsFiniteSet(s) /\ s \in SUBSET (1 .. Len(Errors))
  BY SamplesAreFinite
<1>2. PICK jt : Sums(ErrorOf, SUBSET s, jt) /\ Total(s) = jt[s]
  BY <1>0, TotalIs
<1>3. jt[s] = it[s]
  <2>1. Sums(ErrorOf, SUBSET s, jt)
    BY <1>2
  <2> QED BY <1>1, <2>1, SumsAgree
<1> QED BY <1>2, <1>3

\* The errors that some rows weigh.
Weighed(n, rows) ==
    {k \in 1 .. n : \E g \in rows :
        Errors[k].route = g.route /\ Horizon(Errors[k]) = g.horizon}

\* The sample of g apart from those of the other rows.
Apart(n, rows, g) ==
    /\ g.count = Cardinality(Sample(n, g.route, g.horizon))
    /\ g.total = Total(Sample(n, g.route, g.horizon))
    /\ Sample(n, g.route, g.horizon) \in SUBSET Oldest(n)
    /\ Weighed(n, rows \ {g}) \in SUBSET Oldest(n)
    /\ Sample(n, g.route, g.horizon) \cap Weighed(n, rows \ {g}) = {}
    /\ Sample(n, g.route, g.horizon) \cup Weighed(n, rows \ {g}) = Weighed(n, rows)

LEMMA WeighedTakes ==
    ASSUME NEW n \in 0 .. Len(Errors), NEW rows \in SUBSET Groups(n), NEW g \in rows
    PROVE  Apart(n, rows, g)
<1> DEFINE sample == Sample(n, g.route, g.horizon)
           others == Weighed(n, rows \ {g})
<1>1. \A h \in rows : \E k \in 1 .. n : h = GroupOf(n, k)
  BY GroupsAre
<1>2. \A h \in rows : \E route, horizon :
        /\ h.route = route /\ h.horizon = horizon
        /\ h = [route |-> route, horizon |-> horizon,
                count |-> Cardinality(Sample(n, route, horizon)),
                total |-> Total(Sample(n, route, horizon))]
  BY <1>1 DEF GroupOf
<1>3. g.count = Cardinality(sample) /\ g.total = Total(sample)
  BY <1>2
<1>4. ASSUME NEW h \in rows, h.route = g.route, h.horizon = g.horizon PROVE h = g
  <2>1. \A x \in rows : x = [route |-> x.route, horizon |-> x.horizon,
                count |-> Cardinality(Sample(n, x.route, x.horizon)),
                total |-> Total(Sample(n, x.route, x.horizon))]
    BY <1>2
  <2>2. h = [route |-> h.route, horizon |-> h.horizon,
                count |-> Cardinality(Sample(n, h.route, h.horizon)),
                total |-> Total(Sample(n, h.route, h.horizon))]
    BY <2>1
  <2>3. g = [route |-> g.route, horizon |-> g.horizon,
                count |-> Cardinality(Sample(n, g.route, g.horizon)),
                total |-> Total(Sample(n, g.route, g.horizon))]
    BY <2>1
  <2> QED BY <1>4, <2>2, <2>3
<1>5. sample \in SUBSET Oldest(n) /\ others \in SUBSET Oldest(n)
  BY DEF Sample, Weighed, Oldest
<1>6. sample \cap others = {}
  BY <1>4 DEF Sample, Weighed
<1>7. sample \cup others = Weighed(n, rows)
  BY DEF Sample, Weighed
<1> QED BY <1>3, <1>5, <1>6, <1>7 DEF Apart

\* Rows add up to the errors they weigh, whatever routes they are of.
LEMMA RowsAdd ==
    ASSUME NEW n \in 0 .. Len(Errors), NEW rows \in SUBSET Groups(n)
    PROVE  /\ MapThenSumSet(LAMBDA g : g.count, rows) = Cardinality(Weighed(n, rows))
           /\ MapThenSumSet(LAMBDA g : g.total, rows) = Total(Weighed(n, rows))
<1>1. IsFiniteSet(rows) /\ IsFiniteSet(Groups(n))
  BY GroupsAre, FS_Subset
<1>2. PICK ct : /\ Sums(CountOf(n), SUBSET rows, ct)
                /\ MapThenSumSet(LAMBDA g : g.count, rows) = ct[rows]
  BY <1>1, CountsSum
<1>3. PICK tt : /\ Sums(TotalOf(n), SUBSET rows, tt)
                /\ MapThenSumSet(LAMBDA g : g.total, rows) = tt[rows]
  BY <1>1, TotalsSum
<1>4. IsFiniteSet(Oldest(n))
  BY SamplesAreFinite
<1>5. PICK it : Sums(ErrorOf, SUBSET Oldest(n), it)
  BY <1>4, SumsExist
<1>6. IntsOn(ErrorOf, Oldest(n))
  <2>1. ASSUME NEW k \in Oldest(n) PROVE ErrorOf[k] \in Int
    <3>1. k \in 1 .. Len(Errors)
      BY ApiAssumption DEF Oldest
    <3>2. Errors[k] \in Error
      BY <3>1, ApiAssumption
    <3>3. Errors[k].error \in Int
      BY <3>2 DEF Error
    <3> QED BY <3>1, <3>3 DEF ErrorOf
  <2> QED BY <2>1 DEF IntsOn
<1> DEFINE Good(r) == ct[r] = Cardinality(Weighed(n, r)) /\ tt[r] = it[Weighed(n, r)]
           Bad == {r \in SUBSET rows : ~Good(r)}
<1>7. ASSUME Bad # {} PROVE FALSE
  <2>1. PICK r \in Bad : r \subseteq rows /\ \A g \in r : r \ {g} \notin Bad
    <3>1. Bad \subseteq SUBSET rows
      OBVIOUS
    <3> HIDE DEF Bad
    <3>2. \E m \in Bad : m \subseteq rows /\ IsFiniteSet(m) /\ \A x \in m : m \ {x} \notin Bad
      BY <1>1, <1>7, <3>1, SmallestSet
    <3> QED BY <3>2
  <2>2. ~Good(r) /\ r \in SUBSET rows
    OBVIOUS
  <2>3. CASE r = {}
    <3>1. Weighed(n, r) = {}
      BY <2>3 DEF Weighed
    <3>2. ct[r] = 0 /\ tt[r] = 0 /\ it[{}] = 0
      BY <1>2, <1>3, <1>5, <2>2, <2>3 DEF Sums, SumStep
    <3> QED BY <2>2, <3>1, <3>2, FS_EmptySet
  <2>4. CASE r # {}
    <3>1. PICK g \in r : TRUE
      BY <2>4
    <3> DEFINE sample == Sample(n, g.route, g.horizon)
               others == Weighed(n, r \ {g})
    <3>2. Good(r \ {g})
      BY <2>1, <2>2
    <3>3. r \in SUBSET Groups(n)
      BY <2>2
    <3>4. /\ g.count = Cardinality(sample) /\ g.total = Total(sample)
          /\ sample \in SUBSET Oldest(n) /\ others \in SUBSET Oldest(n)
          /\ sample \cap others = {}
          /\ sample \cup others = Weighed(n, r)
      <4>1. Apart(n, r, g)
        BY <3>3, WeighedTakes
      <4> QED BY <4>1 DEF Apart
    <3> HIDE DEF sample, others
    <3>5. /\ \A x \in rows : CountOf(n)[x] = x.count /\ TotalOf(n)[x] = x.total
          /\ IntsOn(CountOf(n), rows) /\ IntsOn(TotalOf(n), rows)
      <4>1. ASSUME NEW x \in rows PROVE x.count \in Int /\ x.total \in Int
        <5>1. /\ x.count = Cardinality(Sample(n, x.route, x.horizon))
              /\ x.total = Total(Sample(n, x.route, x.horizon))
              /\ Sample(n, x.route, x.horizon) \in SUBSET Oldest(n)
          <6>1. Apart(n, rows, x)
            BY WeighedTakes
          <6> QED BY <6>1 DEF Apart
        <5>2. x.count \in Nat
          BY <5>1, SamplesAreFinite
        <5>3. x.total = it[Sample(n, x.route, x.horizon)]
          BY <1>5, <5>1, TotalWithin
        <5>4. it[Sample(n, x.route, x.horizon)] \in Int
          BY <1>4, <1>5, <1>6, <5>1, SumsAreInts
        <5> QED BY <5>2, <5>3, <5>4
      <4>2. \A x \in rows : CountOf(n)[x] = x.count /\ TotalOf(n)[x] = x.total
        BY DEF CountOf, TotalOf
      <4> QED BY <4>1, <4>2 DEF IntsOn
    <3>6. ct[r] = g.count + ct[r \ {g}]
      <4>1. ct[r] = CountOf(n)[g] + ct[r \ {g}]
        BY <1>1, <1>2, <2>2, <3>5, SumsTake
      <4> QED BY <2>2, <3>5, <4>1
    <3>7. tt[r] = g.total + tt[r \ {g}]
      <4>1. tt[r] = TotalOf(n)[g] + tt[r \ {g}]
        BY <1>1, <1>3, <2>2, <3>5, SumsTake
      <4> QED BY <2>2, <3>5, <4>1
    <3>8. Cardinality(Weighed(n, r)) = Cardinality(sample) + Cardinality(others)
      <4>1. /\ IsFiniteSet(sample) /\ IsFiniteSet(others)
            /\ Cardinality(sample) \in Nat /\ Cardinality(others) \in Nat
        BY <3>4, SamplesAreFinite
      <4>2. Cardinality(sample \cup others) =
              Cardinality(sample) + Cardinality(others) - Cardinality(sample \cap others)
        BY <4>1, FS_Union
      <4>3. Cardinality(sample \cap others) = 0
        BY <3>4, FS_EmptySet
      <4>4. Cardinality(sample \cup others) = Cardinality(sample) + Cardinality(others)
        BY <4>1, <4>2, <4>3
      <4>5. sample \cup others = Weighed(n, r)
        BY <3>4
      <4> QED BY <4>4, <4>5
    <3>9. it[Weighed(n, r)] = it[sample] + it[others]
      <4>1. /\ sample \in SUBSET Oldest(n) /\ others \in SUBSET Oldest(n)
            /\ sample \cap others = {}
        BY <3>4
      <4>2. it[sample \cup others] = it[sample] + it[others]
        BY <1>4, <1>5, <1>6, <4>1, SumsUnion
      <4> QED BY <3>4, <4>2
    <3>10. Total(sample) = it[sample]
      BY <1>5, <3>4, TotalWithin
    <3>11. ct[r \ {g}] = Cardinality(others) /\ tt[r \ {g}] = it[others]
      BY <3>2 DEF others
    <3> QED BY <2>2, <3>4, <3>6, <3>7, <3>8, <3>9, <3>10, <3>11
  <2> QED BY <2>3, <2>4
<1>8. Good(rows)
  <2>1. rows \in SUBSET rows
    OBVIOUS
  <2> QED BY <1>7, <2>1
<1>9. Total(Weighed(n, rows)) = it[Weighed(n, rows)]
  <2>1. Weighed(n, rows) \in SUBSET Oldest(n)
    BY DEF Weighed, Oldest
  <2> QED BY <1>5, <2>1, TotalWithin
<1> QED BY <1>2, <1>3, <1>8, <1>9

-----------------------------------------------------------------------------
(* The order of the summary and its limits.                                *)

LEMMA HorizonIsInt ==
    ASSUME NEW e \in Error
    PROVE  Horizon(e) \in Int
<1>1. e.predicted - e.recorded \in Int /\ MaxHorizon \in Int
  BY ApiAssumption DEF Error
<1>2. ASSUME NEW a \in Int, NEW b \in Int
      PROVE  Min({a, b}) \in Int /\ Max({a, b}) \in Int
  <2>1. \E x \in {a, b} : \A y \in {a, b} : x =< y
    OBVIOUS
  <2>2. \E x \in {a, b} : \A y \in {a, b} : x >= y
    OBVIOUS
  <2>3. Min({a, b}) \in {a, b}
    BY <2>1 DEF Min
  <2>4. Max({a, b}) \in {a, b}
    BY <2>2 DEF Max
  <2> QED BY <2>3, <2>4
<1>3. Min({MaxHorizon, e.predicted - e.recorded}) \in Int
  BY <1>1, <1>2
<1> QED BY <1>2, <1>3 DEF Horizon

LEMMA LimitsAreInts ==
    Limit({QualityLimit}) \in Int /\ RepositoryLimit(Limit({QualityLimit})) \in Int
<1>1. ASSUME NEW a \in Int, NEW b \in Int
      PROVE  Min({a, b}) \in Int
  <2>1. \E x \in {a, b} : \A y \in {a, b} : x =< y
    OBVIOUS
  <2>2. Min({a, b}) \in {a, b}
    BY <2>1 DEF Min
  <2> QED BY <2>2
<1>2. MaxLimit \in Int /\ DefaultLimit \in Int /\ QualityLimit \in Int
  BY ApiAssumption, DashboardAssumption
<1>3. (CHOOSE n \in {QualityLimit} : TRUE) = QualityLimit
  OBVIOUS
<1>4. Limit({QualityLimit}) \in Int
  BY <1>1, <1>2, <1>3 DEF Limit, None
<1> QED BY <1>1, <1>2, <1>4 DEF RepositoryLimit

LEMMA GroupsTyped ==
    ASSUME NEW n \in 0 .. Len(Errors)
    PROVE  /\ \A g \in Groups(n) : g.route \in Int /\ g.horizon \in Int
           /\ \A k \in 1 .. n : /\ GroupOf(n, k) \in Groups(n)
                                /\ GroupOf(n, k).route = Errors[k].route
                                /\ GroupOf(n, k).horizon = Horizon(Errors[k])
<1>1. \A k \in 1 .. n : Errors[k] \in Error
  BY ApiAssumption
<1>2. \A k \in 1 .. n : Errors[k].route \in Int /\ Horizon(Errors[k]) \in Int
  BY <1>1, HorizonIsInt DEF Error
<1>3. \A k \in 1 .. n : /\ GroupOf(n, k).route = Errors[k].route
                        /\ GroupOf(n, k).horizon = Horizon(Errors[k])
  BY DEF GroupOf
<1> QED BY <1>2, <1>3, GroupsAre

\* The rows that a limit keeps are the first: with a row, all before it.
LEMMA FirstKeeps ==
    ASSUME NEW rows, IsFiniteSet(rows), \A g \in rows : g.route \in Int /\ g.horizon \in Int,
           NEW m \in Int
    PROVE  \A g \in First(rows, m) : \A h \in rows : Precedes(h, g) => h \in First(rows, m)
<1> TAKE g \in First(rows, m)
<1> TAKE h \in rows
<1> HAVE Precedes(h, g)
<1> DEFINE before(x) == {y \in rows : Precedes(y, x)}
<1>1. g \in rows /\ Cardinality(before(g)) < m
  BY DEF First
<1>2. before(h) \subseteq before(g)
  BY <1>1 DEF Precedes
<1>3. /\ IsFiniteSet(before(g)) /\ IsFiniteSet(before(h))
      /\ Cardinality(before(h)) =< Cardinality(before(g))
  <2>1. IsFiniteSet(before(g))
    <3>1. before(g) \in SUBSET rows
      OBVIOUS
    <3> QED BY <3>1, FS_Subset
  <2>2. before(h) \in SUBSET before(g)
    BY <1>2
  <2> HIDE DEF before
  <2> QED BY <2>1, <2>2, FS_Subset
<1>4. Cardinality(before(g)) \in Nat /\ Cardinality(before(h)) \in Nat
  BY <1>3, FS_CardinalityType
<1>5. Cardinality(before(h)) < m
  BY <1>1, <1>3, <1>4
<1> QED BY <1>5 DEF First

LEMMA SummaryKeeps ==
    ASSUME NEW n \in 0 .. Len(Errors)
    PROVE  LET summary == ErrorSummary(n, {QualityLimit})
           IN  /\ summary \subseteq Groups(n)
               /\ \A g \in summary : \A h \in Groups(n) : Precedes(h, g) => h \in summary
<1> DEFINE kept == SummaryRows(n, Limit({QualityLimit}))
           summary == ErrorSummary(n, {QualityLimit})
<1>1. IsFiniteSet(Groups(n)) /\ \A g \in Groups(n) : g.route \in Int /\ g.horizon \in Int
  BY GroupsAre, GroupsTyped
<1>2. kept \in SUBSET Groups(n) /\ summary \in SUBSET kept
  BY DEF SummaryRows, ErrorSummary, First
<1>3. IsFiniteSet(kept) /\ \A g \in kept : g.route \in Int /\ g.horizon \in Int
  <2>1. IsFiniteSet(kept)
    BY <1>1, <1>2, FS_Subset
  <2> QED BY <1>1, <1>2, <2>1
<1>4. \A g \in kept : \A h \in Groups(n) : Precedes(h, g) => h \in kept
  BY <1>1, LimitsAreInts, FirstKeeps DEF SummaryRows
<1>5. \A g \in summary : \A h \in kept : Precedes(h, g) => h \in summary
  BY <1>3, LimitsAreInts, FirstKeeps DEF ErrorSummary
<1> QED BY <1>2, <1>4, <1>5

LEMMA PointsAreExact ==
    ASSUME NEW n \in Versions("quality"), NEW p \in Points[n],
           NEW k \in 1 .. n, Horizon(Errors[k]) < p.horizon
    PROVE  LET sample == {j \in 1 .. n : Horizon(Errors[j]) = Horizon(Errors[k])}
           IN  [horizon |-> Horizon(Errors[k]), count |-> Cardinality(sample),
                total |-> Total(sample)] \in Points[n]
<1> DEFINE h == Horizon(Errors[k])
           sample == {j \in 1 .. n : Horizon(Errors[j]) = h}
           rows == {g \in Summaries[n] : g.horizon = h}
<1>1. n \in 0 .. Len(Errors)
  <2>1. MaxVersion["quality"] \in Nat /\ MaxVersion["quality"] =< Len(Errors) /\ Len(Errors) \in Nat
    BY ApiAssumption, DashboardAssumption DEF Sources
  <2> QED BY <2>1 DEF Versions
<1>2. Summaries[n] = ErrorSummary(n, {QualityLimit})
  BY DEF Summaries
<1>3. /\ Summaries[n] \subseteq Groups(n)
      /\ \A g \in Summaries[n] : \A x \in Groups(n) : Precedes(x, g) => x \in Summaries[n]
  BY <1>1, <1>2, SummaryKeeps
<1>4. Points[n] =
        {[horizon |-> x,
          count |-> MapThenSumSet(LAMBDA g : g.count, {g \in Summaries[n] : g.horizon = x}),
          total |-> MapThenSumSet(LAMBDA g : g.total, {g \in Summaries[n] : g.horizon = x})] :
         x \in {g.horizon : g \in Summaries[n]}}
  BY DEF Points
<1> DEFINE count(x) == MapThenSumSet(LAMBDA g : g.count, {g \in Summaries[n] : g.horizon = x})
           total(x) == MapThenSumSet(LAMBDA g : g.total, {g \in Summaries[n] : g.horizon = x})
<1>5. PICK last \in Summaries[n] : last.horizon = p.horizon
  <2>1. Points[n] = {[horizon |-> x, count |-> count(x), total |-> total(x)] :
                     x \in {g.horizon : g \in Summaries[n]}}
    BY <1>4
  <2> HIDE DEF count, total
  <2>2. PICK x \in {g.horizon : g \in Summaries[n]} :
          p = [horizon |-> x, count |-> count(x), total |-> total(x)]
    BY <2>1
  <2> QED BY <2>2
<1>6. ASSUME NEW j \in 1 .. n, Horizon(Errors[j]) = h
      PROVE  GroupOf(n, j) \in rows
  <2>1. /\ GroupOf(n, j) \in Groups(n) /\ GroupOf(n, j).horizon = h
    BY <1>1, <1>6, GroupsTyped
  <2>2. Precedes(GroupOf(n, j), last)
    BY <1>5, <2>1 DEF Precedes
  <2> QED BY <1>3, <2>1, <2>2
<1>7. rows \in SUBSET Groups(n)
  BY <1>3
<1>8. Weighed(n, rows) = sample
  <2>1. Weighed(n, rows) \subseteq sample
    BY DEF Weighed
  <2>2. ASSUME NEW j \in sample PROVE j \in Weighed(n, rows)
    <3>1. j \in 1 .. n /\ GroupOf(n, j) \in rows
      BY <1>6
    <3>2. GroupOf(n, j).route = Errors[j].route /\ GroupOf(n, j).horizon = Horizon(Errors[j])
      BY <1>1, <3>1, GroupsTyped
    <3> HIDE DEF rows
    <3> QED BY <3>1, <3>2 DEF Weighed
  <2> HIDE DEF sample, rows
  <2> QED BY <2>1, <2>2
<1>9. /\ MapThenSumSet(LAMBDA g : g.count, rows) = Cardinality(sample)
      /\ MapThenSumSet(LAMBDA g : g.total, rows) = Total(sample)
  <2> HIDE DEF sample, rows
  <2> QED BY <1>1, <1>7, <1>8, RowsAdd
<1>10. h \in {g.horizon : g \in Summaries[n]}
  <2>1. GroupOf(n, k) \in rows
    BY <1>6
  <2> QED BY <2>1
<1>11. [horizon |-> h, count |-> MapThenSumSet(LAMBDA g : g.count, rows),
        total |-> MapThenSumSet(LAMBDA g : g.total, rows)] \in Points[n]
  BY <1>4, <1>10
<1> QED BY <1>9, <1>11

-----------------------------------------------------------------------------
\* Nothing on display ever goes back or disappears, whatever fails, is aborted
\* or is clicked, and for any growth of the database (App.vue:33).
THEOREM DisplayOnlyAdvances == Spec => ShownNeverGoesBack
<1>1. [NoneGoesBack]_vars <=>
        [panel'.last >= panel.last /\ \A s \in Sources : shown'[s] >= shown[s]]_vars
  BY DEF NoneGoesBack
<1> QED BY <1>1, PageInit, PageStep, PTL DEF Spec, ShownNeverGoesBack

\* The panel never counts an event that was collected after the time it shows
\* (schema.resolvers.go:21-27).
THEOREM CountsAreCollected == Spec => []CountedIsCollected
<1>1. PageInv => CountedIsCollected
  BY DEF PageInv, Counters, CountedIsCollected
<1> QED BY <1>1, PageInit, PageStep, PTL DEF Spec

\* Whenever the page is at rest a warning is up if and only if a request of
\* its last load failed (App.vue:43-76).
THEOREM WarningsAreTrue == Spec => []WarningsMatchFailures
<1>1. PageInv => WarningsMatchFailures
  BY DEF PageInv, Warned, WarningsMatchFailures, Idle
<1> QED BY <1>1, PageInit, PageStep, PTL DEF Spec

\* Of the points of the quality chart all but the last weigh every error of
\* their horizon, whatever its route and wherever the summary is cut off, and no
\* shorter horizon is missing (postgres.go:461-463).
THEOREM PointsExact == Spec => []ShortHorizonsExact
<1>1. PageInv => ShortHorizonsExact
  <2> SUFFICES ASSUME PageInv PROVE ShortHorizonsExact
    OBVIOUS
  <2>1. shown["quality"] \in Versions("quality")
    <3>1. /\ shown["quality"] \in Nat /\ server["quality"] \in Nat
          /\ shown["quality"] =< server["quality"] /\ server["quality"] =< MaxVersion["quality"]
          /\ MaxVersion["quality"] \in Nat
      BY DashboardAssumption DEF PageInv, Counters, Sources
    <3> QED BY <3>1 DEF Versions
  <2> QED BY <2>1, PointsAreExact DEF ShortHorizonsExact
<1> QED BY <1>1, PageInit, PageStep, PTL DEF Spec
=============================================================================

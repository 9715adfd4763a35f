---------------------------- MODULE RunnerProofs ----------------------------
(***************************************************************************)
(* Proofs about Runner, for any number of ingesters, payloads and faults:  *)
(* the unique key of feed_snapshot, taken in a transaction of its own, is  *)
(* enough for the events of a payload to be stored at most once and        *)
(* published in order.                                                     *)
(***************************************************************************)
EXTENDS Runner, FiniteSetTheorems, WellFoundedInduction, TLAPS

LEMMA InitInv == Init => IngestInv
BY RunnerAssumption
   DEF Init, IngestInv, TypeOK, Stages, IngestedOnce, PublishedInOrder,
       OneHolder, Holds

LEMMA FaultBounded == TypeOK /\ Fault => faults' \in 0 .. MaxFaults
BY RunnerAssumption DEF TypeOK, Fault

LEMMA NextFeedTyped ==
    ASSUME NEW i \in Ingesters, TypeOK, NextFeed(i)
    PROVE  /\ stage' \in [Ingesters -> Stages]
           /\ feed' \in [Ingesters -> {1, 2}]
           /\ payload' \in [Ingesters -> Payloads \cup {NoPayload}]
           /\ next' \in [Ingesters -> Nat \ {0}]
           /\ stage'[i] \in {"waiting", "fetching"}
           /\ \A j \in Ingesters \ {i} :
                 /\ stage'[j] = stage[j] /\ feed'[j] = feed[j]
                 /\ payload'[j] = payload[j] /\ next'[j] = next[j]
<1>1. Len(Feeds) = 2
  BY DEF Feeds
<1> QED
  BY <1>1 DEF NextFeed, Goto, LastFeed, TypeOK, Stages

(* Letting go of a payload, whatever was registered before.                *)
LEMMA Release ==
    ASSUME NEW i \in Ingesters, IngestInv, NextFeed(i),
           faults' \in 0 .. MaxFaults, UNCHANGED sent,
           \/ UNCHANGED <<snapshots, ingested>>
           \/ /\ stage[i] = "normalized" /\ UNCHANGED ingested
              /\ snapshots' = snapshots \cup {payload[i]}
           \/ /\ stage[i] = "registered" /\ UNCHANGED snapshots
              /\ CommitEvents(payload[i])
    PROVE  IngestInv'
<1> USE DEF IngestInv
<1>0. /\ stage'[i] \in {"waiting", "fetching"}
      /\ \A j \in Ingesters \ {i} :
            /\ stage'[j] = stage[j] /\ feed'[j] = feed[j]
            /\ payload'[j] = payload[j] /\ next'[j] = next[j]
  BY NextFeedTyped
<1>1. /\ snapshots \subseteq snapshots' /\ snapshots' \subseteq Payloads
      /\ ingested' \in [Payloads -> Nat]
      /\ \A p \in Payloads : \/ ingested'[p] = ingested[p]
                             \/ ingested'[p] = 1 /\ p \in snapshots /\ Holds(i, p)
                                /\ ingested[p] = 0
  <2>1. CASE UNCHANGED <<snapshots, ingested>>
    BY <2>1 DEF TypeOK
  <2>2. CASE /\ stage[i] = "normalized" /\ UNCHANGED ingested
             /\ snapshots' = snapshots \cup {payload[i]}
    BY <2>2 DEF TypeOK
  <2>3. CASE /\ stage[i] = "registered" /\ UNCHANGED snapshots
             /\ CommitEvents(payload[i])
    <3>1. payload[i] \in Payloads /\ Holds(i, payload[i])
      BY <2>3 DEF TypeOK, Holds
    <3>2. ingested[payload[i]] = 0 /\ payload[i] \in snapshots
      BY <2>3, <3>1 DEF OneHolder
    <3> QED
      BY <2>3, <3>1, <3>2 DEF CommitEvents, TypeOK
  <2> QED
    BY <2>1, <2>2, <2>3
<1>2. \A j \in Ingesters, p \in Payloads :
         Holds(j, p)' => j # i /\ Holds(j, p) /\ stage'[j] = stage[j]
                         /\ next'[j] = next[j]
  BY <1>0 DEF Holds
<1>3. TypeOK'
  BY <1>1, NextFeedTyped DEF TypeOK
<1>4. IngestedOnce'
  BY <1>1 DEF IngestedOnce
<1>5. OneHolder'
  <2>1. \A p \in Payloads : ingested'[p] > 0 => p \in snapshots'
    BY <1>1 DEF OneHolder
  <2>2. \A j \in Ingesters, p \in Payloads : Holds(j, p)' => ingested'[p] = ingested[p]
    BY <1>1, <1>2 DEF OneHolder
  <2> QED
    BY <1>1, <1>2, <2>1, <2>2 DEF OneHolder
<1>6. PublishedInOrder'
  <2>1. \A k \in 1 .. Len(sent) : sent[k][1] \in Payloads
    BY DEF TypeOK
  <2> QED
    BY <1>1, <2>1 DEF PublishedInOrder
<1> QED
  BY <1>3, <1>4, <1>5, <1>6

(* A step that writes nothing and after which the process holds nothing.   *)
LEMMA MoveOn ==
    ASSUME NEW i \in Ingesters, IngestInv, TypeOK', UNCHANGED storeVars,
           \A p \in Payloads : ~Holds(i, p)',
           \A j \in Ingesters \ {i} :
              stage'[j] = stage[j] /\ payload'[j] = payload[j] /\ next'[j] = next[j]
    PROVE  IngestInv'
<1>1. \A j \in Ingesters, p \in Payloads :
         Holds(j, p)' => j # i /\ Holds(j, p) /\ stage'[j] = stage[j]
                         /\ next'[j] = next[j]
  BY DEF Holds
<1> QED
  BY <1>1 DEF IngestInv, IngestedOnce, PublishedInOrder, OneHolder, storeVars

(* The steps before a payload is registered, and the crash.                *)
LEMMA InvUnregistered ==
    ASSUME NEW i \in Ingesters, IngestInv,
           Start(i) \/ Tick(i) \/ Crash(i) \/ Fetch(i) \/ FetchFails(i)
             \/ Normalize(i) \/ Published(i)
    PROVE  IngestInv'
<1>1. CASE Start(i) \/ Tick(i) \/ Crash(i) \/ Fetch(i)
  <2>1. faults' \in 0 .. MaxFaults
    BY <1>1, FaultBounded DEF Start, Tick, Crash, Fetch, IngestInv, TypeOK
  <2>2. TypeOK'
    <3>1. CASE Start(i) \/ Tick(i)
      BY <3>1 DEF Start, Tick, Goto, IngestInv, TypeOK, Stages, storeVars
    <3>2. CASE Crash(i)
      BY <2>1, <3>2 DEF Crash, Goto, IngestInv, TypeOK, Stages, storeVars
    <3>3. CASE Fetch(i)
      BY <3>3 DEF Fetch, Goto, IngestInv, TypeOK, Stages, storeVars
    <3> QED
      BY <1>1, <3>1, <3>2, <3>3
  <2>3. /\ UNCHANGED storeVars
        /\ stage'[i] \notin {"registered", "publishing"}
        /\ \A j \in Ingesters \ {i} :
              stage'[j] = stage[j] /\ payload'[j] = payload[j] /\ next'[j] = next[j]
    BY <1>1 DEF Start, Tick, Crash, Fetch, Goto, IngestInv, TypeOK
  <2> QED
    BY <2>2, <2>3, MoveOn DEF Holds
<1>2. CASE Normalize(i) /\ payload[i] \notin Malformed
  <2>1. TypeOK'
    BY <1>2 DEF Normalize, Goto, IngestInv, TypeOK, Stages, storeVars
  <2>2. /\ UNCHANGED storeVars
        /\ stage'[i] \notin {"registered", "publishing"}
        /\ \A j \in Ingesters \ {i} :
              stage'[j] = stage[j] /\ payload'[j] = payload[j] /\ next'[j] = next[j]
    BY <1>2 DEF Normalize, Goto, IngestInv, TypeOK
  <2> QED
    BY <2>1, <2>2, MoveOn DEF Holds
<1>3. CASE FetchFails(i) \/ Published(i) \/ (Normalize(i) /\ payload[i] \in Malformed)
  <2>1. NextFeed(i) /\ UNCHANGED storeVars /\ UNCHANGED faults
    BY <1>3 DEF FetchFails, Published, Normalize
  <2> QED
    BY <2>1, Release DEF IngestInv, TypeOK, storeVars
<1> QED
  BY <1>1, <1>2, <1>3

LEMMA InvInsertSnapshot ==
    ASSUME NEW i \in Ingesters, IngestInv,
           InsertSnapshot(i) \/ InsertSnapshotFails(i)
    PROVE  IngestInv'
<1>1. CASE InsertSnapshot(i) /\ payload[i] \notin snapshots
  <2> USE DEF IngestInv
  <2>1. /\ stage[i] = "normalized" /\ payload[i] \in Payloads
        /\ stage' = [stage EXCEPT ![i] = "registered"]
        /\ snapshots' = snapshots \cup {payload[i]}
        /\ UNCHANGED <<ingested, sent, feed, payload, next, faults>>
    BY <1>1 DEF InsertSnapshot, Goto, TypeOK
  <2>2. TypeOK'
    BY <2>1 DEF TypeOK, Stages
  <2>3. ingested[payload[i]] = 0
    BY <1>1, <2>1 DEF OneHolder, TypeOK
  <2>4. \A k \in 1 .. Len(sent) : sent[k][1] # payload[i]
    BY <2>3 DEF PublishedInOrder
  <2>5. /\ stage'[i] = "registered"
        /\ \A j \in Ingesters \ {i} : stage'[j] = stage[j]
    BY <2>1 DEF TypeOK
  <2>6. \A j \in Ingesters, p \in Payloads :
           Holds(j, p)' => \/ j = i /\ p = payload[i]
                           \/ j # i /\ Holds(j, p) /\ p # payload[i]
    BY <1>1, <2>1, <2>5 DEF Holds, OneHolder
  <2>7. OneHolder'
    BY <2>1, <2>3, <2>4, <2>5, <2>6 DEF OneHolder
  <2> QED
    BY <2>1, <2>2, <2>7 DEF IngestedOnce, PublishedInOrder
<1>2. CASE InsertSnapshot(i) /\ payload[i] \in snapshots
  BY <1>2, Release DEF InsertSnapshot, IngestInv, TypeOK
<1>3. CASE InsertSnapshotFails(i)
  BY <1>3, Release, FaultBounded DEF InsertSnapshotFails, IngestInv
<1> QED
  BY <1>1, <1>2, <1>3

LEMMA InvInsertEvents ==
    ASSUME NEW i \in Ingesters, IngestInv,
           InsertEvents(i) \/ InsertEventsFails(i)
    PROVE  IngestInv'
<1>1. CASE InsertEvents(i)
  <2> USE DEF IngestInv
  <2> DEFINE q == payload[i]
  <2>1. /\ stage[i] = "registered" /\ q \in Payloads /\ Holds(i, q)
        /\ stage' = [stage EXCEPT ![i] = "publishing"]
        /\ ingested' = [ingested EXCEPT ![q] = @ + 1]
        /\ UNCHANGED <<snapshots, sent, feed, payload, next, faults>>
    BY <1>1 DEF InsertEvents, Goto, CommitEvents, TypeOK, Holds
  <2>2. q \in snapshots /\ ingested[q] = 0
    BY <2>1 DEF OneHolder
  <2>3. \A p \in Payloads : ingested'[p] = IF p = q THEN 1 ELSE ingested[p]
    BY <2>1, <2>2 DEF TypeOK
  <2>4. \A j \in Ingesters : stage'[j] = IF j = i THEN "publishing" ELSE stage[j]
    BY <2>1 DEF TypeOK
  <2>5. TypeOK'
    BY <2>1 DEF TypeOK, Stages
  <2>6. \A k \in 1 .. Len(sent) : sent[k][1] # q /\ sent[k][1] \in Payloads
    BY <2>2 DEF PublishedInOrder, TypeOK
  <2>7. \A j \in Ingesters, p \in Payloads :
           Holds(j, p)' => Holds(j, p) /\ (p = q <=> j = i)
    BY <2>1, <2>4 DEF Holds, OneHolder
  <2>8. OneHolder'
    BY <2>1, <2>2, <2>3, <2>4, <2>6, <2>7 DEF OneHolder
  <2>9. IngestedOnce' /\ PublishedInOrder'
    BY <2>1, <2>3, <2>6 DEF IngestedOnce, PublishedInOrder
  <2> QED
    BY <2>5, <2>8, <2>9
<1>2. CASE InsertEventsFails(i)
  BY <1>2, Release, FaultBounded DEF InsertEventsFails, IngestInv
<1> QED
  BY <1>1, <1>2

(* A step of the publication: the event in hand may be accepted, and the   *)
(* process may move on to the next one.                                    *)
LEMMA InvPublish ==
    ASSUME NEW i \in Ingesters, IngestInv,
           Publish(i) \/ PublishFails(i) \/ WriterRetries(i)
    PROVE  IngestInv'
<1> USE DEF IngestInv
<1> DEFINE q == payload[i]
<1>1. /\ stage[i] = "publishing" /\ q \in Payloads /\ next[i] \in Nat \ {0}
      /\ Holds(i, q)
      /\ UNCHANGED sent \/ sent' = Append(sent, <<q, next[i]>>)
      /\ UNCHANGED next \/ next' = [next EXCEPT ![i] = @ + 1]
      /\ UNCHANGED <<snapshots, ingested, stage, feed, payload>>
      /\ faults' \in 0 .. MaxFaults
  BY FaultBounded
     DEF Publish, PublishFails, WriterRetries, Accepted, Advance, TypeOK, Holds,
         procVars
<1>2. /\ next' \in [Ingesters -> Nat \ {0}]
      /\ \A j \in Ingesters : next'[j] >= next[j]
  <2>1. CASE UNCHANGED next
    BY <2>1 DEF TypeOK
  <2>2. CASE next' = [next EXCEPT ![i] = @ + 1]
    BY <2>2 DEF TypeOK
  <2> QED
    BY <1>1, <2>1, <2>2
<1>3. /\ sent' \in Seq(Payloads \X (Nat \ {0}))
      /\ \A k \in 1 .. Len(sent') :
            \/ k \in 1 .. Len(sent) /\ sent'[k] = sent[k]
            \/ k = Len(sent) + 1 /\ sent'[k] = <<q, next[i]>>
  <2>1. CASE UNCHANGED sent
    BY <2>1 DEF TypeOK
  <2>2. CASE sent' = Append(sent, <<q, next[i]>>)
    BY <1>1, <2>2 DEF TypeOK
  <2> QED
    BY <1>1, <2>1, <2>2
<1>4. TypeOK'
  BY <1>1, <1>2, <1>3 DEF TypeOK
<1>5. \A j \in Ingesters, p \in Payloads : Holds(j, p)' <=> Holds(j, p)
  BY <1>1 DEF Holds
<1>6. /\ ingested[q] = 1
      /\ \A k \in 1 .. Len(sent) : sent[k][1] = q => sent[k][2] <= next[i]
  BY <1>1 DEF OneHolder
<1>7. OneHolder'
  <2>1. ASSUME NEW j \in Ingesters, NEW p \in Payloads, Holds(j, p),
               NEW k \in 1 .. Len(sent'), sent'[k][1] = p
        PROVE  stage[j] = "publishing" /\ sent'[k][2] <= next'[j]
    <3>1. CASE k \in 1 .. Len(sent) /\ sent'[k] = sent[k]
      <4>1. stage[j] = "publishing" /\ sent[k][2] <= next[j] /\ sent[k][2] \in Nat
        BY <2>1, <3>1 DEF OneHolder, TypeOK
      <4> QED
        BY <1>2, <3>1, <4>1 DEF TypeOK
    <3>2. CASE sent'[k] = <<q, next[i]>>
      <4>1. j = i
        BY <1>1, <2>1, <3>2 DEF OneHolder
      <4> QED
        BY <1>1, <1>2, <3>2, <4>1 DEF TypeOK
    <3> QED
      BY <1>3, <3>1, <3>2
  <2> QED
    BY <1>1, <1>5, <2>1 DEF OneHolder
<1>8. PublishedInOrder'
  <2>1. \A k \in 1 .. Len(sent') : ingested[sent'[k][1]] = 1
    BY <1>3, <1>6 DEF PublishedInOrder
  <2>2. ASSUME NEW j \in 1 .. Len(sent'), NEW k \in 1 .. Len(sent'),
               j < k, sent'[j][1] = sent'[k][1]
        PROVE  sent'[j][2] <= sent'[k][2]
    <3>1. Len(sent) \in Nat /\ Len(sent') \in Nat
      BY <1>3 DEF TypeOK
    <3>2. j \in 1 .. Len(sent) /\ sent'[j] = sent[j]
      <4>1. j \in Nat /\ k \in Nat
        BY <3>1, <2>2
      <4>2. k <= Len(sent) + 1
        BY <1>3, <3>1, <4>1
      <4>3. j # Len(sent) + 1
        BY <2>2, <3>1, <4>1, <4>2
      <4> QED
        BY <1>3, <4>3
    <3>3. CASE k \in 1 .. Len(sent) /\ sent'[k] = sent[k]
      BY <2>2, <3>2, <3>3 DEF PublishedInOrder
    <3>4. CASE sent'[k] = <<q, next[i]>>
      BY <1>6, <2>2, <3>2, <3>4
    <3> QED
      BY <1>3, <3>3, <3>4
  <2> QED
    BY <1>1, <2>1, <2>2 DEF PublishedInOrder
<1> QED
  BY <1>1, <1>4, <1>7, <1>8 DEF IngestedOnce

LEMMA InvNext == IngestInv /\ [Next]_vars => IngestInv'
<1>1. ASSUME IngestInv, Next PROVE IngestInv'
  BY <1>1, InvUnregistered, InvInsertSnapshot, InvInsertEvents, InvPublish
     DEF Next, Collect, CollectFails
<1>2. ASSUME IngestInv, UNCHANGED vars PROVE IngestInv'
  BY <1>2 DEF IngestInv, TypeOK, IngestedOnce, PublishedInOrder, OneHolder,
              Holds, vars, storeVars, procVars
<1> QED
  BY <1>1, <1>2

(* The invariant of the ingestion, for any number of processes, payloads   *)
(* and failed calls (collectOnce).                                         *)
THEOREM IngestCorrect == Spec => []IngestInv
BY InitInv, InvNext, PTL DEF Spec

(* The events of a payload enter the tables at most once.                  *)
THEOREM EventsStoredOnce == Spec => []IngestedOnce
<1>1. IngestInv => IngestedOnce
  BY DEF IngestInv
<1> QED
  BY <1>1, IngestCorrect, PTL

(* They reach the broker in their order, and after their rows.             *)
THEOREM EventsInOrder == Spec => []PublishedInOrder
<1>1. IngestInv => PublishedInOrder
  BY DEF IngestInv
<1> QED
  BY <1>1, IngestCorrect, PTL

-----------------------------------------------------------------------------
(* A process comes to register a payload only when its row is new, and     *)
(* commits only the events of the payload it registered.                   *)
LEMMA OrphanStep ==
    ASSUME TypeOK, NEW p \in Payloads, Orphan(p), NEW i \in Ingesters,
           Start(i) \/ Tick(i) \/ Crash(i) \/ Collect(i) \/ CollectFails(i)
    PROVE  Orphan(p)'
<1>1. /\ p \in snapshots /\ ingested[p] = 0
      /\ \A j \in Ingesters : ~(stage[j] = "registered" /\ payload[j] = p)
  BY DEF Orphan
<1>2. ASSUME snapshots \subseteq snapshots', ingested'[p] = 0,
             stage'[i] = "registered" => payload'[i] # p,
             \A j \in Ingesters \ {i} : stage'[j] = stage[j] /\ payload'[j] = payload[j]
      PROVE  Orphan(p)'
  BY <1>1, <1>2 DEF Orphan
<1>3. ASSUME NextFeed(i), snapshots \subseteq snapshots', ingested'[p] = 0
      PROVE  Orphan(p)'
  BY <1>2, <1>3, NextFeedTyped
<1>4. CASE Start(i) \/ Tick(i) \/ Crash(i) \/ Fetch(i)
  BY <1>1, <1>2, <1>4 DEF Start, Tick, Crash, Fetch, Goto, storeVars, TypeOK
<1>5. CASE FetchFails(i) \/ Published(i)
  BY <1>1, <1>3, <1>5 DEF FetchFails, Published, storeVars
<1>6. CASE Normalize(i)
  <2>1. CASE NextFeed(i)
    BY <1>1, <1>3, <1>6, <2>1 DEF Normalize, storeVars
  <2>2. CASE Goto(i, "normalized") /\ UNCHANGED payload
    BY <1>1, <1>2, <1>6, <2>2 DEF Normalize, Goto, storeVars, TypeOK
  <2> QED
    BY <1>6, <2>1, <2>2 DEF Normalize
<1>7. CASE InsertSnapshot(i)
  <2>1. CASE NextFeed(i) /\ UNCHANGED snapshots
    BY <1>1, <1>3, <1>7, <2>1 DEF InsertSnapshot
  <2>2. CASE /\ payload[i] \notin snapshots /\ Goto(i, "registered")
             /\ snapshots' = snapshots \cup {payload[i]} /\ UNCHANGED payload
    BY <1>1, <1>2, <1>7, <2>2 DEF InsertSnapshot, Goto, TypeOK
  <2> QED
    BY <1>7, <2>1, <2>2 DEF InsertSnapshot
<1>8. CASE InsertSnapshotFails(i)
  BY <1>1, <1>3, <1>8 DEF InsertSnapshotFails
<1>9. CASE InsertEvents(i) \/ InsertEventsFails(i)
  <2>1. UNCHANGED ingested \/ CommitEvents(payload[i])
    BY <1>9 DEF InsertEvents, InsertEventsFails
  <2>2. stage[i] = "registered" /\ payload[i] # p
    BY <1>1, <1>9 DEF InsertEvents, InsertEventsFails
  <2>3. ingested'[p] = 0
    BY <1>1, <2>1, <2>2 DEF CommitEvents, TypeOK
  <2> QED
    BY <1>2, <1>3, <1>9, <2>3 DEF InsertEvents, InsertEventsFails, Goto, TypeOK
<1>10. CASE Publish(i) \/ PublishFails(i) \/ WriterRetries(i)
  BY <1>1, <1>2, <1>10 DEF Publish, PublishFails, WriterRetries, procVars
<1> QED
  BY <1>4, <1>5, <1>6, <1>7, <1>8, <1>9, <1>10 DEF Collect, CollectFails

(* A snapshot whose events were not committed after it is lost for good:   *)
(* no later step of any process stores its events.                         *)
THEOREM OrphansLost == Spec => OrphansStayOrphans
<1>1. ASSUME IngestInv, [Next]_vars
      PROVE  \A p \in Payloads : Orphan(p) => Orphan(p)'
  <2>1. CASE Next
    BY <1>1, <2>1, OrphanStep DEF Next, IngestInv
  <2>2. CASE UNCHANGED vars
    BY <2>2 DEF Orphan, vars, storeVars, procVars
  <2> QED
    BY <1>1, <2>1, <2>2
<1> QED
  BY <1>1, IngestCorrect, PTL DEF Spec, OrphansStayOrphans

-----------------------------------------------------------------------------
(* The refinement of Ingest.                                               *)

Smaller == {ss \in Nat \X Nat : ss[1] < ss[2]}

(* The principle of all inductions below: a set of natural numbers that is *)
(* not empty has a least element.                                          *)
LEMMA LeastNatural ==
    ASSUME NEW S, S \subseteq Nat, S # {}
    PROVE  \E m \in S : \A n \in S : m <= n
<1>1. IsWellFoundedOn(Smaller, Nat)
  BY NatLessThanWellFounded DEF OpToRel, Smaller
<1>2. PICK m \in S : \A n \in S : ~(<<n, m>> \in Smaller)
  BY <1>1, WFMin
<1>3. ASSUME NEW n \in S, n < m PROVE FALSE
  <2>1. <<n, m>> \in Smaller
    BY <1>3 DEF Smaller
  <2> QED
    BY <1>2, <2>1
<1> QED
  BY <1>3

(* One step of the recursion of TopicLog.                                  *)
LogStep(t, s, log, k) ==
    IF k = 0 THEN <<>>
    ELSE IF TopicFor(EventAt(s[k])) = t THEN Append(log[k - 1], EventAt(s[k]))
    ELSE log[k - 1]

IsTopicLog(t, s, n, log) == log = [k \in 0 .. n |-> LogStep(t, s, log, k)]

LEMMA TopicLogsExist ==
    ASSUME NEW t, NEW s
    PROVE  \A n \in Nat : \E log : IsTopicLog(t, s, n, log)
<1> DEFINE Bad == {n \in Nat : ~\E log : IsTopicLog(t, s, n, log)}
<1>1. SUFFICES ASSUME Bad # {} PROVE FALSE
  OBVIOUS
<1>2. PICK n \in Bad : \A m \in Bad : n <= m
  <2>1. Bad \subseteq Nat
    OBVIOUS
  <2> HIDE DEF Bad
  <2> QED
    BY <1>1, <2>1, LeastNatural
<1>3. n \in Nat /\ ~\E log : IsTopicLog(t, s, n, log)
  OBVIOUS
<1>4. CASE n = 0
  <2>1. IsTopicLog(t, s, 0, [k \in 0 .. 0 |-> <<>>])
    BY DEF IsTopicLog, LogStep
  <2> QED
    BY <1>3, <1>4, <2>1
<1>5. CASE n # 0
  <2>1. n - 1 \in Nat /\ n - 1 \notin Bad
    <3> HIDE DEF Bad
    <3> QED
      BY <1>2, <1>3, <1>5
  <2>2. PICK log : IsTopicLog(t, s, n - 1, log)
    BY <2>1
  <2> DEFINE longer == [k \in 0 .. n |-> IF k = n THEN LogStep(t, s, log, n) ELSE log[k]]
  <2>3. ASSUME NEW k \in 0 .. n PROVE longer[k] = LogStep(t, s, longer, k)
    <3>1. k # 0 => k - 1 \in 0 .. n /\ k - 1 # n /\ longer[k - 1] = log[k - 1]
      BY <1>3
    <3>2. LogStep(t, s, longer, k) = LogStep(t, s, log, k)
      BY <3>1 DEF LogStep
    <3>3. k # n => k \in 0 .. n - 1 /\ log[k] = LogStep(t, s, log, k)
      BY <1>3, <2>2 DEF IsTopicLog
    <3> QED
      BY <3>2, <3>3
  <2>4. IsTopicLog(t, s, n, longer)
    BY <2>3 DEF IsTopicLog
  <2> QED
    BY <1>3, <2>4
<1> QED
  BY <1>4, <1>5

SamePrefix(s, r, m) == \A k \in 1 .. m : s[k] = r[k]

(* Two computations agree as far as their publications do.                 *)
LEMMA TopicLogsAgree ==
    ASSUME NEW t, NEW s, NEW r, NEW m \in Nat, NEW n \in Nat, NEW f, NEW g,
           IsTopicLog(t, s, m, f), IsTopicLog(t, r, n, g),
           m <= n, SamePrefix(s, r, m)
    PROVE  f[m] = g[m]
<1> DEFINE Bad == {k \in 0 .. m : f[k] # g[k]}
<1>1. SUFFICES ASSUME Bad # {} PROVE FALSE
  <2>1. m \in 0 .. m
    OBVIOUS
  <2> QED
    BY <2>1
<1>2. PICK k \in Bad : \A j \in Bad : k <= j
  <2>1. Bad \subseteq Nat
    OBVIOUS
  <2> HIDE DEF Bad
  <2> QED
    BY <1>1, <2>1, LeastNatural
<1>3. /\ k \in 0 .. m /\ k \in 0 .. n
      /\ f[k] # g[k]
      /\ k # 0 => k \in 1 .. m
  OBVIOUS
<1>4. f[k] = LogStep(t, s, f, k) /\ g[k] = LogStep(t, r, g, k)
  BY <1>3 DEF IsTopicLog
<1>5. k # 0 => f[k - 1] = g[k - 1]
  <2>1. k # 0 => k - 1 \in 0 .. m /\ k - 1 \notin Bad
    <3> HIDE DEF Bad
    <3> QED
      BY <1>2, <1>3
  <2> QED
    BY <2>1
<1> QED
  BY <1>3, <1>4, <1>5 DEF LogStep, SamePrefix

LEMMA TopicLogIs ==
    ASSUME NEW t, NEW s, Len(s) \in Nat
    PROVE  \E log : IsTopicLog(t, s, Len(s), log) /\ TopicLog(t, s) = log[Len(s)]
<1>1. \E log : IsTopicLog(t, s, Len(s), log)
  BY TopicLogsExist
<1> DEFINE log == CHOOSE log : IsTopicLog(t, s, Len(s), log)
<1>2. IsTopicLog(t, s, Len(s), log)
  BY <1>1
<1>3. TopicLog(t, s) = log[Len(s)]
  BY DEF TopicLog, IsTopicLog, LogStep
<1> QED
  BY <1>2, <1>3

LEMMA TopicLogEmpty == \A t : TopicLog(t, <<>>) = <<>>
<1> TAKE t
<1>1. PICK log : IsTopicLog(t, <<>>, 0, log) /\ TopicLog(t, <<>>) = log[0]
  BY TopicLogIs
<1> QED
  BY <1>1 DEF IsTopicLog, LogStep

(* A publication is appended to the log of its event's topic.              *)
LEMMA TopicLogAppend ==
    ASSUME NEW t, NEW S, NEW s \in Seq(S), NEW x \in S
    PROVE  TopicLog(t, Append(s, x)) =
              IF TopicFor(EventAt(x)) = t THEN Append(TopicLog(t, s), EventAt(x))
              ELSE TopicLog(t, s)
<1>1. PICK n, m, r :
         /\ n \in Nat /\ m \in Nat
         /\ n = Len(s) /\ r = Append(s, x) /\ m = n + 1 /\ Len(r) = m /\ r[m] = x
         /\ \A k \in 1 .. n : s[k] = r[k]
  <2>1. /\ Len(s) \in Nat /\ Len(s) + 1 \in Nat
        /\ Len(Append(s, x)) = Len(s) + 1 /\ Append(s, x)[Len(s) + 1] = x
        /\ \A k \in 1 .. Len(s) : s[k] = Append(s, x)[k]
    OBVIOUS
  <2> QED
    BY <2>1, Zenon
<1>2. PICK f : IsTopicLog(t, s, n, f) /\ TopicLog(t, s) = f[n]
  BY <1>1, TopicLogIs
<1>3. PICK g : IsTopicLog(t, r, m, g) /\ TopicLog(t, r) = g[m]
  BY <1>1, TopicLogIs
<1>4. n <= m /\ n \in 0 .. n /\ m \in 0 .. m /\ m # 0 /\ m - 1 = n
  BY <1>1
<1>5. f[n] = g[n]
  <2>1. SamePrefix(s, r, n)
    BY <1>1 DEF SamePrefix
  <2> QED
    BY <1>2, <1>3, <1>4, <2>1, TopicLogsAgree
<1>6. g[m] = LogStep(t, r, g, m)
  BY <1>3, <1>4 DEF IsTopicLog
<1> QED
  BY <1>1, <1>2, <1>3, <1>4, <1>5, <1>6 DEF LogStep

(* A topic has at most as many messages as there are publications.         *)
LEMMA TopicLogLen ==
    ASSUME NEW t, NEW s, Len(s) \in Nat,
           \A k \in 1 .. Len(s) : EventAt(s[k]) \in Feed
    PROVE  TopicLog(t, s) \in Seq(Feed) /\ Len(TopicLog(t, s)) <= Len(s)
<1>1. PICK log : IsTopicLog(t, s, Len(s), log) /\ TopicLog(t, s) = log[Len(s)]
  BY TopicLogIs
<1> DEFINE Bad == {k \in 0 .. Len(s) : ~(log[k] \in Seq(Feed) /\ Len(log[k]) <= k)}
<1>2. SUFFICES ASSUME Bad # {} PROVE FALSE
  BY <1>1
<1>3. PICK k \in Bad : \A j \in Bad : k <= j
  <2>1. Bad \subseteq Nat
    OBVIOUS
  <2> HIDE DEF Bad
  <2> QED
    BY <1>2, <2>1, LeastNatural
<1>4. k \in 0 .. Len(s) /\ ~(log[k] \in Seq(Feed) /\ Len(log[k]) <= k)
  OBVIOUS
<1>5. log[k] = LogStep(t, s, log, k)
  BY <1>1, <1>4 DEF IsTopicLog
<1>6. CASE k = 0
  BY <1>4, <1>5, <1>6 DEF LogStep
<1>7. CASE k # 0
  <2>1. k - 1 \in 0 .. Len(s) /\ k - 1 \notin Bad /\ k \in 1 .. Len(s)
    <3> HIDE DEF Bad
    <3> QED
      BY <1>3, <1>4, <1>7
  <2>2. log[k - 1] \in Seq(Feed) /\ Len(log[k - 1]) <= k - 1
    BY <2>1
  <2>3. EventAt(s[k]) \in Feed
    BY <2>1
  <2>4. log[k] = log[k - 1] \/ log[k] = Append(log[k - 1], EventAt(s[k]))
    BY <1>5, <1>7 DEF LogStep
  <2>5. /\ Append(log[k - 1], EventAt(s[k])) \in Seq(Feed)
        /\ Len(Append(log[k - 1], EventAt(s[k]))) = Len(log[k - 1]) + 1
    BY <2>2, <2>3
  <2>6. k \in Int /\ Len(log[k - 1]) \in Nat
    BY <1>4, <2>2
  <2>7. log[k] \in Seq(Feed)
    BY <2>2, <2>4, <2>5
  <2>8. Len(log[k]) = Len(log[k - 1]) \/ Len(log[k]) = Len(log[k - 1]) + 1
    BY <2>4, <2>5
  <2>9. Len(log[k]) <= k
    BY <2>2, <2>6, <2>8
  <2> QED
    BY <1>4, <2>7, <2>9
<1> QED
  BY <1>6, <1>7

-----------------------------------------------------------------------------
(* How long a log can get: every publication is the first one of an        *)
(* occurrence that no process is at any more, or was paid for by a fault.  *)
Occurring == UNION {Occurrences(p) : p \in Payloads}

WasSent(o) == \E k \in 1 .. Len(sent) : sent[k] = o

IsCurrent(o) == \E i \in Ingesters : stage[i] = "publishing" /\ o = <<payload[i], next[i]>>

Finished == {o \in Occurring : WasSent(o) /\ ~IsCurrent(o)}

SentInv ==
    /\ IngestInv
    /\ \A k \in 1 .. Len(sent) : sent[k] \in Occurring
    /\ Len(sent) <= Cardinality(Finished) + faults

LEMMA OccurringFinite == IsFiniteSet(Occurring)
<1>1. ASSUME NEW p \in Payloads PROVE IsFiniteSet(Occurrences(p))
  <2>1. Len(EventsOf(p)) \in Nat /\ DOMAIN EventsOf(p) = 1 .. Len(EventsOf(p))
    BY RunnerAssumption
  <2>2. IsFiniteSet(DOMAIN EventsOf(p))
    BY <2>1, FS_Interval
  <2>3. [n \in DOMAIN EventsOf(p) |-> <<p, n>>] \in Surjection(DOMAIN EventsOf(p), Occurrences(p))
    BY DEF Surjection, Occurrences
  <2> QED
    BY <2>2, <2>3, FS_Surjection
<1> DEFINE S == {Occurrences(p) : p \in Payloads}
<1>2. [p \in Payloads |-> Occurrences(p)] \in Surjection(Payloads, S)
  BY DEF Surjection
<1>3. IsFiniteSet(S)
  BY <1>2, RunnerAssumption, FS_Surjection
<1>4. \A T \in S : IsFiniteSet(T)
  BY <1>1
<1> HIDE DEF S
<1>5. IsFiniteSet(UNION S)
  BY <1>3, <1>4, FS_UNION
<1> QED
  BY <1>5 DEF Occurring, S

LEMMA OccurringIs ==
    ASSUME NEW p \in Payloads, NEW n
    PROVE  <<p, n>> \in Occurring <=> n \in 1 .. Len(EventsOf(p))
<1>1. DOMAIN EventsOf(p) = 1 .. Len(EventsOf(p))
  BY RunnerAssumption
<1> QED
  BY <1>1 DEF Occurring, Occurrences

LEMMA FinishedFinite ==
    /\ IsFiniteSet(Finished) /\ Cardinality(Finished) \in Nat
    /\ IsFiniteSet(Finished') /\ Cardinality(Finished') \in Nat
    /\ Cardinality(Occurring) \in Nat
<1>1. Finished \in SUBSET Occurring /\ Finished' \in SUBSET Occurring
  BY DEF Finished
<1> QED
  BY <1>1, OccurringFinite, FS_Subset, FS_CardinalityType

(* While a process is at an event there is room for one more message.      *)
LEMMA RoomForCurrent ==
    ASSUME SentInv, NEW i \in Ingesters, stage[i] = "publishing", HasEvent(i)
    PROVE  /\ <<payload[i], next[i]>> \in Occurring
           /\ <<payload[i], next[i]>> \notin Finished
           /\ Len(sent) < LogBound
<1> DEFINE o == <<payload[i], next[i]>>
<1>1. payload[i] \in Payloads /\ next[i] \in Nat \ {0} /\ faults \in 0 .. MaxFaults
      /\ sent \in Seq(Payloads \X (Nat \ {0}))
  BY DEF SentInv, IngestInv, TypeOK
<1>2. Len(EventsOf(payload[i])) \in Nat
  BY <1>1, RunnerAssumption
<1>3. o \in Occurring
  BY <1>1, <1>2, OccurringIs DEF HasEvent
<1>4. o \notin Finished
  BY DEF Finished, IsCurrent
<1> HIDE DEF o
<1>5. Finished \cup {o} \in SUBSET Occurring
  BY <1>3 DEF Finished
<1>6. Cardinality(Finished) + 1 <= Cardinality(Occurring)
  BY <1>4, <1>5, FinishedFinite, OccurringFinite, FS_AddElement, FS_Subset
<1>7. LogBound = Cardinality(Occurring) + MaxFaults
  BY DEF LogBound, Occurring
<1>8. Len(sent) <= Cardinality(Finished) + faults /\ Len(sent) \in Nat
  BY <1>1 DEF SentInv
<1>9. Len(sent) < LogBound
  BY <1>1, <1>6, <1>7, <1>8, FinishedFinite, RunnerAssumption
<1> QED
  BY <1>3, <1>4, <1>9 DEF o

(* What is finished stays so, unless a process gets to an event that was   *)
(* sent before.                                                            *)
LEMMA StaysFinished ==
    ASSUME \A o : WasSent(o) => WasSent(o)',
           \A o : IsCurrent(o)' => IsCurrent(o) \/ ~WasSent(o)
    PROVE  Finished \subseteq Finished'
BY DEF Finished

LEMMA SentInvInit == Init => SentInv
<1> SUFFICES ASSUME Init PROVE SentInv
  OBVIOUS
<1>1. Len(sent) = 0 /\ faults = 0
  BY DEF Init
<1>2. IngestInv
  BY InitInv
<1>3. \A k \in 1 .. Len(sent) : sent[k] \in Occurring
  BY <1>1
<1> QED
  BY <1>1, <1>2, <1>3, FinishedFinite DEF SentInv

(* A step that sends nothing.                                              *)
LEMMA SentInvSilent ==
    ASSUME SentInv, IngestInv', UNCHANGED sent, faults' >= faults,
           \A o : IsCurrent(o)' => IsCurrent(o) \/ ~WasSent(o)
    PROVE  SentInv'
<1>1. \A o : WasSent(o) => WasSent(o)'
  BY DEF WasSent
<1>2. Finished \subseteq Finished'
  BY <1>1, StaysFinished
<1>3. Cardinality(Finished) <= Cardinality(Finished')
  BY <1>2, FinishedFinite, FS_Subset
<1>4. Len(sent) \in Nat /\ faults \in Nat /\ faults' \in Nat
  BY RunnerAssumption DEF SentInv, IngestInv, TypeOK
<1>5. Len(sent') <= Cardinality(Finished') + faults'
  BY <1>3, <1>4, FinishedFinite DEF SentInv
<1> QED
  BY <1>5 DEF SentInv

(* The steps that send, or could have.                                     *)
LEMMA SentInvPublish ==
    ASSUME SentInv, IngestInv', NEW i \in Ingesters,
           Publish(i) \/ PublishFails(i) \/ WriterRetries(i)
    PROVE  SentInv'
<1>0. PICK o : o = <<payload[i], next[i]>>
  OBVIOUS
<1>1. /\ stage[i] = "publishing" /\ HasEvent(i) /\ UNCHANGED <<stage, payload>>
      /\ UNCHANGED sent \/ sent' = Append(sent, o)
      /\ UNCHANGED next \/ next' = [next EXCEPT ![i] = @ + 1]
      /\ \/ UNCHANGED faults /\ sent' = Append(sent, o) /\ next' = [next EXCEPT ![i] = @ + 1]
         \/ faults' = faults + 1
  BY <1>0 DEF Publish, PublishFails, WriterRetries, Accepted, Advance, Fault, procVars
<1>2. /\ payload[i] \in Payloads /\ next \in [Ingesters -> Nat \ {0}]
      /\ faults \in Nat /\ faults' \in Nat
      /\ sent \in Seq(Payloads \X (Nat \ {0})) /\ o \in Payloads \X (Nat \ {0})
      /\ Holds(i, payload[i])
  BY <1>0, <1>1, RunnerAssumption DEF SentInv, IngestInv, TypeOK, Holds
<1>3. \A k \in 1 .. Len(sent) : sent[k][1] = payload[i] => sent[k][2] <= next[i]
  BY <1>1, <1>2 DEF SentInv, IngestInv, OneHolder
<1>4. \A j \in Ingesters : next'[j] = next[j] \/ (j = i /\ next'[i] = next[i] + 1)
  <2>1. CASE next' = next
    BY <2>1
  <2>2. CASE next' = [next EXCEPT ![i] = @ + 1]
    BY <1>2, <2>2
  <2> QED
    BY <1>1, <2>1, <2>2
<1>5. ~WasSent(<<payload[i], next[i] + 1>>)
  <2>1. next[i] \in Nat
    BY <1>2
  <2>2. ASSUME NEW k \in 1 .. Len(sent), sent[k] = <<payload[i], next[i] + 1>> PROVE FALSE
    <3>1. sent[k][1] = payload[i] /\ sent[k][2] = next[i] + 1
      BY <2>2
    <3> QED
      BY <1>3, <2>1, <3>1
  <2> QED
    BY <2>2 DEF WasSent
<1>6. \A x : IsCurrent(x)' => IsCurrent(x) \/ ~WasSent(x)
  BY <1>1, <1>4, <1>5 DEF IsCurrent
<1>7. /\ Len(sent) \in Nat
      /\ \A x : WasSent(x) => WasSent(x)'
      /\ sent' = Append(sent, o) => WasSent(o)' /\ Len(sent') = Len(sent) + 1
      /\ \A k \in 1 .. Len(sent') : sent'[k] = o \/ (k \in 1 .. Len(sent) /\ sent'[k] = sent[k])
  <2>1. CASE sent' = Append(sent, o)
    <3>1. /\ Len(sent) \in Nat /\ Len(sent') = Len(sent) + 1 /\ sent'[Len(sent) + 1] = o
          /\ \A k \in 1 .. Len(sent) : sent'[k] = sent[k]
      BY <1>2, <2>1
    <3>2. /\ 1 .. Len(sent) \subseteq 1 .. Len(sent')
          /\ Len(sent) + 1 \in 1 .. Len(sent')
          /\ \A k \in 1 .. Len(sent') : k = Len(sent) + 1 \/ k \in 1 .. Len(sent)
      BY <3>1
    <3>3. \A x : WasSent(x) => WasSent(x)'
      BY <3>1, <3>2 DEF WasSent
    <3>4. WasSent(o)'
      BY <3>1, <3>2 DEF WasSent
    <3> QED
      BY <3>1, <3>2, <3>3, <3>4
  <2>2. CASE sent' # Append(sent, o)
    BY <1>1, <1>2, <2>2 DEF WasSent
  <2> QED
    BY <2>1, <2>2
<1>8. o \in Occurring /\ o \notin Finished
  BY <1>0, <1>1, RoomForCurrent
<1>9. \A k \in 1 .. Len(sent') : sent'[k] \in Occurring
  BY <1>7, <1>8 DEF SentInv
<1>10. Finished \subseteq Finished'
  BY <1>6, <1>7, StaysFinished
<1>11. Len(sent') <= Cardinality(Finished') + faults'
  <2>1. Cardinality(Finished) <= Cardinality(Finished')
    BY <1>10, FinishedFinite, FS_Subset
  <2>2. CASE UNCHANGED sent \/ faults' = faults + 1
    BY <1>2, <1>7, <2>1, <2>2, FinishedFinite, <1>1 DEF SentInv
  <2>3. CASE sent' = Append(sent, o) /\ next' = [next EXCEPT ![i] = @ + 1]
    <3>1. next'[i] = next[i] + 1
      BY <1>2, <2>3
    <3>2. ~IsCurrent(o)'
      <4>1. ASSUME NEW j \in Ingesters, stage'[j] = "publishing", o = <<payload'[j], next'[j]>>
            PROVE  FALSE
        <5>1. j = i
          BY <1>0, <1>1, <1>2, <4>1 DEF SentInv, IngestInv, OneHolder, Holds
        <5>2. o[2] = next[i] /\ o[2] = next'[i]
          BY <1>0, <4>1, <5>1
        <5> QED
          BY <1>2, <3>1, <5>2
      <4> QED
        BY <4>1 DEF IsCurrent
    <3>3. Finished \cup {o} \in SUBSET Finished'
      BY <1>7, <1>8, <1>10, <2>3, <3>2 DEF Finished
    <3>4. Cardinality(Finished) + 1 <= Cardinality(Finished')
      BY <1>8, <3>3, FinishedFinite, FS_AddElement, FS_Subset
    <3> QED
      BY <1>1, <1>2, <1>7, <2>3, <3>4, FinishedFinite DEF SentInv
  <2> QED
    BY <1>1, <2>2, <2>3
<1> QED
  BY <1>9, <1>11 DEF SentInv

LEMMA SentInvNext == SentInv /\ [Next]_vars => SentInv'
<1> SUFFICES ASSUME SentInv, [Next]_vars PROVE SentInv'
  OBVIOUS
<1>1. IngestInv' /\ IngestInv
  BY InvNext DEF SentInv
<1>2. CASE UNCHANGED vars
  BY <1>1, <1>2, SentInvSilent DEF vars, storeVars, procVars, IsCurrent, IngestInv, TypeOK
<1>3. ASSUME NEW i \in Ingesters, Publish(i) \/ PublishFails(i) \/ WriterRetries(i)
      PROVE  SentInv'
  BY <1>1, <1>3, SentInvPublish
<1>4. ASSUME NEW i \in Ingesters,
             \/ Start(i) \/ Tick(i) \/ Crash(i) \/ Fetch(i) \/ FetchFails(i) \/ Normalize(i)
             \/ InsertSnapshot(i) \/ InsertEvents(i) \/ Published(i)
             \/ InsertSnapshotFails(i) \/ InsertEventsFails(i)
      PROVE  SentInv'
  <2>1. /\ UNCHANGED sent /\ faults' >= faults
        /\ \A j \in Ingesters \ {i} :
              stage'[j] = stage[j] /\ payload'[j] = payload[j] /\ next'[j] = next[j]
        /\ stage'[i] = "publishing" =>
              stage[i] = "registered" /\ payload'[i] = payload[i] /\ next'[i] = next[i]
    <3>0. Len(Feeds) = 2 /\ faults \in Int
      BY <1>1 DEF Feeds, IngestInv, TypeOK
    <3>1. CASE NextFeed(i)
      <4>1. /\ stage'[i] \in {"waiting", "fetching"}
            /\ \A j \in Ingesters \ {i} :
                  stage'[j] = stage[j] /\ payload'[j] = payload[j] /\ next'[j] = next[j]
        BY <1>1, <3>1, NextFeedTyped DEF IngestInv
      <4>2. UNCHANGED sent /\ faults' >= faults
        BY <1>4, <3>0 DEF Start, Tick, Crash, Fetch, FetchFails, Normalize, InsertSnapshot,
           InsertEvents, Published, InsertSnapshotFails, InsertEventsFails, Fault, storeVars
      <4> QED
        BY <4>1, <4>2
    <3>2. CASE ~NextFeed(i)
      BY <1>1, <1>4, <3>0, <3>2 DEF Start, Tick, Crash, Fetch, FetchFails, Normalize,
         InsertSnapshot, InsertEvents, Published, InsertSnapshotFails, InsertEventsFails,
         Fault, Goto, storeVars, IngestInv, TypeOK
    <3> QED
      BY <3>1, <3>2
  <2>2. stage[i] = "registered" => ~WasSent(<<payload[i], next[i]>>)
    <3>1. stage[i] = "registered" => payload[i] \in Payloads /\ Holds(i, payload[i])
      BY <1>1 DEF IngestInv, TypeOK, Holds
    <3>2. stage[i] = "registered" => \A k \in 1 .. Len(sent) : sent[k][1] # payload[i]
      BY <1>1, <3>1 DEF IngestInv, OneHolder
    <3> QED
      BY <3>2 DEF WasSent
  <2>3. \A o : IsCurrent(o)' => IsCurrent(o) \/ ~WasSent(o)
    BY <2>1, <2>2 DEF IsCurrent
  <2> QED
    BY <1>1, <2>1, <2>3, SentInvSilent
<1> QED
  BY <1>2, <1>3, <1>4 DEF Next, Collect, CollectFails

-----------------------------------------------------------------------------
(* Every event that can be sent is one of the feed, and its rows are there *)
(* when its payload was ingested.                                          *)
LEMMA EventsKnown ==
    ASSUME NEW o \in Occurring
    PROVE  /\ EventAt(o) \in Feed
           /\ TopicFor(EventAt(o)) \in Topics
           /\ (ingested[o[1]] > 0 /\ EventAt(o).kind = Prediction) => EventAt(o) \in Rows
<1>0. PICK p \in Payloads : \E n \in DOMAIN EventsOf(p) : o = <<p, n>>
  BY DEF Occurring, Occurrences
<1>1. PICK n \in DOMAIN EventsOf(p) : o = <<p, n>>
  BY <1>0
<1>2. EventAt(o) = EventsOf(p)[n] /\ o[1] = p
  BY <1>1 DEF EventAt
<1>3. EventsOf(p)[n] \in Feed
  BY <1>1, RunnerAssumption
<1>4. TopicFor(EventAt(o)) \in Topics
  BY DEF TopicFor, Topics
<1> QED
  BY <1>1, <1>2, <1>3, <1>4 DEF Rows

LEMMA AbstractInit == Init => Contract!IngestInit
<1> SUFFICES ASSUME Init PROVE Contract!IngestInit
  OBVIOUS
<1>1. Rows = {}
  BY DEF Init, Rows
<1>2. Logs = [t \in Topics |-> <<>>]
  BY TopicLogEmpty DEF Init, Logs
<1> QED
  BY <1>1, <1>2 DEF Contract!IngestInit, Contract!Topics, Contract!TripUpdates,
     Contract!VehiclePositions, Topics, TripUpdates, VehiclePositions

(* The commit of a batch is the commit of its predictions.                 *)
LEMMA AbstractCommit ==
    ASSUME SentInv, UNCHANGED sent, NEW p \in Payloads, CommitEvents(p)
    PROVE  Contract!PersistPredictions
<1>1. ingested \in [Payloads -> Nat] /\ ingested' = [ingested EXCEPT ![p] = @ + 1]
  BY DEF SentInv, IngestInv, TypeOK, CommitEvents
<1>2. \A q \in Payloads : ingested[q] > 0 => ingested'[q] > 0
  BY <1>1
<1>3. Rows \subseteq Rows'
  BY <1>2 DEF Rows
<1>4. Rows' \subseteq Feed \cap PredictionEvent
  BY FeedAssumption DEF Rows, PredictionEvent, VehicleEvent, Prediction, VehiclePosition
<1>5. Rows' \in SUBSET (Feed \cap PredictionEvent) /\ Rows' = Rows \cup Rows'
  BY <1>3, <1>4
<1>6. UNCHANGED Logs
  BY DEF Logs
<1> QED
  BY <1>5, <1>6 DEF Contract!PersistPredictions, Contract!PredictionEvent, PredictionEvent,
     Contract!Prediction, Prediction

(* An accepted publication is one of its event, after its rows.            *)
LEMMA AbstractPublish ==
    ASSUME SentInv, NEW i \in Ingesters, stage[i] = "publishing", HasEvent(i), Accepted(i),
           UNCHANGED ingested
    PROVE  \E e \in Feed : Contract!Publish(e)
<1>0. PICK o : o = <<payload[i], next[i]>>
  OBVIOUS
<1>1. PICK e : e = EventAt(o)
  OBVIOUS
<1>2. PICK s : s = sent
  OBVIOUS
<1>3. o \in Occurring /\ Len(sent) < LogBound /\ sent' = Append(sent, o)
  BY <1>0, RoomForCurrent DEF Accepted
<1>4. /\ payload[i] \in Payloads /\ Holds(i, payload[i])
      /\ sent \in Seq(Payloads \X (Nat \ {0}))
      /\ o \in Payloads \X (Nat \ {0})
  BY <1>0 DEF SentInv, IngestInv, TypeOK, Holds
<1>5. ingested[o[1]] > 0
  BY <1>0, <1>4 DEF SentInv, IngestInv, OneHolder
<1>6. e \in Feed /\ TopicFor(e) \in Topics /\ (e.kind = Prediction => e \in Rows)
  BY <1>1, <1>3, <1>5, EventsKnown
<1>7. \A t \in Topics : Logs[t] = TopicLog(t, s) /\ Logs'[t] = TopicLog(t, Append(s, o))
  BY <1>2, <1>3 DEF Logs
<1>8. \A t \in Topics : Logs'[t] = IF TopicFor(e) = t THEN Append(Logs[t], e) ELSE Logs[t]
  <2> SUFFICES ASSUME NEW t \in Topics
               PROVE  Logs'[t] = IF TopicFor(e) = t THEN Append(Logs[t], e) ELSE Logs[t]
    OBVIOUS
  <2>1. Logs[t] = TopicLog(t, s) /\ Logs'[t] = TopicLog(t, Append(s, o))
    BY <1>7
  <2>2. PICK S : S = Payloads \X (Nat \ {0})
    OBVIOUS
  <2>3. s \in Seq(S) /\ o \in S
    BY <1>2, <1>4, <2>2
  <2>4. TopicLog(t, Append(s, o)) = IF TopicFor(EventAt(o)) = t THEN Append(TopicLog(t, s), EventAt(o))
                                    ELSE TopicLog(t, s)
    BY <2>3, TopicLogAppend
  <2> QED
    BY <1>1, <2>1, <2>4
<1>9. Logs' = [Logs EXCEPT ![TopicFor(e)] = Append(@, e)]
  <2>1. DOMAIN Logs = Topics /\ Logs' = [t \in Topics |-> Logs'[t]]
    BY DEF Logs
  <2> QED
    BY <1>6, <1>8, <2>1
<1>10. Len(Logs[TopicFor(e)]) < LogBound
  <2>1. \A k \in 1 .. Len(s) : EventAt(s[k]) \in Feed
    BY <1>2, EventsKnown DEF SentInv
  <2>2. Len(s) \in Nat
    BY <1>2, <1>4
  <2>3. Len(TopicLog(TopicFor(e), s)) <= Len(s) /\ Len(TopicLog(TopicFor(e), s)) \in Nat
    BY <2>1, <2>2, TopicLogLen
  <2>4. LogBound \in Nat
    BY RunnerAssumption, FinishedFinite DEF LogBound, Occurring
  <2> QED
    BY <1>2, <1>3, <1>6, <1>7, <2>2, <2>3, <2>4
<1>11. UNCHANGED Rows
  BY DEF Rows
<1> QED
  BY <1>6, <1>9, <1>10, <1>11 DEF Contract!Publish, Contract!AppendTo, Contract!TopicFor, TopicFor,
     Contract!Prediction, Prediction, Contract!TripUpdates, TripUpdates,
     Contract!VehiclePositions, VehiclePositions

LEMMA AbstractNext == SentInv /\ [Next]_vars => [Contract!IngestNext]_(Contract!ingestVars)
<1> SUFFICES ASSUME SentInv, [Next]_vars PROVE [Contract!IngestNext]_(Contract!ingestVars)
  OBVIOUS
<1>1. ASSUME UNCHANGED <<ingested, sent>> PROVE UNCHANGED Contract!ingestVars
  BY <1>1 DEF Contract!ingestVars, Rows, Logs
<1>2. CASE UNCHANGED vars
  BY <1>1, <1>2 DEF vars, storeVars
<1>3. ASSUME NEW i \in Ingesters, Publish(i) \/ PublishFails(i) \/ WriterRetries(i)
      PROVE  [Contract!IngestNext]_(Contract!ingestVars)
  <2>1. CASE Accepted(i)
    BY <1>3, <2>1, AbstractPublish DEF Publish, PublishFails, WriterRetries, Contract!IngestNext
  <2>2. CASE ~Accepted(i)
    BY <1>1, <1>3, <2>2 DEF Publish, PublishFails, WriterRetries
  <2> QED
    BY <2>1, <2>2
<1>4. ASSUME NEW i \in Ingesters, InsertEvents(i) \/ InsertEventsFails(i)
      PROVE  [Contract!IngestNext]_(Contract!ingestVars)
  <2>1. payload[i] \in Payloads /\ UNCHANGED sent
    BY <1>4 DEF InsertEvents, InsertEventsFails, SentInv, IngestInv, TypeOK
  <2>2. CASE CommitEvents(payload[i])
    BY <2>1, <2>2, AbstractCommit DEF Contract!IngestNext
  <2>3. CASE ~CommitEvents(payload[i])
    BY <1>1, <1>4, <2>1, <2>3 DEF InsertEvents, InsertEventsFails
  <2> QED
    BY <2>2, <2>3
<1>5. ASSUME NEW i \in Ingesters,
             \/ Start(i) \/ Tick(i) \/ Crash(i) \/ Fetch(i) \/ FetchFails(i) \/ Normalize(i)
             \/ InsertSnapshot(i) \/ Published(i) \/ InsertSnapshotFails(i)
      PROVE  [Contract!IngestNext]_(Contract!ingestVars)
  BY <1>1, <1>5 DEF Start, Tick, Crash, Fetch, FetchFails, Normalize, InsertSnapshot, Published,
     InsertSnapshotFails, storeVars
<1> QED
  BY <1>2, <1>3, <1>4, <1>5 DEF Next, Collect, CollectFails

(* What the matcher sees of any number of ingesters, whatever fails, is    *)
(* what Ingest promises: an event after its rows, in bounded logs.         *)
THEOREM RunnerImplementsIngest == Spec => ImplementsIngest
<1>1. Spec => []SentInv
  BY SentInvInit, SentInvNext, PTL DEF Spec
<1> QED
  BY <1>1, AbstractInit, AbstractNext, PTL DEF Spec, ImplementsIngest, Contract!IngestSpec
=============================================================================

----------------------------- MODULE FeedProofs -----------------------------
(***************************************************************************)
(* From a feed to the rows that InsertEvents stores: the configuration and *)
(* the mode of a process, the events that Normalize makes of any payload,  *)
(* and the delay that is stored with a prediction, for any environments,   *)
(* payloads and schedules.                                                 *)
(***************************************************************************)
EXTENDS Feed, ScheduleDelay, FiniteSetTheorems, WellFoundedInduction, TLAPS

-----------------------------------------------------------------------------
(* The configuration and the mode.                                         *)

\* The running process has the configuration of one environment, and its last
\* request is the one it makes for the feed it is at.
ModeInv ==
    /\ settings = {} \/ \E env \in Environments : settings = LoadFrom(env)
    /\ \A q \in request : \E c \in settings : q \in RequestOf(c)
    /\ \A row \in stored : row.mode = row.origin

\* What Validate lets through.
LEMMA LoadedSettings ==
    ASSUME NEW env, NEW c \in LoadFrom(env)
    PROVE  /\ c = Settings(env)
           /\ c.AppEnv \in {"fixture", "stm"}
           /\ AbsoluteURL(c.STMTripUpdatesURL) /\ AbsoluteURL(c.STMVehicleURL)
           /\ c.AppEnv = "stm" => /\ c.STMAPIKey # NoText
                                  /\ AbsoluteURL(c.MatcherStopsURL)
<1>1. c = Settings(env) /\ \E poll, window, radius : Validate(c, poll, window, radius)
  BY DEF LoadFrom
<1>2. /\ ToLower(c.AppEnv) \in {"fixture", "stm"}
      /\ AbsoluteURL(c.STMTripUpdatesURL) /\ AbsoluteURL(c.STMVehicleURL)
      /\ c.MatcherStopsURL = NoText \/ AbsoluteURL(c.MatcherStopsURL)
      /\ ~KeyMissing(c)
  BY <1>1 DEF Validate
<1>3. c.AppEnv = AppEnv(env)
  BY <1>1 DEF Settings
<1>4. c.AppEnv \in {"fixture", "stm"}
  BY <1>2, <1>3 DEF AppEnv, ToLower
<1>5. c.AppEnv = "stm" => c.STMAPIKey # NoText
  BY <1>2 DEF KeyMissing, ToLower
<1>6. c.MatcherStopsURL = IF c.AppEnv = "stm" /\ valueOr(env, "MATCHER_STOPS_URL", NoText) = NoText
                          THEN "https://site" ELSE valueOr(env, "MATCHER_STOPS_URL", NoText)
  BY <1>1 DEF Settings
<1>7. c.AppEnv = "stm" => AbsoluteURL(c.MatcherStopsURL)
  BY <1>2, <1>6 DEF AbsoluteURL, NoText
<1> QED BY <1>1, <1>2, <1>4, <1>5, <1>7

\* A process has one configuration.
LEMMA OneConfiguration ==
    ASSUME ModeInv, NEW c \in settings
    PROVE  /\ c.AppEnv \in {"fixture", "stm"}
           /\ AbsoluteURL(c.STMTripUpdatesURL) /\ AbsoluteURL(c.STMVehicleURL)
           /\ c.AppEnv = "stm" => /\ c.STMAPIKey # NoText
                                  /\ AbsoluteURL(c.MatcherStopsURL)
           /\ \A d \in settings : d = c
<1>1. PICK env \in Environments : settings = LoadFrom(env)
  BY DEF ModeInv
<1>2. \A d \in settings : d = c
  BY <1>1 DEF LoadFrom
<1> QED BY <1>1, <1>2, LoadedSettings

LEMMA ModeInit == Init => ModeInv
BY DEF Init, ModeInv

LEMMA ModeNext == ModeInv /\ [Next]_vars => ModeInv'
<1> SUFFICES ASSUME ModeInv, [Next]_vars PROVE ModeInv'
  OBVIOUS
<1>1. CASE Start
  BY <1>1 DEF Start, Forget, ModeInv
<1>2. CASE End
  BY <1>2 DEF End, Forget, ModeInv
<1>3. CASE Fetch
  <2>1. PICK c \in settings : request' = RequestOf(c)
    BY <1>3 DEF Fetch
  <2>2. UNCHANGED <<settings, stored, feedType>>
    BY <1>3 DEF Fetch
  <2>3. RequestOf(c)' = RequestOf(c)
    BY <2>2 DEF RequestOf, endpoint
  <2> QED BY <2>1, <2>2, <2>3 DEF ModeInv
<1>4. CASE NextFeed
  BY <1>4 DEF NextFeed, Forget, ModeInv
<1>5. CASE Store
  <2>1. UNCHANGED <<settings, request, feedType>>
    BY <1>5 DEF Store, feedVars
  <2>2. PICK c \in settings, q \in request :
          stored' = stored \cup {[mode |-> m, origin |-> q.origin] :
                                    m \in RowMode(c.AppEnv, RepositoryMode(c.AppEnv))}
    BY <1>5 DEF Store
  <2>3. q \in RequestOf(c) /\ c.AppEnv \in {"fixture", "stm"}
    BY OneConfiguration DEF ModeInv
  <2>4. q.origin = c.AppEnv
    BY <2>3 DEF RequestOf
  <2>5. \A m \in RowMode(c.AppEnv, RepositoryMode(c.AppEnv)) : m = c.AppEnv
    BY <2>3 DEF RowMode, RepositoryMode, ToLower, NoText
  <2>6. \A row \in stored' : row.mode = row.origin
    BY <2>2, <2>4, <2>5 DEF ModeInv
  <2>7. \A d : RequestOf(d)' = RequestOf(d)
    BY <2>1 DEF RequestOf, endpoint
  <2> QED BY <2>1, <2>6, <2>7 DEF ModeInv
<1>6. CASE Decode \/ Normalize \/ UNCHANGED vars
  <2>1. UNCHANGED <<settings, stored, request, feedType>>
    BY <1>6 DEF Decode, Normalize, vars, feedVars
  <2>2. \A d : RequestOf(d)' = RequestOf(d)
    BY <2>1 DEF RequestOf, endpoint
  <2> QED BY <2>1, <2>2 DEF ModeInv
<1> QED BY <1>1, <1>2, <1>3, <1>4, <1>5, <1>6 DEF Next

LEMMA ModeAlways == Spec => []ModeInv
BY ModeInit, ModeNext, PTL DEF Spec

\* The six readings of the mode agree, and every row says where its payload
\* came from, whatever processes ran before on the same database.
THEOREM ModesAgree == Spec => []OneMode
<1>1. ModeInv => OneMode
  <2> SUFFICES ASSUME ModeInv PROVE OneMode
    OBVIOUS
  <2>1. ASSUME NEW c \in settings
        PROVE  /\ c.AppEnv # "fixture" <=> RepositoryMode(c.AppEnv) = "stm"
               /\ c.AppEnv # "fixture" <=> ImportsSchedule(c)
               /\ c.AppEnv # "fixture" => AbsoluteURL(c.MatcherStopsURL)
    BY OneConfiguration DEF RepositoryMode, ToLower, ImportsSchedule
  <2> QED BY <2>1 DEF OneMode, ModeInv
<1> QED BY <1>1, ModeAlways, PTL

\* No request leaves for the STM without its key, to a place that is not an
\* absolute URL, and a process of the fixture mode sends nothing.
THEOREM RequestsCarryTheKey == Spec => []RequestsAuthenticated
<1>1. ModeInv => RequestsAuthenticated
  <2> SUFFICES ASSUME ModeInv, NEW q \in request
               PROVE  IF q.origin = "fixture" THEN q.headers = {}
                      ELSE /\ AbsoluteURL(q.place)
                           /\ \E h \in q.headers : h.key # NoText /\ HeaderToken(h.header)
    BY DEF RequestsAuthenticated
  <2>1. PICK c \in settings : q \in RequestOf(c)
    BY DEF ModeInv
  <2>2. CASE c.AppEnv = "fixture"
    BY <2>1, <2>2 DEF RequestOf
  <2>3. CASE c.AppEnv # "fixture"
    <3>1. /\ c.AppEnv = "stm" /\ c.STMAPIKey # NoText
          /\ AbsoluteURL(c.STMTripUpdatesURL) /\ AbsoluteURL(c.STMVehicleURL)
      BY <2>3, OneConfiguration
    <3>2. /\ Sendable(c)
          /\ q = [origin |-> "stm", place |-> endpoint(c), headers |-> Credentials(c)]
      BY <2>1, <2>3 DEF RequestOf
    <3>3. PICK h : h = [header |-> c.STMAPIKeyHeader, key |-> c.STMAPIKey]
      OBVIOUS
    <3>4. h \in Credentials(c) /\ h.key = c.STMAPIKey
      BY <3>1, <3>3 DEF Credentials
    <3>5. HeaderToken(h.header)
      BY <3>2, <3>4 DEF Sendable
    <3>6. AbsoluteURL(endpoint(c))
      BY <3>1 DEF endpoint
    <3>7. q.origin = "stm" /\ q.place = endpoint(c) /\ q.headers = Credentials(c)
      BY <3>2
    <3> QED BY <3>1, <3>4, <3>5, <3>6, <3>7
  <2> QED BY <2>2, <2>3
<1> QED BY <1>1, ModeAlways, PTL

-----------------------------------------------------------------------------
(* FlattenSeq, which joins what each entity gave.                          *)

Smaller == {ss \in Nat \X Nat : ss[1] < ss[2]}

\* The minimal counterexample of an argument by induction.
LEMMA LeastNatural ==
    ASSUME NEW S, S \subseteq Nat, S # {}
    PROVE  \E m \in S : \A n \in S : m <= n
<1>1. IsWellFoundedOn(Smaller, Nat)
  BY NatLessThanWellFounded DEF OpToRel, Smaller
<1>2. PICK m \in S : \A n \in S : ~(<<n, m>> \in Smaller)
  BY <1>1, WFMin
<1>3. ASSUME NEW n \in S, n < m PROVE FALSE
  <2>1. <<n, m>> \in Smaller
    BY <1>3 DEF Smaller
  <2> QED BY <1>2, <2>1
<1> QED BY <1>3

\* One step of the recursion, and what it computes as far as n.
JoinStep(ss, h, k) == IF k = 1 THEN ss[k] ELSE h[k - 1] \o ss[k]

Joins(ss, n, h) == h = [k \in 1 .. n |-> JoinStep(ss, h, k)]

LEMMA JoinsExist ==
    ASSUME NEW ss
    PROVE  \A n \in Nat : \E h : Joins(ss, n, h)
<1> DEFINE Bad == {n \in Nat : ~\E h : Joins(ss, n, h)}
<1>1. SUFFICES ASSUME Bad # {} PROVE FALSE
  OBVIOUS
<1>2. PICK n \in Bad : \A m \in Bad : n <= m
  <2>1. Bad \subseteq Nat
    OBVIOUS
  <2> HIDE DEF Bad
  <2> QED BY <1>1, <2>1, LeastNatural
<1>3. n \in Nat /\ ~\E h : Joins(ss, n, h)
  OBVIOUS
<1>4. CASE n = 0
  <2>1. Joins(ss, 0, [k \in 1 .. 0 |-> <<>>])
    BY DEF Joins
  <2> QED BY <1>3, <1>4, <2>1
<1>5. CASE n # 0
  <2>1. n - 1 \in Nat /\ n - 1 \notin Bad
    <3> HIDE DEF Bad
    <3> QED BY <1>2, <1>3, <1>5
  <2>2. PICK h : Joins(ss, n - 1, h)
    BY <2>1
  <2> DEFINE longer == [k \in 1 .. n |-> IF k = n THEN JoinStep(ss, h, n) ELSE h[k]]
  <2>3. ASSUME NEW k \in 1 .. n PROVE longer[k] = JoinStep(ss, longer, k)
    <3>1. k # 1 => k - 1 \in 1 .. n /\ k - 1 # n /\ longer[k - 1] = h[k - 1]
      BY <1>3
    <3>2. JoinStep(ss, longer, k) = JoinStep(ss, h, k)
      BY <3>1 DEF JoinStep
    <3>3. k # n => k \in 1 .. n - 1 /\ h[k] = JoinStep(ss, h, k)
      BY <1>3, <2>2 DEF Joins
    <3> QED BY <3>2, <3>3
  <2>4. Joins(ss, n, longer)
    BY <2>3 DEF Joins
  <2> QED BY <1>3, <2>4
<1> QED BY <1>4, <1>5

LEMMA FlattenIs ==
    ASSUME NEW ss, Len(ss) \in Nat \ {0}
    PROVE  \E h : Joins(ss, Len(ss), h) /\ FlattenSeq(ss) = h[Len(ss)]
<1>1. \E h : Joins(ss, Len(ss), h)
  BY JoinsExist
<1> DEFINE h == CHOOSE h : Joins(ss, Len(ss), h)
<1>2. Joins(ss, Len(ss), h)
  BY <1>1
<1>3. FlattenSeq(ss) = h[Len(ss)]
  BY DEF FlattenSeq, Joins, JoinStep
<1> QED BY <1>2, <1>3

LEMMA ConcatLen ==
    ASSUME NEW S, NEW s \in Seq(S), NEW t \in Seq(S)
    PROVE  Len(s \o t) = Len(s) + Len(t)
OBVIOUS

\* Sequences of sequences of the same shape.
SameShape(f, g) ==
    /\ Len(f) = Len(g)
    /\ \A k \in 1 .. Len(f) : Len(f[k]) = Len(g[k])

\* Place i of a and of b comes from one place of the first n parts of f and g.
ComesFrom(f, g, n, a, b) ==
    /\ Len(a) = Len(b)
    /\ \A i \in 1 .. Len(a) : \E k \in 1 .. n : \E j \in 1 .. Len(f[k]) :
          a[i] = f[k][j] /\ b[i] = g[k][j]

LEMMA JoinOne ==
    ASSUME NEW A, NEW B, NEW n \in Nat \ {0}, NEW f, NEW g, NEW m \in Nat \ {0}, n = m + 1,
           NEW a \in Seq(A), NEW b \in Seq(B), f[n] \in Seq(A), g[n] \in Seq(B),
           Len(f[n]) = Len(g[n]), ComesFrom(f, g, m, a, b)
    PROVE  ComesFrom(f, g, n, a \o f[n], b \o g[n])
<1>1. Len(a) = Len(b) /\ Len(a \o f[n]) = Len(b \o g[n])
  <2>1. Len(a) = Len(b)
    BY DEF ComesFrom
  <2>2. Len(a \o f[n]) = Len(a) + Len(f[n]) /\ Len(b \o g[n]) = Len(b) + Len(g[n])
    BY ConcatLen
  <2> QED BY <2>1, <2>2
<1>2. ASSUME NEW i \in 1 .. Len(a \o f[n])
      PROVE  \E k \in 1 .. n : \E j \in 1 .. Len(f[k]) :
                (a \o f[n])[i] = f[k][j] /\ (b \o g[n])[i] = g[k][j]
  <2>1. CASE i <= Len(a)
    <3>1. i \in 1 .. Len(a) /\ (a \o f[n])[i] = a[i] /\ (b \o g[n])[i] = b[i]
      BY <1>1, <1>2, <2>1
    <3>2. PICK k \in 1 .. m : \E j \in 1 .. Len(f[k]) : a[i] = f[k][j] /\ b[i] = g[k][j]
      BY <3>1 DEF ComesFrom
    <3>3. k \in 1 .. n
      OBVIOUS
    <3> QED BY <3>1, <3>2, <3>3
  <2>2. CASE ~(i <= Len(a))
    <3>1. PICK j : j = i - Len(a)
      OBVIOUS
    <3>2. j \in 1 .. Len(f[n]) /\ (a \o f[n])[i] = f[n][j] /\ (b \o g[n])[i] = g[n][j]
      BY <1>1, <1>2, <2>2, <3>1
    <3>3. n \in 1 .. n
      OBVIOUS
    <3> QED BY <3>2, <3>3
  <2> QED BY <2>1, <2>2
<1> QED BY <1>1, <1>2 DEF ComesFrom

LEMMA JoinAligned ==
    ASSUME NEW A, NEW B, NEW f \in Seq(Seq(A)), NEW g \in Seq(Seq(B)), SameShape(f, g),
           NEW fh, NEW gh, Joins(f, Len(f), fh), Joins(g, Len(f), gh)
    PROVE  \A n \in 1 .. Len(f) :
              /\ fh[n] \in Seq(A) /\ gh[n] \in Seq(B)
              /\ ComesFrom(f, g, n, fh[n], gh[n])
<1> DEFINE Good(n) == /\ fh[n] \in Seq(A) /\ gh[n] \in Seq(B)
                      /\ ComesFrom(f, g, n, fh[n], gh[n])
           Bad == {n \in 1 .. Len(f) : ~Good(n)}
<1>1. SUFFICES ASSUME Bad # {} PROVE FALSE
  OBVIOUS
<1>2. PICK n \in Bad : \A m \in Bad : n <= m
  <2>1. Bad \subseteq Nat
    OBVIOUS
  <2> HIDE DEF Bad
  <2> QED BY <1>1, <2>1, LeastNatural
<1>3. n \in Nat \ {0} /\ n \in 1 .. Len(f) /\ ~Good(n)
  OBVIOUS
<1>4. /\ f[n] \in Seq(A) /\ g[n] \in Seq(B) /\ Len(f[n]) = Len(g[n])
      /\ fh[n] = JoinStep(f, fh, n) /\ gh[n] = JoinStep(g, gh, n)
  <2>1. Len(g) = Len(f) /\ f[n] \in Seq(A) /\ g[n] \in Seq(B)
    BY <1>3 DEF SameShape
  <2>2. Len(f[n]) = Len(g[n])
    BY <1>3 DEF SameShape
  <2>3. fh[n] = JoinStep(f, fh, n)
    BY <1>3 DEF Joins
  <2>4. gh[n] = JoinStep(g, gh, n)
    BY <1>3 DEF Joins
  <2> QED BY <2>1, <2>2, <2>3, <2>4
<1>5. CASE n = 1
  <2>1. fh[1] = f[1] /\ gh[1] = g[1]
    BY <1>4, <1>5 DEF JoinStep
  <2>2. ComesFrom(f, g, 1, f[1], g[1])
    BY <1>4, <1>5 DEF ComesFrom
  <2> QED BY <1>3, <1>4, <1>5, <2>1, <2>2
<1>6. CASE n # 1
  <2>1. PICK m : m = n - 1
    OBVIOUS
  <2>2. m \in Nat \ {0} /\ m \in 1 .. Len(f) /\ n = m + 1
    BY <1>3, <1>6, <2>1
  <2>3. m \notin Bad
    <3> HIDE DEF Bad
    <3> QED BY <1>2, <1>3, <2>2
  <2>4. Good(m)
    BY <2>2, <2>3
  <2>5. fh[n] = fh[m] \o f[n] /\ gh[n] = gh[m] \o g[n]
    BY <1>4, <1>6, <2>1 DEF JoinStep
  <2>6. PICK a, b : a = fh[m] /\ b = gh[m]
    OBVIOUS
  <2>7. a \in Seq(A) /\ b \in Seq(B) /\ ComesFrom(f, g, m, a, b)
    BY <2>4, <2>6
  <2>8. ComesFrom(f, g, n, a \o f[n], b \o g[n])
    <3> HIDE DEF Good, Bad
    <3> QED BY <1>3, <1>4, <2>2, <2>7, JoinOne
  <2>9. a \o f[n] \in Seq(A) /\ b \o g[n] \in Seq(B)
    BY <1>4, <2>7
  <2> QED BY <1>3, <2>5, <2>6, <2>8, <2>9
<1> QED BY <1>5, <1>6

\* Flattening two sequences of one shape keeps their places together.
LEMMA FlattenAligned ==
    ASSUME NEW A, NEW B, NEW f \in Seq(Seq(A)), NEW g \in Seq(Seq(B)), SameShape(f, g)
    PROVE  /\ FlattenSeq(f) \in Seq(A) /\ FlattenSeq(g) \in Seq(B)
           /\ ComesFrom(f, g, Len(f), FlattenSeq(f), FlattenSeq(g))
<1>1. Len(f) \in Nat /\ Len(g) = Len(f)
  BY DEF SameShape
<1>2. CASE Len(f) = 0
  <2>1. f = <<>> /\ g = <<>>
    BY <1>1, <1>2
  <2>2. FlattenSeq(f) = <<>> /\ FlattenSeq(g) = <<>>
    BY <1>1, <1>2, <2>1 DEF FlattenSeq
  <2> QED BY <2>2 DEF ComesFrom
<1>3. CASE Len(f) # 0
  <2>1. PICK fh : Joins(f, Len(f), fh) /\ FlattenSeq(f) = fh[Len(f)]
    BY <1>1, <1>3, FlattenIs
  <2>2. PICK gh : Joins(g, Len(f), gh) /\ FlattenSeq(g) = gh[Len(f)]
    BY <1>1, <1>3, FlattenIs
  <2>3. Len(f) \in 1 .. Len(f)
    BY <1>1, <1>3
  <2> QED BY <2>1, <2>2, <2>3, JoinAligned
<1> QED BY <1>2, <1>3

\* Parts that are sequences make a sequence of sequences.
AllSequences(f, n) ==
    /\ f = [k \in 1 .. n |-> f[k]]
    /\ \A k \in 1 .. n : f[k] \in Seq(Range(f[k]))

LEMMA SequenceOver ==
    ASSUME NEW s, NEW A, s \in Seq(Range(s)), Range(s) \subseteq A
    PROVE  s \in Seq(A)
<1>1. Len(s) \in Nat /\ DOMAIN s = 1 .. Len(s)
  OBVIOUS
<1>2. \A i \in 1 .. Len(s) : s[i] \in A
  BY <1>1 DEF Range
<1>3. s = [i \in 1 .. Len(s) |-> s[i]]
  OBVIOUS
<1> QED BY <1>1, <1>2, <1>3

LEMMA Gather ==
    ASSUME NEW n \in Nat, NEW f, AllSequences(f, n)
    PROVE  f \in Seq(Seq(UNION {Range(f[k]) : k \in 1 .. n})) /\ Len(f) = n
<1> DEFINE A == UNION {Range(f[k]) : k \in 1 .. n}
<1>1. ASSUME NEW k \in 1 .. n PROVE f[k] \in Seq(A)
  <2>1. f[k] \in Seq(Range(f[k]))
    BY DEF AllSequences
  <2>2. Range(f[k]) \subseteq A
    OBVIOUS
  <2> HIDE DEF A
  <2> QED BY <2>1, <2>2, SequenceOver
<1>2. f = [k \in 1 .. n |-> f[k]]
  BY DEF AllSequences
<1> HIDE DEF A
<1>3. f \in Seq(Seq(A)) /\ Len(f) = n
  BY <1>1, <1>2
<1> QED BY <1>3 DEF A

-----------------------------------------------------------------------------
(* One entity.                                                             *)

LEMMA LeastChosen ==
    ASSUME NEW K, K \subseteq Int, NEW m \in K, \A j \in K : m =< j
    PROVE  (CHOOSE i \in K : \A j \in K : i =< j) = m
<1>1. PICK c : c = CHOOSE i \in K : \A j \in K : i =< j
  OBVIOUS
<1>2. c \in K /\ \A j \in K : c =< j
  BY <1>1
<1>3. c =< m /\ m =< c /\ c \in Int /\ m \in Int
  BY <1>2
<1> QED BY <1>1, <1>3

LEMMA FirstOfFour ==
    ASSUME NEW a, NEW b, NEW c, NEW d \in Nat \ {0}
    PROVE  FirstTime(<<a, b, c, d>>) =
              IF a > 0 THEN a ELSE IF b > 0 THEN b ELSE IF c > 0 THEN c ELSE d
<1> DEFINE times == <<a, b, c, d>>
           known == {i \in DOMAIN times : times[i] > 0}
           first == IF a > 0 THEN 1 ELSE IF b > 0 THEN 2 ELSE IF c > 0 THEN 3 ELSE 4
<1>1. /\ DOMAIN times = 1 .. 4
      /\ times[1] = a /\ times[2] = b /\ times[3] = c /\ times[4] = d
  OBVIOUS
<1>2. first \in known /\ \A j \in known : first =< j
  BY <1>1
<1>3. (CHOOSE i \in known : \A j \in known : i =< j) = first
  <2>1. known \subseteq Int
    BY <1>1
  <2> HIDE DEF known, first
  <2> QED BY <1>2, <2>1, LeastChosen
<1>4. FirstTime(times) = times[first]
  BY <1>2, <1>3 DEF FirstTime
<1> QED BY <1>1, <1>4

LEMMA FirstOfTwo ==
    ASSUME NEW a, NEW d \in Nat \ {0}
    PROVE  FirstTime(<<a, d>>) = IF a > 0 THEN a ELSE d
<1> DEFINE times == <<a, d>>
           known == {i \in DOMAIN times : times[i] > 0}
           first == IF a > 0 THEN 1 ELSE 2
<1>1. DOMAIN times = 1 .. 2 /\ times[1] = a /\ times[2] = d
  OBVIOUS
<1>2. first \in known /\ \A j \in known : first =< j
  BY <1>1
<1>3. (CHOOSE i \in known : \A j \in known : i =< j) = first
  <2>1. known \subseteq Int
    BY <1>1
  <2> HIDE DEF known, first
  <2> QED BY <1>2, <2>1, LeastChosen
<1>4. FirstTime(times) = times[first]
  BY <1>2, <1>3 DEF FirstTime
<1> QED BY <1>1, <1>4

\* The events of a trip's stops and of a located vehicle.
PredictionAt(raw, u, i) ==
    [kind |-> "prediction", entity |-> raw.id, recorded |-> Recorded, trip |-> u.trip,
     optional |-> u.optional, stop |-> u.stops[i].stop, sequence |-> u.stops[i].sequence,
     predicted |-> DecodeStop(u.stops[i]).predicted, delay |-> DecodeStop(u.stops[i]).delay]

PositionFrom(raw, v) ==
    [kind |-> "vehicle_position", entity |-> raw.id, recorded |-> FirstTime(<<v.timestamp, Recorded>>),
     vehicle |-> v.vehicle, optional |-> v.optional, coordinate |-> CHOOSE c \in v.position : TRUE]

LEMMA ConcatEmpty ==
    ASSUME NEW S, NEW s \in Seq(S)
    PROVE  s \o <<>> = s /\ <<>> \o s = s
OBVIOUS

\* What is left of an entity in a feed of trip updates.
LEMMA TripEntity ==
    ASSUME NEW raw \in RawEntities, feedType = TripUpdates, NEW u \in raw.update
    PROVE  /\ u.stops \in Seq(Range(u.stops))
           /\ DecodeEntity(raw).update = {DecodeTripUpdate(u)}
           /\ DecodeEntity(raw).position = {}
           /\ EventsOf(DecodeEntity(raw)) = [i \in 1 .. Len(u.stops) |-> PredictionAt(raw, u, i)]
<1>1. u.stops \in Seq(Range(u.stops)) /\ raw.update = {u}
  BY FeedAssumption DEF OneOf
<1>2. PICK e : e = DecodeEntity(raw)
  OBVIOUS
<1>3. e.update = {DecodeTripUpdate(u)} /\ e.position = {} /\ e.id = raw.id
  BY <1>1, <1>2 DEF DecodeEntity, TripUpdates, VehiclePositions
<1>4. (CHOOSE x \in e.update : TRUE) = DecodeTripUpdate(u)
  BY <1>3
<1>5. PICK w : w = DecodeTripUpdate(u)
  OBVIOUS
<1>6. /\ w.trip = u.trip /\ w.optional = u.optional /\ DOMAIN w.stops = 1 .. Len(u.stops)
      /\ \A i \in 1 .. Len(u.stops) : w.stops[i] = DecodeStop(u.stops[i])
  BY <1>1, <1>5 DEF DecodeTripUpdate
<1>7. \A i \in 1 .. Len(u.stops) : /\ w.stops[i].stop = u.stops[i].stop
                                    /\ w.stops[i].sequence = u.stops[i].sequence
  <2>1. \A stop : DecodeStop(stop).stop = stop.stop /\ DecodeStop(stop).sequence = stop.sequence
    BY DEF DecodeStop
  <2> QED BY <1>6, <2>1
<1>8. PredictionsOf(e) = [i \in 1 .. Len(u.stops) |-> PredictionAt(raw, u, i)]
  <2>1. ASSUME NEW i \in 1 .. Len(u.stops)
        PROVE  PredictionAt(raw, u, i) =
                 [kind |-> "prediction", entity |-> e.id, recorded |-> Recorded, trip |-> w.trip,
                  optional |-> w.optional, stop |-> w.stops[i].stop,
                  sequence |-> w.stops[i].sequence, predicted |-> w.stops[i].predicted,
                  delay |-> w.stops[i].delay]
    BY <1>3, <1>6, <1>7 DEF PredictionAt
  <2>2. PredictionsOf(e) =
          [i \in DOMAIN w.stops |->
             [kind |-> "prediction", entity |-> e.id, recorded |-> Recorded, trip |-> w.trip,
              optional |-> w.optional, stop |-> w.stops[i].stop,
              sequence |-> w.stops[i].sequence, predicted |-> w.stops[i].predicted,
              delay |-> w.stops[i].delay]]
    BY <1>3, <1>4, <1>5 DEF PredictionsOf
  <2> QED BY <1>6, <2>1, <2>2
<1>9. PositionsOf(e) = <<>>
  BY <1>3 DEF PositionsOf
<1>10. PredictionsOf(e) \in Seq({PredictionAt(raw, u, i) : i \in 1 .. Len(u.stops)})
  BY <1>1, <1>8
<1>11. EventsOf(e) = PredictionsOf(e)
  BY <1>9, <1>10, ConcatEmpty DEF EventsOf
<1> QED BY <1>1, <1>2, <1>3, <1>8, <1>11

LEMMA VehicleEntity ==
    ASSUME NEW raw \in RawEntities, feedType = VehiclePositions, NEW v \in raw.vehicle
    PROVE  /\ DecodeEntity(raw).update = {}
           /\ DecodeEntity(raw).position = {DecodeVehiclePosition(v)}
           /\ raw.vehicle = {v}
           /\ EventsOf(DecodeEntity(raw)) =
                IF v.position = {} THEN <<>> ELSE <<PositionFrom(raw, v)>>
<1>1. raw.vehicle = {v}
  BY FeedAssumption DEF OneOf
<1>2. PICK e : e = DecodeEntity(raw)
  OBVIOUS
<1>3. PICK w : w = DecodeVehiclePosition(v)
  OBVIOUS
<1>4. e.update = {} /\ e.position = {w} /\ e.id = raw.id
  BY <1>1, <1>2, <1>3 DEF DecodeEntity, TripUpdates, VehiclePositions
<1>5. (CHOOSE x \in e.position : TRUE) = w
  BY <1>4
<1>6. /\ w.vehicle = v.vehicle /\ w.optional = v.optional /\ w.recorded = FirstTime(<<v.timestamp, Recorded>>)
      /\ w.hasPosition = (v.position # {})
      /\ w.coordinate = IF v.position = {} THEN "zero" ELSE CHOOSE c \in v.position : TRUE
  BY <1>3 DEF DecodeVehiclePosition
<1>7. HasPosition(w) <=> v.position # {}
  BY <1>6 DEF HasPosition
<1>8. PositionsOf(e) = IF v.position = {} THEN <<>> ELSE <<PositionFrom(raw, v)>>
  BY <1>4, <1>5, <1>6, <1>7 DEF PositionsOf, PositionFrom
<1>9. PredictionsOf(e) = <<>>
  BY <1>4 DEF PredictionsOf
<1>10. PositionsOf(e) \in Seq({PositionFrom(raw, v)})
  <2>1. \A x : <<x>> \in Seq({x}) /\ <<>> \in Seq({x})
    OBVIOUS
  <2> QED BY <1>8, <2>1
<1>11. EventsOf(e) = PositionsOf(e)
  BY <1>9, <1>10, ConcatEmpty DEF EventsOf
<1> QED BY <1>1, <1>2, <1>3, <1>4, <1>8, <1>11

\* The entity has no part of the feed.
LEMMA OtherEntity ==
    ASSUME NEW raw, feedType \in FeedTypes,
           feedType = TripUpdates => raw.update = {},
           feedType = VehiclePositions => raw.vehicle = {}
    PROVE  EventsOf(DecodeEntity(raw)) = <<>>
<1>1. PICK e : e = DecodeEntity(raw)
  OBVIOUS
<1>2. e.update = {} /\ e.position = {}
  BY <1>1 DEF DecodeEntity, FeedTypes
<1>3. PredictionsOf(e) = <<>> /\ PositionsOf(e) = <<>>
  BY <1>2 DEF PredictionsOf, PositionsOf
<1> QED BY <1>1, <1>3 DEF EventsOf

-----------------------------------------------------------------------------
(* What an entity should give.                                             *)

LEMMA SingletonSeq == \A x : SetToSeq({x}) = <<x>>
<1> TAKE x
<1>1. Cardinality({x}) = 1
  BY FS_Singleton
<1>2. PICK f : f = SetToSeq({x})
  OBVIOUS
<1>3. <<x>> \in [1 .. 1 -> {x}] /\ IsInjective(<<x>>)
  BY DEF IsInjective
<1>4. f \in [1 .. 1 -> {x}]
  BY <1>1, <1>2, <1>3 DEF SetToSeq
<1> QED BY <1>2, <1>4

LEMMA SeqOfNone ==
    ASSUME NEW S, S = {}
    PROVE  SetToSeq(S) = <<>>
<1>1. Cardinality(S) = 0
  BY FS_EmptySet
<1>2. PICK f : f = SetToSeq(S)
  OBVIOUS
<1>3. <<>> \in [1 .. 0 -> S] /\ IsInjective(<<>>)
  BY DEF IsInjective
<1>4. f \in [1 .. 0 -> S]
  BY <1>1, <1>2, <1>3 DEF SetToSeq
<1>5. f \in Seq(S) /\ Len(f) = 0
  BY <1>4
<1>6. f = <<>>
  BY <1>5
<1> QED BY <1>2, <1>6

\* The stops of a trip, each with its place, are as many as its places.
LEMMA NumberedStops ==
    ASSUME NEW S, NEW q \in Seq(S)
    PROVE  /\ Cardinality({<<q[i].stop, i>> : i \in 1 .. Len(q)}) = Len(q)
           /\ \A i \in 1 .. Len(q) :
                (CHOOSE x \in {<<q[j].stop, j>> : j \in 1 .. Len(q)} : x[2] = i) = <<q[i].stop, i>>
<1> DEFINE N == {<<q[i].stop, i>> : i \in 1 .. Len(q)}
           f == [i \in 1 .. Len(q) |-> <<q[i].stop, i>>]
<1>1. f \in Bijection(1 .. Len(q), N)
  <2>1. f \in [1 .. Len(q) -> N]
    OBVIOUS
  <2>2. \A i, j \in 1 .. Len(q) : f[i] = f[j] => i = j
    OBVIOUS
  <2>3. \A x \in N : \E i \in 1 .. Len(q) : f[i] = x
    OBVIOUS
  <2>4. DOMAIN f = 1 .. Len(q)
    OBVIOUS
  <2> HIDE DEF f, N
  <2> QED BY <2>1, <2>2, <2>3, <2>4 DEF Bijection, Injection, Surjection, IsInjective
<1>2. Len(q) \in Nat
  OBVIOUS
<1>3. Cardinality(N) = Len(q)
  <2>1. ExistsBijection(1 .. Len(q), N)
    BY <1>1 DEF ExistsBijection
  <2> HIDE DEF N, f
  <2> QED BY <1>2, <2>1, FS_CountingElements
<1>4. ASSUME NEW i \in 1 .. Len(q)
      PROVE  (CHOOSE x \in N : x[2] = i) = <<q[i].stop, i>>
  <2>1. <<q[i].stop, i>> \in N /\ <<q[i].stop, i>>[2] = i
    OBVIOUS
  <2>2. \A x \in N : x[2] = i => x = <<q[i].stop, i>>
    OBVIOUS
  <2> HIDE DEF N
  <2>3. PICK c : c = CHOOSE x \in N : x[2] = i
    OBVIOUS
  <2>4. c \in N /\ c[2] = i
    BY <2>1, <2>3
  <2> QED BY <2>2, <2>3, <2>4
<1> QED BY <1>3, <1>4

\* The stop at place i among numbered stops.
NumberedStop(N, i) == (CHOOSE x \in N : x[2] = i)[1]

LEMMA WantedByTrip ==
    ASSUME feedType = TripUpdates, NEW raw, NEW N,
           N = UNION {{<<u.stops[i].stop, i>> : i \in DOMAIN u.stops} : u \in raw.update}
    PROVE  Wanted(raw) = [i \in 1 .. Cardinality(N) |-> <<raw.id, NumberedStop(N, i)>>]
<1> DEFINE M == UNION {{<<u.stops[i].stop, i>> : i \in DOMAIN u.stops} : u \in raw.update}
<1>1. Wanted(raw) = [i \in 1 .. Cardinality(M) |-> <<raw.id, NumberedStop(M, i)>>]
  BY DEF Wanted, NumberedStop
<1>2. M = N
  OBVIOUS
<1> HIDE DEF M
<1> QED BY <1>1, <1>2

LEMMA WantedByVehicle ==
    ASSUME feedType = VehiclePositions, NEW raw, NEW W,
           W = {<<raw.id, v>> : v \in {v.vehicle : v \in {w \in raw.vehicle : w.position # {}}}}
    PROVE  Wanted(raw) = SetToSeq(W)
<1> DEFINE V == {<<raw.id, v>> : v \in {v.vehicle : v \in {w \in raw.vehicle : w.position # {}}}}
<1>1. feedType # TripUpdates
  BY DEF TripUpdates, VehiclePositions
<1>2. Wanted(raw) = SetToSeq(V)
  BY <1>1 DEF Wanted
<1>3. V = W
  OBVIOUS
<1> HIDE DEF V
<1> QED BY <1>2, <1>3

LEMMA WantedOfTrip ==
    ASSUME NEW raw \in RawEntities, feedType = TripUpdates, NEW u \in raw.update
    PROVE  Wanted(raw) = [i \in 1 .. Len(u.stops) |-> <<raw.id, u.stops[i].stop>>]
<1> DEFINE N == {<<u.stops[i].stop, i>> : i \in 1 .. Len(u.stops)}
<1>1. u.stops \in Seq(Range(u.stops)) /\ raw.update = {u}
  BY FeedAssumption DEF OneOf
<1>2. UNION {{<<w.stops[i].stop, i>> : i \in DOMAIN w.stops} : w \in raw.update} = N
  BY <1>1
<1>3. /\ Cardinality(N) = Len(u.stops)
      /\ \A i \in 1 .. Len(u.stops) : (CHOOSE x \in N : x[2] = i) = <<u.stops[i].stop, i>>
  BY <1>1, NumberedStops
<1> HIDE DEF N
<1>4. \A i \in 1 .. Len(u.stops) : NumberedStop(N, i) = u.stops[i].stop
  <2>1. ASSUME NEW i \in 1 .. Len(u.stops) PROVE NumberedStop(N, i) = u.stops[i].stop
    <3>1. PICK c : c = CHOOSE x \in N : x[2] = i
      OBVIOUS
    <3>2. c = <<u.stops[i].stop, i>>
      BY <1>3, <3>1
    <3>3. NumberedStop(N, i) = c[1]
      BY <3>1 DEF NumberedStop
    <3> QED BY <3>2, <3>3
  <2> QED BY <2>1
<1>5. Wanted(raw) = [i \in 1 .. Cardinality(N) |-> <<raw.id, NumberedStop(N, i)>>]
  BY <1>2, WantedByTrip
<1> QED BY <1>3, <1>4, <1>5

LEMMA WantedOfVehicle ==
    ASSUME feedType = VehiclePositions, NEW raw, NEW v, raw.vehicle = {v}
    PROVE  Wanted(raw) = IF v.position = {} THEN <<>> ELSE <<<<raw.id, v.vehicle>>>>
<1>1. PICK W : W = {<<raw.id, x>> : x \in {x.vehicle : x \in {w \in raw.vehicle : w.position # {}}}}
  OBVIOUS
<1>2. Wanted(raw) = SetToSeq(W)
  BY <1>1, WantedByVehicle
<1>3. CASE v.position = {}
  <2>1. W = {}
    BY <1>1, <1>3
  <2> QED BY <1>2, <1>3, <2>1, SeqOfNone
<1>4. CASE v.position # {}
  <2>1. W = {<<raw.id, v.vehicle>>}
    BY <1>1, <1>4
  <2> QED BY <1>2, <1>4, <2>1, SingletonSeq
<1> QED BY <1>3, <1>4

LEMMA WantedOfOther ==
    ASSUME NEW raw, feedType \in FeedTypes,
           feedType = TripUpdates => raw.update = {},
           feedType = VehiclePositions => raw.vehicle = {}
    PROVE  Wanted(raw) = <<>>
<1>1. CASE feedType = TripUpdates
  <2>1. PICK N : N = UNION {{<<u.stops[i].stop, i>> : i \in DOMAIN u.stops} : u \in raw.update}
    OBVIOUS
  <2>2. N = {}
    BY <1>1, <2>1
  <2>3. Wanted(raw) = [i \in 1 .. Cardinality(N) |-> <<raw.id, NumberedStop(N, i)>>]
    BY <1>1, <2>1, WantedByTrip
  <2>4. Cardinality(N) = 0
    BY <2>2, FS_EmptySet
  <2>5. PICK w : w = Wanted(raw)
    OBVIOUS
  <2>6. w \in Seq({}) /\ Len(w) = 0
    BY <2>3, <2>4, <2>5
  <2>7. w = <<>>
    BY <2>6
  <2> QED BY <2>5, <2>7
<1>2. CASE feedType = VehiclePositions
  <2>1. PICK W : W = {<<raw.id, x>> : x \in {x.vehicle : x \in {w \in raw.vehicle : w.position # {}}}}
    OBVIOUS
  <2>2. W = {}
    BY <1>2, <2>1
  <2> QED BY <1>2, <2>1, <2>2, WantedByVehicle, SeqOfNone
<1> QED BY <1>1, <1>2 DEF FeedTypes

-----------------------------------------------------------------------------
(* One entity that Normalize accepts.                                      *)

Accepted(event) ==
    /\ PayloadInRange => Insertable(event) /\ Encodable(event)
    /\ TopicOf(event) = IF feedType = TripUpdates THEN "trip-updates" ELSE "vehicle-positions"

OwnTime(event, stop) ==
    LET own == {TimeOf(stop.arrival), TimeOf(stop.departure)} \ {0}
    IN  IF own # {} THEN event.predicted \in own
        ELSE event.predicted \in {message.timestamp, Recorded}

EntityTaken(evs, wanted) ==
    /\ evs \in Seq(Range(evs)) /\ wanted \in Seq(Range(wanted))
    /\ Len(evs) = Len(wanted)
    /\ \A j \in 1 .. Len(evs) : Accepted(evs[j]) /\ Got(evs[j]) = wanted[j]

LEMMA StopTimes ==
    ASSUME NEW raw \in RawEntities, NEW u \in raw.update, NEW i \in 1 .. Len(u.stops)
    PROVE  TimeOf(u.stops[i].arrival) \in Nat /\ TimeOf(u.stops[i].departure) \in Nat
<1>1. u.stops \in Seq(Range(u.stops))
  BY FeedAssumption
<1>2. u.stops[i] \in Range(u.stops)
  BY <1>1 DEF Range
<1>3. \A event \in {u.stops[i].arrival, u.stops[i].departure} : \A e \in event : e.time \in Nat
  BY <1>2, FeedAssumption
<1>4. \A event \in {u.stops[i].arrival, u.stops[i].departure} : TimeOf(event) \in Nat
  BY <1>3 DEF TimeOf
<1> QED BY <1>4

\* The stops of an update whose values the columns and JSON can hold.
LEMMA StopsInRange ==
    ASSUME NEW raw \in RawEntities, NEW u \in raw.update, NEW i \in 1 .. Len(u.stops), InRange(raw)
    PROVE  /\ u.stops[i].stop # Unstorable /\ u.stops[i].sequence =< MaxInteger
           /\ TimeOf(u.stops[i].arrival) =< LastEncoded
           /\ TimeOf(u.stops[i].departure) =< LastEncoded
<1>1. u.stops[i] \in Range(u.stops)
  BY FeedAssumption DEF Range
<1>2. \A event \in {u.stops[i].arrival, u.stops[i].departure} : \A e \in event : e.time =< LastEncoded
  BY <1>1 DEF InRange
<1>3. 0 =< LastEncoded
  BY FeedAssumption
<1>4. \A event \in {u.stops[i].arrival, u.stops[i].departure} : TimeOf(event) =< LastEncoded
  BY <1>2, <1>3 DEF TimeOf
<1> QED BY <1>1, <1>4 DEF InRange

LEMMA PredictedTime ==
    ASSUME NEW raw \in RawEntities, NEW u \in raw.update, NEW i \in 1 .. Len(u.stops)
    PROVE  /\ PredictionAt(raw, u, i).predicted > 0
           /\ PayloadInRange /\ InRange(raw) => PredictionAt(raw, u, i).predicted =< LastEncoded
           /\ OwnTime(PredictionAt(raw, u, i), u.stops[i])
<1>1. PICK a, d, p : /\ a = TimeOf(u.stops[i].arrival) /\ d = TimeOf(u.stops[i].departure)
                     /\ p = PredictionAt(raw, u, i).predicted
  OBVIOUS
<1>2. a \in Nat /\ d \in Nat
  BY <1>1, StopTimes
<1>3. Recorded \in Nat \ {0} /\ Recorded =< LastEncoded
  BY FeedAssumption
<1>4. p = FirstTime(<<a, d, message.timestamp, Recorded>>)
  BY <1>1 DEF PredictionAt, DecodeStop
<1>5. p = IF a > 0 THEN a ELSE IF d > 0 THEN d
          ELSE IF message.timestamp > 0 THEN message.timestamp ELSE Recorded
  BY <1>3, <1>4, FirstOfFour
<1>6. p > 0
  BY <1>2, <1>3, <1>5
<1>7. IF {a, d} \ {0} # {} THEN p \in {a, d} \ {0} ELSE p \in {message.timestamp, Recorded}
  BY <1>2, <1>5
<1>8. PayloadInRange /\ InRange(raw) => p =< LastEncoded
  <2>1. InRange(raw) => a =< LastEncoded /\ d =< LastEncoded
    BY <1>1, StopsInRange
  <2>2. PayloadInRange => message.timestamp =< LastEncoded
    BY DEF PayloadInRange
  <2> QED BY <1>3, <1>5, <2>1, <2>2
<1> QED BY <1>1, <1>6, <1>7, <1>8 DEF OwnTime

LEMMA TripTaken ==
    ASSUME NEW raw \in RawEntities, feedType = TripUpdates, NEW u \in raw.update,
           ~InvalidEntity(DecodeEntity(raw)),
           message.timestamp \in Nat, PayloadInRange => InRange(raw)
    PROVE  EntityTaken(EventsOf(DecodeEntity(raw)), Wanted(raw))
<1>1. PICK e : e = DecodeEntity(raw)
  OBVIOUS
<1>2. /\ u.stops \in Seq(Range(u.stops))
      /\ e.update = {DecodeTripUpdate(u)}
      /\ EventsOf(e) = [i \in 1 .. Len(u.stops) |-> PredictionAt(raw, u, i)]
  BY <1>1, TripEntity
<1>3. ~InvalidUpdate(DecodeTripUpdate(u))
  BY <1>1, <1>2 DEF InvalidEntity
<1>4. PICK n : n = Len(u.stops) /\ n \in Nat
  BY <1>2
<1>5. ASSUME NEW i \in 1 .. n
      PROVE  Accepted(PredictionAt(raw, u, i)) /\ Got(PredictionAt(raw, u, i)) = <<raw.id, u.stops[i].stop>>
  <2>1. PICK w, p : w = DecodeTripUpdate(u) /\ p = PredictionAt(raw, u, i)
    OBVIOUS
  <2>2. /\ w.trip = u.trip /\ i \in DOMAIN w.stops /\ w.stops[i].stop = u.stops[i].stop
    <3>1. \A stop : DecodeStop(stop).stop = stop.stop
      BY DEF DecodeStop
    <3>2. w.trip = u.trip /\ w.stops = [k \in 1 .. n |-> DecodeStop(u.stops[k])]
      BY <1>2, <1>4, <2>1 DEF DecodeTripUpdate
    <3> QED BY <3>1, <3>2
  <2>3. /\ p.kind = "prediction" /\ p.entity = raw.id /\ p.recorded = Recorded
        /\ p.trip = u.trip /\ p.stop = u.stops[i].stop
        /\ p.optional = u.optional /\ p.sequence = u.stops[i].sequence
    BY <2>1 DEF PredictionAt
  <2>4. p.predicted > 0
    BY <1>4, <2>1, PredictedTime
  <2>5. p.trip \notin Blank /\ p.stop \notin Blank
    BY <1>3, <2>1, <2>2, <2>3 DEF InvalidUpdate, Missing
  <2>6. /\ Recorded \in Nat \ {0} /\ Recorded =< LastEncoded
        /\ LastEncoded \in Nat /\ LastStored \in Nat /\ LastEncoded =< LastStored
    BY FeedAssumption
  <2>7. p.predicted \in Nat
    <3>1. TimeOf(u.stops[i].arrival) \in Nat /\ TimeOf(u.stops[i].departure) \in Nat
      BY <1>4, StopTimes
    <3>2. OwnTime(p, u.stops[i])
      BY <1>4, <2>1, PredictedTime
    <3> QED BY <2>6, <3>1, <3>2 DEF OwnTime
  <2>8. ASSUME PayloadInRange
        PROVE  /\ p.predicted \in 1 .. LastStored /\ p.predicted =< LastEncoded
               /\ p.recorded \in 1 .. LastStored /\ p.recorded =< LastEncoded
               /\ Unstorable \notin {p.entity, p.trip, p.stop} \cup p.optional
               /\ p.sequence =< MaxInteger
    <3>1. InRange(raw)
      BY <2>8
    <3>2. p.predicted =< LastEncoded
      BY <1>4, <2>1, <2>8, <3>1, PredictedTime
    <3>3. p.stop # Unstorable /\ p.sequence =< MaxInteger
      BY <1>4, <2>3, <3>1, StopsInRange
    <3>4. Unstorable \notin {p.entity, p.trip} \cup p.optional
      BY <2>3, <3>1 DEF InRange
    <3>5. p.predicted \in 1 .. LastStored /\ p.recorded \in 1 .. LastStored
      BY <2>3, <2>4, <2>6, <2>7, <3>2
    <3> QED BY <2>3, <2>6, <3>2, <3>3, <3>4, <3>5
  <2>9. Valid(p)
    BY <2>3, <2>4, <2>5, <2>6 DEF Valid
  <2>10. PayloadInRange => Insertable(p)
    BY <2>3, <2>5, <2>8 DEF Insertable, Blank
  <2>11. PayloadInRange => Encodable(p)
    BY <2>8, <2>9 DEF Encodable
  <2>12. Accepted(p)
    BY <2>3, <2>10, <2>11 DEF Accepted, TopicOf
  <2>13. Got(p) = <<raw.id, u.stops[i].stop>>
    BY <2>3 DEF Got
  <2> QED BY <2>1, <2>12, <2>13
<1>6. Wanted(raw) = [i \in 1 .. n |-> <<raw.id, u.stops[i].stop>>]
  BY <1>4, WantedOfTrip
<1>7. ASSUME NEW q, q = [i \in 1 .. n |-> q[i]] PROVE q \in Seq(Range(q)) /\ Len(q) = n
  BY <1>4, <1>7 DEF Range
<1>8. PICK evs, wanted : evs = EventsOf(DecodeEntity(raw)) /\ wanted = Wanted(raw)
  OBVIOUS
<1>9. \A i \in 1 .. n : evs[i] = PredictionAt(raw, u, i) /\ wanted[i] = <<raw.id, u.stops[i].stop>>
  BY <1>1, <1>2, <1>4, <1>6, <1>8
<1>10. evs = [i \in 1 .. n |-> evs[i]] /\ wanted = [i \in 1 .. n |-> wanted[i]]
  BY <1>1, <1>2, <1>4, <1>6, <1>8
<1>11. /\ evs \in Seq(Range(evs)) /\ wanted \in Seq(Range(wanted))
       /\ Len(evs) = n /\ Len(wanted) = n
  BY <1>7, <1>10
<1>12. \A j \in 1 .. n : Accepted(evs[j]) /\ Got(evs[j]) = wanted[j]
  BY <1>5, <1>9
<1> QED BY <1>8, <1>11, <1>12 DEF EntityTaken

LEMMA VehicleTaken ==
    ASSUME NEW raw \in RawEntities, feedType = VehiclePositions, NEW v \in raw.vehicle,
           ~InvalidEntity(DecodeEntity(raw)),
           message.timestamp \in Nat, PayloadInRange => InRange(raw)
    PROVE  EntityTaken(EventsOf(DecodeEntity(raw)), Wanted(raw))
<1>1. PICK e, w : e = DecodeEntity(raw) /\ w = DecodeVehiclePosition(v)
  OBVIOUS
<1>2. /\ e.position = {w} /\ raw.vehicle = {v}
      /\ EventsOf(e) = IF v.position = {} THEN <<>> ELSE <<PositionFrom(raw, v)>>
  BY <1>1, VehicleEntity
<1>3. Wanted(raw) = IF v.position = {} THEN <<>> ELSE <<<<raw.id, v.vehicle>>>>
  BY <1>2, WantedOfVehicle
<1>4. CASE v.position = {}
  BY <1>1, <1>2, <1>3, <1>4 DEF EntityTaken
<1>5. CASE v.position # {}
  <2>1. PICK p : p = PositionFrom(raw, v)
    OBVIOUS
  <2>2. /\ p.kind = "vehicle_position" /\ p.entity = raw.id /\ p.vehicle = v.vehicle
        /\ p.optional = v.optional /\ p.recorded = FirstTime(<<v.timestamp, Recorded>>)
        /\ p.coordinate = CHOOSE c \in v.position : TRUE
    BY <2>1 DEF PositionFrom
  <2>3. /\ w.vehicle = v.vehicle /\ w.hasPosition
        /\ w.coordinate = CHOOSE c \in v.position : TRUE
    BY <1>1, <1>5 DEF DecodeVehiclePosition
  <2>4. ~InvalidPosition(w)
    BY <1>1, <1>2 DEF InvalidEntity
  <2>5. p.vehicle \notin Blank /\ p.coordinate # "invalid"
    BY <2>2, <2>3, <2>4 DEF InvalidPosition, Missing, HasPosition
  <2>6. /\ Recorded \in Nat \ {0} /\ Recorded =< LastEncoded /\ v.timestamp \in Nat
        /\ LastEncoded \in Nat /\ LastStored \in Nat /\ LastEncoded =< LastStored
    BY FeedAssumption
  <2>7. p.recorded = IF v.timestamp > 0 THEN v.timestamp ELSE Recorded
    BY <2>2, <2>6, FirstOfTwo
  <2>8. Accepted(p)
    <3>1. Valid(p)
      BY <2>2, <2>5, <2>6, <2>7 DEF Valid
    <3>2. ASSUME PayloadInRange PROVE Insertable(p) /\ Encodable(p)
      <4>1. v.timestamp =< LastEncoded /\ Unstorable \notin {p.entity, p.vehicle} \cup p.optional
        BY <2>2, <3>2 DEF InRange
      <4>2. p.recorded \in 1 .. LastStored /\ p.recorded =< LastEncoded
        BY <2>6, <2>7, <4>1
      <4> QED BY <2>2, <2>5, <3>1, <4>1, <4>2 DEF Insertable, Encodable, Blank
    <3> QED BY <2>2, <3>2 DEF Accepted, TopicOf, TripUpdates, VehiclePositions
  <2>9. Got(p) = <<raw.id, v.vehicle>>
    BY <2>2 DEF Got
  <2>10. \A x : <<x>> \in Seq(Range(<<x>>)) /\ Len(<<x>>) = 1
    BY DEF Range
  <2>11. EventsOf(DecodeEntity(raw)) = <<p>> /\ Wanted(raw) = <<<<raw.id, v.vehicle>>>>
    BY <1>1, <1>2, <1>3, <1>5, <2>1
  <2> QED BY <2>8, <2>9, <2>10, <2>11 DEF EntityTaken
<1> QED BY <1>4, <1>5

\* Any entity that is not invalid gives exactly what it stands for.
LEMMA EntityIsTaken ==
    ASSUME NEW raw \in RawEntities, feedType \in FeedTypes, ~InvalidEntity(DecodeEntity(raw)),
           message.timestamp \in Nat, PayloadInRange => InRange(raw)
    PROVE  EntityTaken(EventsOf(DecodeEntity(raw)), Wanted(raw))
<1>1. CASE /\ feedType = TripUpdates => raw.update = {}
           /\ feedType = VehiclePositions => raw.vehicle = {}
  <2>1. EventsOf(DecodeEntity(raw)) = <<>> /\ Wanted(raw) = <<>>
    BY <1>1, OtherEntity, WantedOfOther
  <2> QED BY <2>1 DEF EntityTaken
<1>2. CASE feedType = TripUpdates /\ raw.update # {}
  BY <1>2, TripTaken
<1>3. CASE feedType = VehiclePositions /\ raw.vehicle # {}
  BY <1>3, VehicleTaken
<1> QED BY <1>1, <1>2, <1>3 DEF FeedTypes

\* The stops of an entity of a trip updates feed.
StopsOf(raw) == IF raw.update = {} THEN <<>> ELSE (CHOOSE u \in raw.update : TRUE).stops

LEMMA EntityTimes ==
    ASSUME NEW raw \in RawEntities, feedType = TripUpdates
    PROVE  /\ StopsOf(raw) \in Seq(Range(StopsOf(raw)))
           /\ Len(StopsOf(raw)) = Len(EventsOf(DecodeEntity(raw)))
           /\ \A j \in 1 .. Len(StopsOf(raw)) :
                OwnTime(EventsOf(DecodeEntity(raw))[j], StopsOf(raw)[j])
<1>1. CASE raw.update = {}
  <2>1. EventsOf(DecodeEntity(raw)) = <<>> /\ StopsOf(raw) = <<>>
    BY <1>1, OtherEntity DEF FeedTypes, TripUpdates, VehiclePositions, StopsOf
  <2> QED BY <2>1
<1>2. CASE raw.update # {}
  <2>1. PICK u : u = CHOOSE w \in raw.update : TRUE
    OBVIOUS
  <2>2. u \in raw.update /\ StopsOf(raw) = u.stops
    BY <1>2, <2>1 DEF StopsOf
  <2>3. /\ u.stops \in Seq(Range(u.stops))
        /\ EventsOf(DecodeEntity(raw)) = [i \in 1 .. Len(u.stops) |-> PredictionAt(raw, u, i)]
    BY <2>2, TripEntity
  <2>4. \A i \in 1 .. Len(u.stops) : OwnTime(PredictionAt(raw, u, i), u.stops[i])
    BY <2>2, PredictedTime
  <2>5. Len([i \in 1 .. Len(u.stops) |-> PredictionAt(raw, u, i)]) = Len(u.stops)
    BY <2>3
  <2> QED BY <2>2, <2>3, <2>4, <2>5
<1> QED BY <1>1, <1>2

-----------------------------------------------------------------------------
(* One payload.                                                            *)

Decoded ==
    snapshot.entities = [i \in DOMAIN message.entities |-> DecodeEntity(message.entities[i])]

Taken ==
    /\ failure = "no"
    /\ Decoded
    /\ \A i \in DOMAIN snapshot.entities : ~InvalidEntity(snapshot.entities[i])
    /\ events = FlattenSeq([i \in DOMAIN snapshot.entities |-> EventsOf(snapshot.entities[i])])

\* Where the events in hand come from.
PayloadInv ==
    /\ feedType \in FeedTypes
    /\ message.timestamp \in Nat /\ message.entities \in Seq(RawEntities)
    /\ stage \in {"stopped", "fetch"} => events = <<>> /\ answer = "waiting"
    /\ stage = "decode" => failure = "no" /\ events = <<>>
    /\ stage = "normalize" => failure = "no" /\ events = <<>> /\ Decoded
    /\ stage = "store" => Taken
    /\ stage = "done" => Taken \/ (events = <<>> /\ (answer = "ok" => failure = "normalize"))
    /\ stage \in {"stopped", "fetch", "decode", "normalize", "store", "done"}

LEMMA PayloadInit == Init => PayloadInv
BY DEF Init, PayloadInv, NoMessage, FeedTypes

LEMMA PayloadNext == PayloadInv /\ [Next]_vars => PayloadInv'
<1> SUFFICES ASSUME PayloadInv, [Next]_vars PROVE PayloadInv'
  OBVIOUS
<1>1. ASSUME Forget, feedType' \in FeedTypes, stage' \in {"stopped", "fetch"} PROVE PayloadInv'
  BY <1>1 DEF Forget, NoMessage, PayloadInv
<1>2. CASE Start \/ End \/ NextFeed
  BY <1>1, <1>2 DEF Start, End, NextFeed, FeedTypes
<1>3. CASE Fetch
  <2>1. PICK a : /\ answer' = a /\ failure' = FailureOf(a)
                 /\ message' \in (IF a = "ok" THEN Messages ELSE {NoMessage})
                 /\ stage' = IF a = "ok" THEN "decode" ELSE "done"
    BY <1>3 DEF Fetch
  <2>2. UNCHANGED <<feedType, events>> /\ events = <<>>
    BY <1>3 DEF Fetch, PayloadInv
  <2>3. message'.entities \in Seq(RawEntities)
    <3>1. CASE a = "ok"
      <4>1. message'.entities \in UNION {[1 .. n -> RawEntities] : n \in 0 .. MaxEntities}
        BY <2>1, <3>1 DEF Messages
      <4>2. PICK n \in 0 .. MaxEntities : message'.entities \in [1 .. n -> RawEntities]
        BY <4>1
      <4>3. n \in Nat
        BY FeedAssumption
      <4> QED BY <4>2, <4>3
    <3>2. CASE a # "ok"
      <4>1. message' = NoMessage
        BY <2>1, <3>2
      <4>2. message'.entities = <<>>
        BY <4>1 DEF NoMessage
      <4> QED BY <4>2
    <3> QED BY <3>1, <3>2
  <2>4. a = "ok" => failure' = "no"
    BY <2>1 DEF FailureOf
  <2>5. message'.timestamp \in Nat
    <3>1. PICK m : m = message' /\ m \in (IF a = "ok" THEN Messages ELSE {NoMessage})
      BY <2>1
    <3>2. CASE m \in Messages
      BY <3>1, <3>2, FeedAssumption DEF Messages
    <3>3. CASE m = NoMessage
      BY <3>1, <3>3 DEF NoMessage
    <3> QED BY <3>1, <3>2, <3>3
  <2> QED BY <2>1, <2>2, <2>3, <2>4, <2>5 DEF PayloadInv
<1>4. CASE Decode
  <2>1. /\ snapshot'.entities = [i \in DOMAIN message.entities |-> DecodeEntity(message.entities[i])]
        /\ stage = "decode" /\ stage' = "normalize"
        /\ UNCHANGED <<feedType, message, failure, events>>
    BY <1>4 DEF Decode
  <2>2. \A raw : DecodeEntity(raw)' = DecodeEntity(raw)
    BY <2>1 DEF DecodeEntity, DecodeTripUpdate, DecodeVehiclePosition, DecodeStop
  <2>3. Decoded'
    BY <2>1, <2>2 DEF Decoded
  <2> QED BY <2>1, <2>3 DEF PayloadInv
<1>5. ASSUME UNCHANGED <<feedType, message, snapshot>> PROVE Decoded' = Decoded
  <2>1. \A raw : DecodeEntity(raw)' = DecodeEntity(raw)
    BY <1>5 DEF DecodeEntity, DecodeTripUpdate, DecodeVehiclePosition, DecodeStop
  <2> QED BY <1>5, <2>1 DEF Decoded
<1>6. CASE Normalize
  <2>1. /\ UNCHANGED <<feedType, answer, message, snapshot>> /\ Decoded
        /\ stage = "normalize" /\ failure = "no" /\ events = <<>>
    BY <1>6 DEF Normalize, PayloadInv
  <2>2. CASE \E i \in DOMAIN snapshot.entities : InvalidEntity(snapshot.entities[i])
    <3>1. failure' = "normalize" /\ stage' = "done" /\ UNCHANGED events
      BY <1>6, <2>2 DEF Normalize
    <3> QED BY <2>1, <3>1 DEF PayloadInv
  <2>3. CASE ~\E i \in DOMAIN snapshot.entities : InvalidEntity(snapshot.entities[i])
    <3>1. /\ stage' = "store" /\ failure' = failure
          /\ events' = FlattenSeq([i \in DOMAIN snapshot.entities |-> EventsOf(snapshot.entities[i])])
      BY <1>6, <2>3 DEF Normalize
    <3>2. Taken'
      BY <1>5, <2>1, <2>3, <3>1 DEF Taken
    <3> QED BY <2>1, <3>1, <3>2 DEF PayloadInv
  <2> QED BY <2>2, <2>3
<1>7. CASE Store \/ UNCHANGED vars
  <2>1. UNCHANGED feedVars /\ (UNCHANGED stage \/ (stage = "store" /\ stage' = "done"))
    BY <1>7 DEF Store, vars
  <2>2. UNCHANGED <<feedType, answer, message, failure, snapshot, events>>
    BY <2>1 DEF feedVars
  <2>3. Decoded' = Decoded /\ Taken' = Taken
    BY <1>5, <2>2 DEF Taken
  <2> QED BY <2>1, <2>2, <2>3 DEF PayloadInv
<1> QED BY <1>2, <1>3, <1>4, <1>6, <1>7 DEF Next

LEMMA PayloadAlways == Spec => []PayloadInv
BY PayloadInit, PayloadNext, PTL DEF Spec

LEMMA InHand == PayloadInv => Taken \/ events = <<>>
BY DEF PayloadInv

LEMMA DecodedParts ==
    ASSUME PayloadInv, Taken
    PROVE  \E n \in Nat :
             /\ DOMAIN message.entities = 1 .. n
             /\ \A k \in 1 .. n : /\ message.entities[k] \in RawEntities
                                  /\ ~InvalidEntity(DecodeEntity(message.entities[k]))
             /\ events = FlattenSeq([k \in 1 .. n |-> EventsOf(DecodeEntity(message.entities[k]))])
<1>1. PICK n \in Nat : DOMAIN message.entities = 1 .. n
  BY DEF PayloadInv
<1>2. snapshot.entities = [k \in 1 .. n |-> DecodeEntity(message.entities[k])]
  BY <1>1 DEF Taken, Decoded
<1>3. \A k \in 1 .. n : message.entities[k] \in RawEntities
  BY <1>1 DEF PayloadInv
<1>4. [k \in DOMAIN snapshot.entities |-> EventsOf(snapshot.entities[k])]
        = [k \in 1 .. n |-> EventsOf(DecodeEntity(message.entities[k]))]
  BY <1>2
<1> QED BY <1>1, <1>2, <1>3, <1>4 DEF Taken

LEMMA InRangeAll ==
    ASSUME NEW k \in DOMAIN message.entities
    PROVE  PayloadInRange => InRange(message.entities[k])
BY DEF PayloadInRange, Range

\* The events of a payload, beside what its entities stand for.
PayloadTaken(evs, wanted) ==
    /\ evs \in Seq(Range(evs)) /\ wanted \in Seq(Range(wanted))
    /\ Len(evs) = Len(wanted)
    /\ \A i \in 1 .. Len(evs) : Accepted(evs[i]) /\ Got(evs[i]) = wanted[i]

LEMMA PayloadIsTaken ==
    ASSUME PayloadInv, Taken
    PROVE  PayloadTaken(events, FlattenSeq([k \in DOMAIN message.entities |-> Wanted(message.entities[k])]))
<1>1. PICK n \in Nat :
         /\ DOMAIN message.entities = 1 .. n
         /\ \A k \in 1 .. n : /\ message.entities[k] \in RawEntities
                              /\ ~InvalidEntity(DecodeEntity(message.entities[k]))
         /\ events = FlattenSeq([k \in 1 .. n |-> EventsOf(DecodeEntity(message.entities[k]))])
  BY DecodedParts
<1>2. PICK f, g : /\ f = [k \in 1 .. n |-> EventsOf(DecodeEntity(message.entities[k]))]
                  /\ g = [k \in 1 .. n |-> Wanted(message.entities[k])]
  OBVIOUS
<1>3. \A k \in 1 .. n : EntityTaken(f[k], g[k])
  <2>1. \A k \in 1 .. n : PayloadInRange => InRange(message.entities[k])
    BY <1>1, InRangeAll
  <2> QED BY <1>1, <1>2, <2>1, EntityIsTaken DEF PayloadInv
<1>4. AllSequences(f, n) /\ AllSequences(g, n)
  BY <1>2, <1>3 DEF AllSequences, EntityTaken
<1>5. PICK A, B : f \in Seq(Seq(A)) /\ g \in Seq(Seq(B)) /\ Len(f) = n /\ Len(g) = n
  BY <1>4, Gather
<1>6. SameShape(f, g)
  BY <1>3, <1>5 DEF SameShape, EntityTaken
<1>7. PICK fs, gs : fs = FlattenSeq(f) /\ gs = FlattenSeq(g)
  OBVIOUS
<1>8. fs \in Seq(A) /\ gs \in Seq(B) /\ ComesFrom(f, g, n, fs, gs)
  BY <1>5, <1>6, <1>7, FlattenAligned
<1>9. \A i \in 1 .. Len(fs) : Accepted(fs[i]) /\ Got(fs[i]) = gs[i]
  <2> TAKE i \in 1 .. Len(fs)
  <2>1. PICK k \in 1 .. n : \E j \in 1 .. Len(f[k]) : fs[i] = f[k][j] /\ gs[i] = g[k][j]
    BY <1>8 DEF ComesFrom
  <2> QED BY <1>3, <2>1 DEF EntityTaken
<1>10. \A S : \A q \in Seq(S) : q \in Seq(Range(q))
  <2> TAKE S
  <2> TAKE q \in Seq(S)
  <2>1. \A i \in 1 .. Len(q) : q[i] \in Range(q)
    BY DEF Range
  <2>2. q = [i \in 1 .. Len(q) |-> q[i]] /\ Len(q) \in Nat
    OBVIOUS
  <2> QED BY <2>1, <2>2
<1>11. PayloadTaken(fs, gs)
  BY <1>8, <1>9, <1>10 DEF PayloadTaken, ComesFrom
<1> QED BY <1>1, <1>2, <1>7, <1>11

\* Of a payload whose numbers, times and names the columns and JSON can hold,
\* no event is refused by InsertEvents, by Encode or by a consumer's Decode;
\* and any event goes to the topic of its feed.
THEOREM EventsAreAccepted == Spec => []NormalizedIsAccepted
<1>1. PayloadInv => NormalizedIsAccepted
  <2> SUFFICES ASSUME PayloadInv, NEW event \in Range(events) PROVE Accepted(event)
    BY DEF NormalizedIsAccepted, Accepted
  <2>1. CASE events = <<>>
    BY <2>1 DEF Range
  <2>2. CASE Taken
    <3>1. events \in Seq(Range(events)) /\ \A i \in 1 .. Len(events) : Accepted(events[i])
      BY <2>2, PayloadIsTaken DEF PayloadTaken
    <3>2. PICK i \in DOMAIN events : event = events[i]
      BY DEF Range
    <3> QED BY <3>1, <3>2
  <2> QED BY <2>1, <2>2, InHand
<1> QED BY <1>1, PayloadAlways, PTL

\* Of any payload Normalize gives all or nothing, in order: no stop update and
\* no located vehicle is left out, repeated or moved.
THEOREM PayloadsAreWhole == Spec => []WholeOrNothing
<1>1. PayloadInv => WholeOrNothing
  <2> SUFFICES ASSUME PayloadInv, stage \in {"store", "done"}, answer = "ok" PROVE
        \/ failure = "normalize" /\ events = <<>>
        \/ /\ failure = "no"
           /\ [i \in DOMAIN events |-> Got(events[i])] =
              FlattenSeq([i \in DOMAIN message.entities |-> Wanted(message.entities[i])])
    BY DEF WholeOrNothing
  <2>1. Taken \/ (failure = "normalize" /\ events = <<>>)
    BY DEF PayloadInv
  <2>2. ASSUME Taken
        PROVE  [i \in DOMAIN events |-> Got(events[i])] =
                 FlattenSeq([i \in DOMAIN message.entities |-> Wanted(message.entities[i])])
    <3>1. PICK w : w = FlattenSeq([i \in DOMAIN message.entities |-> Wanted(message.entities[i])])
      OBVIOUS
    <3>2. PayloadTaken(events, w)
      BY <2>2, <3>1, PayloadIsTaken
    <3>3. /\ DOMAIN events = 1 .. Len(w) /\ w = [i \in 1 .. Len(w) |-> w[i]]
          /\ \A i \in 1 .. Len(w) : Got(events[i]) = w[i]
      BY <3>2 DEF PayloadTaken
    <3> QED BY <3>1, <3>3
  <2> QED BY <2>1, <2>2 DEF Taken
<1> QED BY <1>1, PayloadAlways, PTL

\* A stop update with a time of its own never gets the header's or the clock's.
THEOREM TimesAreKept == Spec => []OwnTimeKept
<1>1. PayloadInv => OwnTimeKept
  <2> SUFFICES ASSUME PayloadInv, NEW i \in DOMAIN events, events[i].kind = "prediction"
               PROVE  OwnTime(events[i], FlattenSeq([k \in DOMAIN message.entities |->
                                                       StopsOf(message.entities[k])])[i])
    BY DEF OwnTimeKept, OwnTime, StopsOf
  <2>1. Taken
    BY InHand
  <2>2. PayloadTaken(events, FlattenSeq([k \in DOMAIN message.entities |-> Wanted(message.entities[k])]))
    BY <2>1, PayloadIsTaken
  <2>3. i \in 1 .. Len(events) /\ Accepted(events[i])
    BY <2>2 DEF PayloadTaken
  <2>4. feedType = TripUpdates
    BY <2>3 DEF Accepted, TopicOf
  <2>5. PICK n \in Nat :
           /\ DOMAIN message.entities = 1 .. n
           /\ \A k \in 1 .. n : message.entities[k] \in RawEntities
           /\ \A k \in 1 .. n : ~InvalidEntity(DecodeEntity(message.entities[k]))
           /\ events = FlattenSeq([k \in 1 .. n |-> EventsOf(DecodeEntity(message.entities[k]))])
    BY <2>1, DecodedParts
  <2>6. PICK f, g : /\ f = [k \in 1 .. n |-> EventsOf(DecodeEntity(message.entities[k]))]
                    /\ g = [k \in 1 .. n |-> StopsOf(message.entities[k])]
    OBVIOUS
  <2>7. \A k \in 1 .. n : /\ f[k] \in Seq(Range(f[k])) /\ g[k] \in Seq(Range(g[k]))
                          /\ Len(f[k]) = Len(g[k])
                          /\ \A j \in 1 .. Len(g[k]) : OwnTime(f[k][j], g[k][j])
    <3>1. \A k \in 1 .. n : EntityTaken(f[k], Wanted(message.entities[k]))
      BY <2>5, <2>6, InRangeAll, EntityIsTaken DEF PayloadInv
    <3> QED BY <2>4, <2>5, <2>6, <3>1, EntityTimes DEF EntityTaken
  <2>8. AllSequences(f, n) /\ AllSequences(g, n)
    BY <2>6, <2>7 DEF AllSequences
  <2>9. PICK A, B : f \in Seq(Seq(A)) /\ g \in Seq(Seq(B)) /\ Len(f) = n /\ Len(g) = n
    BY <2>8, Gather
  <2>10. SameShape(f, g)
    BY <2>7, <2>9 DEF SameShape
  <2>11. PICK fs, gs : fs = FlattenSeq(f) /\ gs = FlattenSeq(g)
    OBVIOUS
  <2>12. ComesFrom(f, g, n, fs, gs)
    BY <2>9, <2>10, <2>11, FlattenAligned
  <2>13. fs = events
    BY <2>5, <2>6, <2>11
  <2>14. PICK k \in 1 .. n : \E j \in 1 .. Len(f[k]) : fs[i] = f[k][j] /\ gs[i] = g[k][j]
    BY <2>3, <2>12, <2>13 DEF ComesFrom
  <2>15. OwnTime(fs[i], gs[i])
    BY <2>7, <2>14
  <2> QED BY <2>5, <2>6, <2>11, <2>13, <2>15
<1> QED BY <1>1, PayloadAlways, PTL

-----------------------------------------------------------------------------
(* The delay that is stored with a prediction (ScheduleDelay).             *)

\* The keys of the ORDER BY of deriveScheduleDelay.
GapKey(row, p) == IF MatchPriority(row, p) = 2 THEN Gap(row, p) ELSE 0

Midnight(p) == p.predicted - (p.predicted % Day)

PlannedAt(row) == CHOOSE t \in PlannedTime(row) : TRUE

LEMMA PredictionTyped ==
    ASSUME NEW p \in Prediction
    PROVE  /\ p.predicted \in Nat /\ p.sequence \in Nat /\ p.serviceDay \in {0, Day}
           /\ Day \in Nat \ {0} /\ Midnight(p) \in Int
<1>1. p.predicted \in Predicted /\ p.sequence \in Sequences \cup {0} /\ p.serviceDay \in {0, Day}
  BY DEF Prediction
<1>2. p.predicted \in Nat /\ p.sequence \in Nat /\ Day \in Nat \ {0}
  <2>1. Day \in Nat \ {0} /\ Predicted \subseteq Nat /\ Sequences \cup {0} \subseteq Nat
    BY ScheduleAssumption
  <2>2. p.predicted \in Nat
    BY <1>1, <2>1
  <2>3. p.sequence \in Nat
    BY <1>1, <2>1
  <2> QED BY <2>1, <2>2, <2>3
<1>3. Midnight(p) \in Int
  BY <1>2 DEF Midnight
<1> QED BY <1>1, <1>2, <1>3

LEMMA KeysTyped ==
    ASSUME stopTimes \subseteq StopTime, NEW p \in Prediction, NEW row \in Scheduled
    PROVE  /\ PlannedTime(row) = {PlannedAt(row)} /\ PlannedAt(row) \in Nat
           /\ ScheduledAt(row, p) = Midnight(p) + PlannedAt(row)
           /\ MatchPriority(row, p) \in 0 .. 2
           /\ GapKey(row, p) \in Nat
<1>1. row \in StopTime /\ PlannedTime(row) # {}
  BY DEF Scheduled
<1>2. row.arrival \in Optional(Planned) /\ row.departure \in Optional(Planned)
  BY <1>1 DEF StopTime
<1>3. PlannedTime(row) \in Optional(Planned)
  BY <1>2 DEF PlannedTime
<1>4. PICK t \in Planned : PlannedTime(row) = {t}
  BY <1>1, <1>3 DEF Optional
<1>5. PlannedAt(row) = t /\ t \in Nat
  BY <1>4, ScheduleAssumption DEF PlannedAt
<1>6. ScheduledAt(row, p) = Midnight(p) + PlannedAt(row)
  BY DEF ScheduledAt, Midnight, PlannedAt
<1>7. MatchPriority(row, p) \in 0 .. 2
  BY DEF MatchPriority
<1>8. p.predicted \in Int /\ ScheduledAt(row, p) \in Int
  BY <1>5, <1>6, PredictionTyped
<1>9. Gap(row, p) \in Nat
  <2>1. PICK d : d = p.predicted - ScheduledAt(row, p) /\ d \in Int
    BY <1>8
  <2>2. Gap(row, p) = IF d < 0 THEN -d ELSE d
    BY <2>1 DEF Gap
  <2> QED BY <2>1, <2>2
<1> QED BY <1>4, <1>5, <1>6, <1>7, <1>9 DEF GapKey

\* The ORDER BY compares the three keys one after the other.
LEMMA PrecedesByKeys ==
    ASSUME stopTimes \subseteq StopTime, NEW p \in Prediction, NEW r \in Scheduled, NEW s \in Scheduled
    PROVE  Precedes(r, s, p) <=>
             \/ MatchPriority(r, p) < MatchPriority(s, p)
             \/ /\ MatchPriority(r, p) = MatchPriority(s, p)
                /\ \/ GapKey(r, p) < GapKey(s, p)
                   \/ GapKey(r, p) = GapKey(s, p) /\ PlannedAt(r) =< PlannedAt(s)
<1>1. ScheduledAt(r, p) =< ScheduledAt(s, p) <=> PlannedAt(r) =< PlannedAt(s)
  BY KeysTyped, PredictionTyped
<1> QED BY <1>1 DEF Precedes, GapKey

\* A trip with a schedule has a first row in that order.
LEMMA FirstRow ==
    ASSUME stopTimes \subseteq StopTime, NEW p \in Prediction, Scheduled # {}
    PROVE  Selected(p) # {}
<1> DEFINE Priorities == {MatchPriority(r, p) : r \in Scheduled}
<1>1. PICK a \in Priorities : \A b \in Priorities : a =< b
  <2>1. Priorities \subseteq Nat /\ Priorities # {}
    BY KeysTyped
  <2> HIDE DEF Priorities
  <2> QED BY <2>1, LeastNatural
<1> DEFINE Gaps == {GapKey(r, p) : r \in {s \in Scheduled : MatchPriority(s, p) = a}}
<1>2. PICK g \in Gaps : \A b \in Gaps : g =< b
  <2>1. Gaps \subseteq Nat /\ Gaps # {}
    BY <1>1, KeysTyped
  <2> HIDE DEF Gaps
  <2> QED BY <2>1, LeastNatural
<1> DEFINE Times == {PlannedAt(r) : r \in {s \in Scheduled : MatchPriority(s, p) = a /\ GapKey(s, p) = g}}
<1>3. PICK t \in Times : \A b \in Times : t =< b
  <2>1. Times \subseteq Nat /\ Times # {}
    BY <1>2, KeysTyped
  <2> HIDE DEF Times
  <2> QED BY <2>1, LeastNatural
<1>4. PICK r \in Scheduled : MatchPriority(r, p) = a /\ GapKey(r, p) = g /\ PlannedAt(r) = t
  BY <1>3
<1>5. ASSUME NEW s \in Scheduled PROVE Precedes(r, s, p)
  <2>1. /\ a \in Nat /\ MatchPriority(s, p) \in Nat /\ a =< MatchPriority(s, p)
        /\ g \in Nat /\ GapKey(s, p) \in Nat
        /\ t \in Nat /\ PlannedAt(s) \in Nat
    BY <1>1, <1>4, KeysTyped
  <2>2. MatchPriority(s, p) = a => g =< GapKey(s, p)
    BY <1>2
  <2>3. MatchPriority(s, p) = a /\ GapKey(s, p) = g => t =< PlannedAt(s)
    BY <1>3
  <2> HIDE DEF Priorities, Gaps, Times
  <2> QED BY <1>4, <2>1, <2>2, <2>3, PrecedesByKeys
<1> QED BY <1>5 DEF Selected

\* Rows that are both first are planned at the same time.
LEMMA FirstRowsAgree ==
    ASSUME stopTimes \subseteq StopTime, NEW p \in Prediction,
           NEW r \in Selected(p), NEW s \in Selected(p)
    PROVE  ScheduledAt(r, p) = ScheduledAt(s, p)
<1>1. r \in Scheduled /\ s \in Scheduled /\ Precedes(r, s, p) /\ Precedes(s, r, p)
  BY DEF Selected
<1>2. PlannedAt(r) = PlannedAt(s)
  BY <1>1, PrecedesByKeys, KeysTyped
<1> QED BY <1>1, <1>2, KeysTyped

LEMMA OneDelay ==
    ASSUME stopTimes \subseteq StopTime, NEW p \in Prediction
    PROVE  \E d : DerivedDelays(p) = {d}
<1>1. CASE Scheduled = {}
  BY <1>1 DEF DerivedDelays
<1>2. CASE Scheduled # {}
  <2>1. PICK r \in Selected(p) : TRUE
    BY <1>2, FirstRow
  <2>2. \A s \in Selected(p) : ScheduledAt(s, p) = ScheduledAt(r, p)
    BY FirstRowsAgree
  <2>3. {{p.predicted - ScheduledAt(s, p)} : s \in Selected(p)} = {{p.predicted - ScheduledAt(r, p)}}
    BY <2>1, <2>2
  <2> QED BY <1>2, <2>3 DEF DerivedDelays
<1> QED BY <1>1, <1>2

\* The prediction in hand carries the delay that the query gave it.
DelayInv ==
    /\ stopTimes \subseteq StopTime
    /\ pending = {} \/ \E p \in Prediction : /\ pending = {p}
                                             /\ Coherent(p)
                                             /\ p.given = {} => delay \in DerivedDelays(p)

LEMMA DelayInvInit == DelayInit => DelayInv
<1> SUFFICES ASSUME DelayInit PROVE DelayInv
  OBVIOUS
<1>1. stopTimes \subseteq StopTime
  <2>1. CASE stopTimes = {}
    BY <2>1
  <2>2. CASE stopTimes # {}
    <3>1. PICK f \in [1 .. MaxRows -> StopTime] : stopTimes = {f[i] : i \in 1 .. MaxRows}
      BY <2>2 DEF DelayInit
    <3> QED BY <3>1
  <2> QED BY <2>1, <2>2
<1> QED BY <1>1 DEF DelayInit, DelayInv

LEMMA DelayInvNext == DelayInv /\ [DelayNext]_delayVars => DelayInv'
<1> SUFFICES ASSUME DelayInv, [DelayNext]_delayVars PROVE DelayInv'
  OBVIOUS
<1>1. ASSUME UNCHANGED stopTimes PROVE \A p : DerivedDelays(p)' = DerivedDelays(p)
  BY <1>1 DEF DerivedDelays, Selected, Scheduled
<1>2. CASE NextEvent
  BY <1>2 DEF NextEvent, DelayInv
<1>3. CASE UNCHANGED delayVars
  BY <1>1, <1>3 DEF delayVars, DelayInv
<1>4. ASSUME NEW p \in Prediction, InsertPrediction(p) PROVE DelayInv'
  <2>1. /\ UNCHANGED stopTimes /\ pending' = {p} /\ Coherent(p)
        /\ p.given = {} => delay' \in DerivedDelays(p)
    BY <1>4 DEF InsertPrediction
  <2> QED BY <1>1, <2>1 DEF DelayInv
<1> QED BY <1>2, <1>3, <1>4 DEF DelayNext

LEMMA DelayInvAlways == DelaySpec => []DelayInv
BY DelayInvInit, DelayInvNext, PTL DEF DelaySpec

\* The query of deriveScheduleDelay has one answer, whatever the schedule, even
\* for a trip that serves a stop twice: which row LIMIT 1 takes does not matter.
THEOREM DelaysAreDetermined == DelaySpec => []DelayDeterministic
<1>1. DelayInv => DelayDeterministic
  <2> SUFFICES ASSUME DelayInv, NEW p \in pending PROVE Cardinality(DerivedDelays(p)) = 1
    BY DEF DelayDeterministic
  <2>1. p \in Prediction /\ stopTimes \subseteq StopTime
    BY DEF DelayInv
  <2>2. PICK d : DerivedDelays(p) = {d}
    BY <2>1, OneDelay
  <2> QED BY <2>2, FS_Singleton
<1> QED BY <1>1, DelayInvAlways, PTL

\* On its service day a prediction is compared with a planned time of its own
\* stop whenever the trip has one, however close the other stops' are.
THEOREM OwnStopsFirst == DelaySpec => []OwnStopFirst
<1>1. DelayInv => OwnStopFirst
  <2> SUFFICES ASSUME DelayInv, NEW p \in pending,
                      NEW o \in Scheduled, o.stop = p.stop, p.sequence \in {0, o.sequence},
                      p.given = {}, p.predicted - p.serviceDay < Day
               PROVE  \E r \in Scheduled :
                        /\ r.stop = p.stop /\ p.sequence \in {0, r.sequence}
                        /\ delay = {p.predicted - (p.serviceDay + t) : t \in PlannedTime(r)}
    BY DEF OwnStopFirst
  <2>1. /\ p \in Prediction /\ stopTimes \subseteq StopTime
        /\ Coherent(p) /\ delay \in DerivedDelays(p)
    BY DEF DelayInv
  <2>2. PICK r \in Selected(p) : delay = {p.predicted - ScheduledAt(r, p)}
    BY <2>1 DEF DerivedDelays
  <2>3. r \in Scheduled /\ Precedes(r, o, p)
    BY DEF Selected
  <2>4. MatchPriority(o, p) = 0
    BY DEF MatchPriority
  <2>5. MatchPriority(r, p) = 0
    BY <2>1, <2>3, <2>4, PrecedesByKeys, KeysTyped
  <2>6. r.stop = p.stop /\ p.sequence \in {0, r.sequence}
    BY <2>5 DEF MatchPriority
  <2>7. Midnight(p) = p.serviceDay
    <3>1. PICK x, D : x = p.predicted /\ D = Day
      OBVIOUS
    <3>2. x \in Nat /\ D \in Nat \ {0} /\ p.serviceDay \in {0, D}
      BY <2>1, <3>1, PredictionTyped
    <3>3. x - p.serviceDay \in 0 .. D - 1
      BY <2>1, <3>1, <3>2 DEF Coherent
    <3>4. CASE p.serviceDay = 0
      <4>1. x \in 0 .. D - 1
        BY <3>2, <3>3, <3>4
      <4>2. x % D = x
        BY <3>2, <4>1
      <4> QED BY <3>1, <3>2, <3>4, <4>2 DEF Midnight
    <3>5. CASE p.serviceDay = D
      <4>1. x \in D .. 2 * D - 1
        BY <3>2, <3>3, <3>5
      <4>2. x % D = x - D
        BY <3>2, <4>1
      <4> QED BY <3>1, <3>2, <3>5, <4>2 DEF Midnight
    <3> QED BY <3>2, <3>4, <3>5
  <2>8. /\ PlannedTime(r) = {PlannedAt(r)}
        /\ ScheduledAt(r, p) = p.serviceDay + PlannedAt(r)
    BY <2>1, <2>3, <2>7, KeysTyped
  <2>9. delay = {p.predicted - (p.serviceDay + t) : t \in PlannedTime(r)}
    BY <2>2, <2>8
  <2> QED BY <2>3, <2>6, <2>9
<1> QED BY <1>1, DelayInvAlways, PTL
=============================================================================

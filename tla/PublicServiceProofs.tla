------------------------ MODULE PublicServiceProofs ------------------------
(***************************************************************************)
(* No event is doubled, dropped or overtaken between PostgreSQL and the    *)
(* engine, for any capacity of the channels, any number of events and any  *)
(* failures and restarts.                                                  *)
(***************************************************************************)
EXTENDS PublicService, TLAPS

Increasing(s) == \A i, j \in 1..Len(s) : i < j => s[i] < s[j]

Before(a, b) == \A x \in a, y \in b : x < y

\* The events of topic t that the runner holds.
InHand(t) == IF t = feed THEN unpublished ELSE <<>>

-----------------------------------------------------------------------------
(* Sequences of numbers and their elements.                                *)

LEMMA EmptySequence == Elements(<<>>) = {} /\ Increasing(<<>>)
BY DEF Elements, Increasing

LEMMA OneElement ==
    ASSUME NEW x PROVE Elements(<<x>>) = {x} /\ Increasing(<<x>>)
BY DEF Elements, Increasing

LEMMA ElementsTyped ==
    ASSUME NEW s \in Seq(Nat) PROVE Elements(s) \subseteq Nat
BY DEF Elements

\* A concatenation has the elements of both and is increasing when both are
\* and the first comes before the second; and the other way round.
LEMMA Concatenation ==
    ASSUME NEW s \in Seq(Nat), NEW u \in Seq(Nat)
    PROVE  /\ s \o u \in Seq(Nat)
           /\ Elements(s \o u) = Elements(s) \cup Elements(u)
           /\ Increasing(s \o u) <=>
                Increasing(s) /\ Increasing(u) /\ Before(Elements(s), Elements(u))
<1>. DEFINE c == s \o u
<1>1. /\ c \in Seq(Nat) /\ Len(s) \in Nat /\ Len(u) \in Nat /\ Len(c) = Len(s) + Len(u)
      /\ \A i \in 1..Len(s) : s[i] \in Nat /\ i \in 1..Len(c) /\ c[i] = s[i]
      /\ \A i \in 1..Len(u) : u[i] \in Nat /\ Len(s) + i \in 1..Len(c) /\ c[Len(s) + i] = u[i]
  OBVIOUS
<1>2. \A k \in 1..Len(c) : k \in 1..Len(s) \/ \E i \in 1..Len(u) : k = Len(s) + i
  <2> SUFFICES ASSUME NEW k \in 1..Len(c), k \notin 1..Len(s)
               PROVE  \E i \in 1..Len(u) : k = Len(s) + i
    OBVIOUS
  <2>1. k - Len(s) \in 1..Len(u) /\ k = Len(s) + (k - Len(s))
    BY <1>1
  <2> QED BY <2>1
<1>. HIDE DEF c
<1>3. Elements(c) = Elements(s) \cup Elements(u)
  <2>0. ASSUME NEW k \in 1..Len(c) PROVE c[k] \in Elements(s) \/ c[k] \in Elements(u)
    <3>1. CASE k \in 1..Len(s)
      BY <1>1, <3>1 DEF Elements
    <3>2. CASE \E i \in 1..Len(u) : k = Len(s) + i
      <4>1. PICK i \in 1..Len(u) : k = Len(s) + i
        BY <3>2
      <4>2. c[k] = u[i]
        BY <1>1, <4>1
      <4> QED BY <4>2 DEF Elements
    <3> QED BY <1>2, <3>1, <3>2
  <2>1. \A x \in Elements(c) : x \in Elements(s) \/ x \in Elements(u)
    BY <2>0 DEF Elements
  <2>2. \A i \in 1..Len(s) : s[i] \in Elements(c)
    BY <1>1 DEF Elements
  <2>3. \A i \in 1..Len(u) : u[i] \in Elements(c)
    BY <1>1 DEF Elements
  <2>4. Elements(s) \subseteq Elements(c) /\ Elements(u) \subseteq Elements(c)
    BY <2>2, <2>3 DEF Elements
  <2> QED BY <2>1, <2>4
<1>4. ASSUME Increasing(c)
      PROVE  Increasing(s) /\ Increasing(u) /\ Before(Elements(s), Elements(u))
  <2>1. Increasing(s)
    BY <1>1, <1>4 DEF Increasing
  <2>2. Increasing(u)
    <3> SUFFICES ASSUME NEW i \in 1..Len(u), NEW j \in 1..Len(u), i < j PROVE u[i] < u[j]
      BY DEF Increasing
    <3>1. Len(s) + i < Len(s) + j
      BY <1>1
    <3> QED BY <1>1, <1>4, <3>1 DEF Increasing
  <2>3. Before(Elements(s), Elements(u))
    <3> SUFFICES ASSUME NEW i \in 1..Len(s), NEW j \in 1..Len(u) PROVE s[i] < u[j]
      BY DEF Before, Elements
    <3>1. i < Len(s) + j
      BY <1>1
    <3> QED BY <1>1, <1>4, <3>1 DEF Increasing
  <2> QED BY <2>1, <2>2, <2>3
<1>5. ASSUME Increasing(s), Increasing(u), Before(Elements(s), Elements(u))
      PROVE  Increasing(c)
  <2> SUFFICES ASSUME NEW i \in 1..Len(c), NEW j \in 1..Len(c), i < j PROVE c[i] < c[j]
    BY DEF Increasing
  <2>1. CASE i \in 1..Len(s) /\ j \in 1..Len(s)
    BY <1>1, <1>5, <2>1 DEF Increasing
  <2>2. CASE i \in 1..Len(s) /\ \E n \in 1..Len(u) : j = Len(s) + n
    BY <1>1, <1>5, <2>2 DEF Before, Elements
  <2>3. CASE \E m, n \in 1..Len(u) : i = Len(s) + m /\ j = Len(s) + n
    BY <1>1, <1>5, <2>3 DEF Increasing
  <2>4. CASE j \in 1..Len(s) /\ \E m \in 1..Len(u) : i = Len(s) + m
    BY <1>1, <2>4
  <2> QED BY <1>2, <2>1, <2>2, <2>3, <2>4
<1> QED BY <1>1, <1>3, <1>4, <1>5 DEF c

\* The head and the tail of a sequence.
LEMMA HeadAndTail ==
    ASSUME NEW s \in Seq(Nat), s # <<>>
    PROVE  /\ Head(s) \in Nat /\ Tail(s) \in Seq(Nat) /\ s = <<Head(s)>> \o Tail(s)
           /\ Elements(s) = {Head(s)} \cup Elements(Tail(s))
           /\ Increasing(s) <=> Increasing(Tail(s)) /\ Before({Head(s)}, Elements(Tail(s)))
<1>1. Head(s) \in Nat /\ Tail(s) \in Seq(Nat) /\ <<Head(s)>> \in Seq(Nat) /\ s = <<Head(s)>> \o Tail(s)
  OBVIOUS
<1>2. /\ Elements(<<Head(s)>> \o Tail(s)) = Elements(<<Head(s)>>) \cup Elements(Tail(s))
      /\ Increasing(<<Head(s)>> \o Tail(s)) <=>
            /\ Increasing(<<Head(s)>>) /\ Increasing(Tail(s))
            /\ Before(Elements(<<Head(s)>>), Elements(Tail(s)))
  BY <1>1, Concatenation
<1>3. Elements(<<Head(s)>>) = {Head(s)} /\ Increasing(<<Head(s)>>)
  BY OneElement
<1>. DEFINE joined == <<Head(s)>> \o Tail(s)
<1>4. s = joined /\ Elements(joined) = {Head(s)} \cup Elements(Tail(s))
  BY <1>1, <1>2, <1>3
<1>5. Increasing(joined) <=> Increasing(Tail(s)) /\ Before({Head(s)}, Elements(Tail(s)))
  BY <1>2, <1>3
<1>. HIDE DEF joined
<1> QED BY <1>1, <1>4, <1>5

\* A sequence and one more element.
LEMMA OneMore ==
    ASSUME NEW s \in Seq(Nat), NEW x \in Nat
    PROVE  /\ Append(s, x) \in Seq(Nat)
           /\ Elements(Append(s, x)) = Elements(s) \cup {x}
           /\ Increasing(Append(s, x)) <=> Increasing(s) /\ Before(Elements(s), {x})
<1>1. Append(s, x) = s \o <<x>> /\ <<x>> \in Seq(Nat)
  OBVIOUS
<1>2. /\ Elements(s \o <<x>>) = Elements(s) \cup Elements(<<x>>)
      /\ Increasing(s \o <<x>>) <=>
            Increasing(s) /\ Increasing(<<x>>) /\ Before(Elements(s), Elements(<<x>>))
  BY <1>1, Concatenation
<1>3. Elements(<<x>>) = {x} /\ Increasing(<<x>>)
  BY OneElement
<1>. DEFINE joined == s \o <<x>>
<1>4. Append(s, x) = joined /\ Elements(joined) = Elements(s) \cup {x}
  BY <1>1, <1>2, <1>3
<1>5. Increasing(joined) <=> Increasing(s) /\ Before(Elements(s), {x})
  BY <1>2, <1>3
<1>6. Append(s, x) \in Seq(Nat)
  OBVIOUS
<1>. HIDE DEF joined
<1> QED BY <1>4, <1>5, <1>6

-----------------------------------------------------------------------------
(* What one topic's events go through, as an operator on the message held  *)
(* by the consumer, the channel, the events in the runner's hand, the      *)
(* events handled and given up, and the number stored.                     *)

Placed(h, q, u, done, given, n) ==
    /\ Increasing(h) /\ Increasing(q) /\ Increasing(u)
    /\ Before(Elements(h), Elements(q)) /\ Before(Elements(h), Elements(u))
    /\ Before(Elements(q), Elements(u))
    /\ Before(done, Elements(h) \cup Elements(q) \cup Elements(u))
    /\ done \cap given = {}
    /\ (done \cup given) \cap (Elements(h) \cup Elements(q) \cup Elements(u)) = {}
    /\ done \cup given \cup Elements(h) \cup Elements(q) \cup Elements(u) = 1..n

LEMMA PlacedSent ==
    ASSUME NEW h \in Seq(Nat), NEW q \in Seq(Nat), NEW u \in Seq(Nat), u # <<>>,
           NEW done, NEW given, NEW n \in Nat, Placed(h, q, u, done, given, n)
    PROVE  /\ Placed(h, Append(q, Head(u)), Tail(u), done, given, n)
           /\ Placed(h, q, Tail(u), done, given \cup {Head(u)}, n)
<1>. DEFINE x == Head(u)  rest == Tail(u)  longer == Append(q, x)
<1>1. /\ x \in Nat /\ rest \in Seq(Nat) /\ Elements(u) = {x} \cup Elements(rest)
      /\ Increasing(u) <=> Increasing(rest) /\ Before({x}, Elements(rest))
  BY HeadAndTail
<1>2. /\ Elements(longer) = Elements(q) \cup {x}
      /\ Increasing(longer) <=> Increasing(q) /\ Before(Elements(q), {x})
  BY <1>1, OneMore
<1>3. x \notin Elements(rest)
  BY <1>1, ElementsTyped DEF Placed, Before
<1>. HIDE DEF x, rest, longer
<1>4. Placed(h, longer, rest, done, given, n)
  BY <1>1, <1>2 DEF Placed, Before
<1>5. Placed(h, q, rest, done, given \cup {x}, n)
  BY <1>1, <1>3 DEF Placed, Before
<1> QED BY <1>4, <1>5 DEF x, rest, longer

LEMMA PlacedTaken ==
    ASSUME NEW q \in Seq(Nat), NEW u \in Seq(Nat), q # <<>>,
           NEW done, NEW given, NEW n \in Nat, Placed(<<>>, q, u, done, given, n)
    PROVE  Placed(<<Head(q)>>, Tail(q), u, done, given, n)
<1>. DEFINE x == Head(q)  rest == Tail(q)  one == <<x>>  none == <<>>
<1>1. /\ x \in Nat /\ Elements(q) = {x} \cup Elements(rest)
      /\ Increasing(q) <=> Increasing(rest) /\ Before({x}, Elements(rest))
  BY HeadAndTail
<1>2. Elements(one) = {x} /\ Increasing(one) /\ Elements(none) = {}
  BY OneElement, EmptySequence
<1>3. Placed(none, q, u, done, given, n)
  OBVIOUS
<1>. HIDE DEF x, rest, one, none
<1>4. Placed(one, rest, u, done, given, n)
  BY <1>1, <1>2, <1>3 DEF Placed, Before
<1> QED BY <1>4 DEF x, rest, one

LEMMA PlacedFinished ==
    ASSUME NEW h \in Seq(Nat), NEW q \in Seq(Nat), NEW u \in Seq(Nat),
           NEW done, NEW given, NEW n \in Nat, Placed(h, q, u, done, given, n)
    PROVE  /\ Placed(<<>>, q, u, done \cup Elements(h), given, n)
           /\ Placed(<<>>, q, u, done, given \cup Elements(h), n)
           /\ Placed(<<>>, <<>>, <<>>, done,
                     given \cup Elements(h) \cup Elements(q) \cup Elements(u), n)
<1>. DEFINE none == <<>>
<1>1. Elements(none) = {} /\ Increasing(none)
  BY EmptySequence
<1>2. /\ Elements(h) \subseteq Nat /\ Elements(q) \subseteq Nat /\ Elements(u) \subseteq Nat
  BY ElementsTyped
<1>. HIDE DEF none
<1>3. Elements(h) \cap Elements(q) = {} /\ Elements(h) \cap Elements(u) = {}
  BY <1>2 DEF Placed, Before
<1>4. Placed(none, q, u, done \cup Elements(h), given, n)
  BY <1>1, <1>3 DEF Placed, Before
<1>5. Placed(none, q, u, done, given \cup Elements(h), n)
  BY <1>1, <1>3 DEF Placed, Before
<1>6. Placed(none, none, none, done,
             given \cup Elements(h) \cup Elements(q) \cup Elements(u), n)
  BY <1>1 DEF Placed, Before
<1> QED BY <1>4, <1>5, <1>6 DEF none

LEMMA PlacedCollected ==
    ASSUME NEW h \in Seq(Nat), NEW q \in Seq(Nat), NEW done, NEW given,
           NEW n \in Nat, NEW m \in Nat, Placed(h, q, <<>>, done, given, n)
    PROVE  /\ [i \in 1..m |-> n + i] \in Seq(Nat)
           /\ Placed(h, q, [i \in 1..m |-> n + i], done, given, n + m)
<1>. DEFINE new == [i \in 1..m |-> n + i]  none == <<>>
<1>1. /\ new \in Seq(Nat) /\ Len(new) = m /\ \A i \in 1..m : new[i] = n + i
  OBVIOUS
<1>2. Elements(none) = {} /\ Placed(h, q, none, done, given, n)
  BY EmptySequence
<1>. HIDE DEF new, none
<1>3. Increasing(new)
  BY <1>1 DEF Increasing
<1>4. Elements(new) = (n + 1)..(n + m)
  <2>1. \A i \in 1..m : n + i \in (n + 1)..(n + m)
    OBVIOUS
  <2>2. ASSUME NEW x \in (n + 1)..(n + m) PROVE x \in Elements(new)
    <3>1. x - n \in 1..m /\ new[x - n] = x
      BY <1>1
    <3> QED BY <1>1, <3>1 DEF Elements
  <2>3. \A x \in Elements(new) : x \in (n + 1)..(n + m)
    BY <1>1, <2>1 DEF Elements
  <2> QED BY <2>2, <2>3
<1>5. \A x \in 1..n, y \in (n + 1)..(n + m) : x < y
  OBVIOUS
<1>6. 1..(n + m) = (1..n) \cup ((n + 1)..(n + m))
  OBVIOUS
<1>7. Placed(h, q, new, done, given, n + m)
  BY <1>2, <1>3, <1>4, <1>5, <1>6 DEF Placed, Before
<1> QED BY <1>1, <1>7 DEF new

LEMMA PlacedUnacknowledged ==
    ASSUME NEW h \in Seq(Nat), NEW q \in Seq(Nat), NEW u \in Seq(Nat), NEW done, NEW given,
           NEW n \in Nat, NEW m \in Nat, Placed(h, q, u, done, given, n)
    PROVE  Placed(h, q, u, done, given \cup ((n + 1)..(n + m)), n + m)
<1>. DEFINE new == (n + 1)..(n + m)  old == 1..n
<1>1. old \cap new = {} /\ 1..(n + m) = old \cup new
  OBVIOUS
<1>2. /\ done \cup given \cup Elements(h) \cup Elements(q) \cup Elements(u) = old
      /\ done \cap given = {}
      /\ (done \cup given) \cap (Elements(h) \cup Elements(q) \cup Elements(u)) = {}
  BY DEF Placed
<1>. HIDE DEF new, old
<1>3. /\ done \cap (given \cup new) = {}
      /\ (done \cup given \cup new) \cap (Elements(h) \cup Elements(q) \cup Elements(u)) = {}
      /\ done \cup (given \cup new) \cup Elements(h) \cup Elements(q) \cup Elements(u) = old \cup new
  BY <1>1, <1>2
<1>4. Placed(h, q, u, done, given \cup new, n + m)
  BY <1>1, <1>3 DEF Placed
<1> QED BY <1>4 DEF new

-----------------------------------------------------------------------------
(* The service.                                                            *)

InOnePlace(t) == Placed(held[t], queue[t], InHand(t), handled[t], lost[t], stored[t])

\* What a goroutine is not at work on it does not hold.
Resting ==
    /\ runner # "publish" => unpublished = <<>>
    /\ \A t \in Topics : consumer[t] # "handling" => held[t] = <<>>
    /\ matcher = "starting" => \A t \in Topics : consumer[t] = "unborn"

Typed ==
    /\ feed \in Topics /\ unpublished \in Seq(Nat)
    /\ held \in [Topics -> Seq(Nat)] /\ queue \in [Topics -> Seq(Nat)]
    /\ stored \in [Topics -> Nat]
    /\ DOMAIN consumer = Topics /\ DOMAIN handled = Topics /\ DOMAIN lost = Topics

ServiceInv == Typed /\ Resting /\ \A t \in Topics : InOnePlace(t)

\* A process that has ended holds nothing, so that a restart loses nothing.
Ended ==
    main = "exited" => unpublished = <<>> /\ \A t \in Topics : held[t] = <<>> /\ queue[t] = <<>>

LEMMA ServiceInit == Init => ServiceInv
<1> SUFFICES ASSUME Init PROVE ServiceInv
  OBVIOUS
<1>1. Typed /\ Resting
  BY DEF Init, Fresh, Typed, Resting, Empty, Topics
<1>2. ASSUME NEW t \in Topics PROVE InOnePlace(t)
  <2>. DEFINE none == <<>>
  <2>1. held[t] = none /\ queue[t] = none /\ InHand(t) = none
    BY DEF Init, Fresh, Empty, InHand
  <2>2. handled[t] = {} /\ lost[t] = {} /\ stored[t] = 0
    BY DEF Init
  <2>3. Elements(none) = {} /\ Increasing(none)
    BY EmptySequence
  <2>. HIDE DEF none
  <2> QED BY <2>1, <2>2, <2>3 DEF InOnePlace, Placed, Before
<1> QED BY <1>1, <1>2 DEF ServiceInv

\* A step that moves no event.
LEMMA Unmoved ==
    ASSUME ServiceInv, UNCHANGED <<unpublished, held, queue, stored, handled, lost>>,
           feed' = feed \/ (unpublished = <<>> /\ feed' \in Topics)
    PROVE  /\ \A t \in Topics : InOnePlace(t)'
           /\ DOMAIN consumer' = Topics => Typed'
<1>1. \A t \in Topics : InHand(t)' = InHand(t)
  BY DEF InHand
<1>2. ASSUME NEW t \in Topics PROVE InOnePlace(t)'
  <2>1. InOnePlace(t)
    BY DEF ServiceInv
  <2> QED BY <1>1, <2>1 DEF InOnePlace
<1>3. DOMAIN consumer' = Topics => Typed'
  BY DEF ServiceInv, Typed
<1> QED BY <1>2, <1>3

LEMMA RunnerKeeps ==
    ASSUME ServiceInv,
           Collect \/ CollectUnacknowledged \/ RunnerSends \/ Published \/ Tick \/ RunnerReturns
    PROVE  ServiceInv'
<1>. USE DEF ServiceInv
<1>1. CASE Collect
  <2>1. PICK n \in 0..(MaxEvents - stored[feed]) :
          /\ stored' = [stored EXCEPT ![feed] = @ + n]
          /\ unpublished' = [i \in 1..n |-> stored[feed] + i]
    BY <1>1 DEF Collect
  <2>2. n \in Nat /\ stored[feed] \in Nat /\ feed \in Topics /\ unpublished = <<>>
    BY <1>1 DEF Collect, Typed, Resting
  <2>3. UNCHANGED <<feed, matcherVars, queue, handled, lost>> /\ runner' = "publish"
    BY <1>1 DEF Collect
  <2>4. InOnePlace(feed) /\ InHand(feed) = <<>>
    BY <2>2 DEF InHand
  <2>5. /\ unpublished' \in Seq(Nat)
        /\ Placed(held[feed], queue[feed], unpublished', handled[feed], lost[feed], stored[feed] + n)
    BY <2>1, <2>2, <2>4, PlacedCollected DEF InOnePlace, Typed
  <2>6. Typed' /\ Resting'
    BY <2>1, <2>2, <2>3, <2>5 DEF Typed, Resting, matcherVars
  <2>7. ASSUME NEW t \in Topics PROVE InOnePlace(t)'
    <3>1. CASE t = feed
      BY <2>1, <2>2, <2>3, <2>5, <3>1 DEF InOnePlace, InHand, Typed, matcherVars
    <3>2. CASE t # feed
      <4>1. InHand(t)' = InHand(t) /\ stored'[t] = stored[t] /\ InOnePlace(t)
        BY <2>1, <2>2, <2>3, <3>2 DEF InHand, Typed
      <4> QED BY <2>3, <4>1 DEF InOnePlace, matcherVars
    <3> QED BY <3>1, <3>2
  <2> QED BY <2>6, <2>7
<1>2. CASE RunnerSends
  <2>1. /\ unpublished # <<>> /\ unpublished \in Seq(Nat) /\ feed \in Topics
        /\ unpublished' = Tail(unpublished) /\ InHand(feed) = unpublished /\ InOnePlace(feed)
        /\ UNCHANGED <<runner, feed, matcherVars, stored, handled>>
    BY <1>2 DEF RunnerSends, Publish, PublishFails, InHand, Typed, eventVars
  <2>2. /\ Placed(held[feed], Append(queue[feed], Head(unpublished)), Tail(unpublished),
                  handled[feed], lost[feed], stored[feed])
        /\ Placed(held[feed], queue[feed], Tail(unpublished), handled[feed],
                  lost[feed] \cup {Head(unpublished)}, stored[feed])
    BY <2>1, PlacedSent DEF InOnePlace, Typed
  <2>3. Tail(unpublished) \in Seq(Nat) /\ Append(queue[feed], Head(unpublished)) \in Seq(Nat)
    BY <2>1 DEF Typed
  <2>4. /\ runner = "publish"
        /\ \/ queue' = [queue EXCEPT ![feed] = Append(@, Head(unpublished))] /\ lost' = lost
           \/ queue' = queue /\ lost' = [lost EXCEPT ![feed] = @ \cup {Head(unpublished)}]
    BY <1>2 DEF RunnerSends, Publish, PublishFails, Lose, eventVars
  <2>5. Typed'
    BY <2>1, <2>3, <2>4 DEF Typed, matcherVars
  <2>6. Resting'
    BY <2>1, <2>4 DEF Resting, matcherVars
  <2>7. ASSUME NEW t \in Topics PROVE InOnePlace(t)'
    <3>1. CASE t = feed
      BY <2>1, <2>2, <2>4, <3>1 DEF InOnePlace, InHand, Typed, matcherVars
    <3>2. CASE t # feed
      <4>1. InHand(t)' = InHand(t) /\ queue'[t] = queue[t] /\ lost'[t] = lost[t] /\ InOnePlace(t)
        BY <2>1, <2>4, <3>2 DEF InHand, Typed
      <4> QED BY <2>1, <4>1 DEF InOnePlace, matcherVars
    <3> QED BY <3>1, <3>2
  <2> QED BY <2>5, <2>6, <2>7
<1>3. CASE Published \/ Tick \/ RunnerReturns
  <2>1. /\ UNCHANGED <<unpublished, matcherVars, queue, eventVars>>
        /\ feed' = feed \/ (unpublished = <<>> /\ feed' \in Topics)
    BY <1>3 DEF Published, Tick, RunnerReturns, Topics
  <2>2. Resting'
    BY <1>3, <2>1 DEF Published, Tick, RunnerReturns, Resting, matcherVars
  <2>3. DOMAIN consumer' = Topics
    BY <2>1 DEF Typed, matcherVars
  <2> QED BY <2>1, <2>2, <2>3, Unmoved DEF matcherVars, eventVars
<1>4. CASE CollectUnacknowledged
  <2>1. PICK n \in 1..(MaxEvents - stored[feed]) :
          /\ stored' = [stored EXCEPT ![feed] = @ + n]
          /\ lost' = [lost EXCEPT ![feed] = @ \cup ((stored[feed] + 1)..(stored[feed] + n))]
    BY <1>4 DEF CollectUnacknowledged, Lose
  <2>2. /\ n \in Nat /\ stored[feed] \in Nat /\ feed \in Topics
        /\ unpublished = <<>> /\ unpublished' = <<>>
    BY <1>4 DEF CollectUnacknowledged, Typed, Resting
  <2>3. UNCHANGED <<feed, matcherVars, queue, handled>>
    BY <1>4 DEF CollectUnacknowledged
  <2>4. /\ InOnePlace(feed) /\ held[feed] \in Seq(Nat) /\ queue[feed] \in Seq(Nat)
        /\ InHand(feed) \in Seq(Nat)
    BY <2>2 DEF InHand, Typed
  <2>5. Placed(held[feed], queue[feed], InHand(feed), handled[feed],
               lost[feed] \cup ((stored[feed] + 1)..(stored[feed] + n)), stored[feed] + n)
    BY <2>2, <2>4, PlacedUnacknowledged DEF InOnePlace
  <2>6. Typed' /\ Resting'
    BY <2>1, <2>2, <2>3 DEF Typed, Resting, matcherVars
  <2>7. ASSUME NEW t \in Topics PROVE InOnePlace(t)'
    <3>0. InHand(t)' = InHand(t)
      BY <2>2, <2>3 DEF InHand
    <3>1. CASE t = feed
      BY <2>1, <2>2, <2>3, <2>5, <3>0, <3>1 DEF InOnePlace, Typed, matcherVars
    <3>2. CASE t # feed
      <4>1. lost'[t] = lost[t] /\ stored'[t] = stored[t] /\ InOnePlace(t)
        BY <2>1, <2>2, <3>2 DEF Typed
      <4> QED BY <2>3, <3>0, <4>1 DEF InOnePlace, matcherVars
    <3> QED BY <3>1, <3>2
  <2> QED BY <2>6, <2>7
<1> QED BY <1>1, <1>2, <1>3, <1>4

LEMMA MatcherKeeps ==
    ASSUME ServiceInv, MatcherBoots \/ MatcherReturns \/ \E t \in Topics : Consume(t) \/ Finish(t)
    PROVE  ServiceInv'
<1>. USE DEF ServiceInv
<1>1. CASE MatcherBoots \/ MatcherReturns \/ \E t \in Topics : FetchStops(t)
  <2>1. UNCHANGED <<runnerVars, held, queue, eventVars>>
    BY <1>1 DEF MatcherBoots, MatcherStarts, MatcherFailsToStart, MatcherReturns, FetchStops
  <2>2. DOMAIN consumer' = Topics
    BY <1>1 DEF MatcherBoots, MatcherStarts, MatcherFailsToStart, MatcherReturns, FetchStops, Typed
  <2>3. Resting'
    <3>1. runner' # "publish" => unpublished' = <<>>
      BY <2>1 DEF Resting, runnerVars
    <3>2. \A t \in Topics : consumer'[t] # "handling" => held'[t] = <<>>
      BY <1>1, <2>1 DEF MatcherBoots, MatcherStarts, MatcherFailsToStart, MatcherReturns,
                        FetchStops, Resting, Typed
    <3>3. matcher' = "starting" => \A t \in Topics : consumer'[t] = "unborn"
      BY <1>1 DEF MatcherBoots, MatcherStarts, MatcherFailsToStart, MatcherReturns,
                  FetchStops, Resting, Typed
    <3> QED BY <3>1, <3>2, <3>3 DEF Resting
  <2> QED BY <2>1, <2>2, <2>3, Unmoved DEF runnerVars, eventVars
<1>2. CASE \E t \in Topics : FetchMessage(t)
  <2>1. PICK t \in Topics : FetchMessage(t)
    BY <1>2
  <2>2. /\ queue[t] # <<>> /\ held[t] = <<>> /\ queue[t] \in Seq(Nat) /\ InOnePlace(t)
        /\ InHand(t) \in Seq(Nat) /\ stored[t] \in Nat
        /\ held' = [held EXCEPT ![t] = <<Head(queue[t])>>]
        /\ queue' = [queue EXCEPT ![t] = Tail(@)]
        /\ consumer' = [consumer EXCEPT ![t] = "handling"]
        /\ UNCHANGED <<runnerVars, matcher, eventVars>> /\ consumer[t] = "fetching"
    BY <2>1 DEF FetchMessage, Resting, Typed, InHand
  <2>3. Placed(<<Head(queue[t])>>, Tail(queue[t]), InHand(t), handled[t], lost[t], stored[t])
    BY <2>2, PlacedTaken DEF InOnePlace
  <2>4. Tail(queue[t]) \in Seq(Nat) /\ <<Head(queue[t])>> \in Seq(Nat)
    BY <2>2
  <2>5. Typed'
    BY <2>2, <2>4 DEF Typed, runnerVars, eventVars
  <2>6. Resting'
    BY <2>2 DEF Resting, Typed, runnerVars
  <2>7. ASSUME NEW u \in Topics PROVE InOnePlace(u)'
    <3>1. InHand(u)' = InHand(u)
      BY <2>2 DEF InHand, runnerVars
    <3>2. CASE u = t
      BY <2>2, <2>3, <3>1, <3>2 DEF InOnePlace, Typed, eventVars
    <3>3. CASE u # t
      <4>1. held'[u] = held[u] /\ queue'[u] = queue[u] /\ InOnePlace(u)
        BY <2>2, <3>3 DEF Typed
      <4> QED BY <2>2, <3>1, <4>1 DEF InOnePlace, eventVars
    <3> QED BY <3>2, <3>3
  <2> QED BY <2>5, <2>6, <2>7
<1>3. CASE \E t \in Topics : Finish(t)
  <2>1. PICK t \in Topics : Finish(t)
    BY <1>3
  <2>2. /\ held[t] \in Seq(Nat) /\ queue[t] \in Seq(Nat) /\ InHand(t) \in Seq(Nat)
        /\ stored[t] \in Nat /\ InOnePlace(t)
        /\ held' = [held EXCEPT ![t] = <<>>] /\ DOMAIN consumer' = Topics
        /\ \A u \in Topics : u # t => consumer'[u] = consumer[u]
        /\ UNCHANGED <<runnerVars, matcher, queue, stored>> /\ consumer[t] = "handling"
        /\ \/ /\ handled' = [handled EXCEPT ![t] = @ \cup Elements(held[t])]
              /\ lost' = lost
           \/ /\ lost' = [lost EXCEPT ![t] = @ \cup Elements(held[t])]
              /\ handled' = handled
    BY <2>1 DEF Finish, Handle, HandleFails, Lose, Typed, InHand
  <2>3. /\ Placed(<<>>, queue[t], InHand(t), handled[t] \cup Elements(held[t]), lost[t], stored[t])
        /\ Placed(<<>>, queue[t], InHand(t), handled[t], lost[t] \cup Elements(held[t]), stored[t])
    BY <2>2, PlacedFinished DEF InOnePlace
  <2>5. Typed'
    BY <2>2 DEF Typed, runnerVars
  <2>6. Resting'
    BY <2>2 DEF Resting, Typed, runnerVars
  <2>7. ASSUME NEW u \in Topics PROVE InOnePlace(u)'
    <3>1. InHand(u)' = InHand(u)
      BY <2>2 DEF InHand, runnerVars
    <3>2. CASE u = t
      BY <2>2, <2>3, <3>1, <3>2 DEF InOnePlace, Typed
    <3>3. CASE u # t
      <4>1. held'[u] = held[u] /\ handled'[u] = handled[u] /\ lost'[u] = lost[u] /\ InOnePlace(u)
        BY <2>2, <3>3 DEF Typed
      <4> QED BY <2>2, <3>1, <4>1 DEF InOnePlace
    <3> QED BY <3>2, <3>3
  <2> QED BY <2>5, <2>6, <2>7
<1> QED BY <1>1, <1>2, <1>3 DEF Consume

\* The process ends: what only its memory held is given up.
LEMMA DeathKeeps ==
    ASSUME ServiceInv, Dies
    PROVE  ServiceInv'
<1>. USE DEF ServiceInv
<1>1. /\ lost' = [t \in Topics |-> lost[t] \cup Elements(held[t]) \cup Elements(queue[t])
                                   \cup Elements(InHand(t))]
      /\ unpublished' = <<>> /\ held' = Empty /\ queue' = Empty
      /\ UNCHANGED <<runner, feed, matcher, consumer, stored, handled>>
  <2>1. \A t \in Topics :
          Elements(InHand(t)) = IF t = feed THEN Elements(unpublished) ELSE {}
    BY EmptySequence DEF InHand
  <2> QED BY <2>1 DEF Dies
<1>2. Typed' /\ Resting'
  BY <1>1 DEF Typed, Resting, Empty
<1>3. ASSUME NEW t \in Topics PROVE InOnePlace(t)'
  <2>1. /\ held[t] \in Seq(Nat) /\ queue[t] \in Seq(Nat) /\ InHand(t) \in Seq(Nat)
        /\ stored[t] \in Nat /\ InOnePlace(t)
    BY DEF Typed, InHand
  <2>2. Placed(<<>>, <<>>, <<>>, handled[t],
               lost[t] \cup Elements(held[t]) \cup Elements(queue[t]) \cup Elements(InHand(t)),
               stored[t])
    BY <2>1, PlacedFinished DEF InOnePlace
  <2>3. held'[t] = <<>> /\ queue'[t] = <<>> /\ InHand(t)' = <<>>
    BY <1>1 DEF Empty, InHand
  <2> QED BY <1>1, <2>2, <2>3 DEF InOnePlace
<1> QED BY <1>2, <1>3

LEMMA RestartKeeps ==
    ASSUME ServiceInv, Ended, Restart
    PROVE  ServiceInv'
<1>. DEFINE none == <<>>
<1>1. /\ unpublished = none /\ unpublished' = none /\ UNCHANGED eventVars
      /\ \A t \in Topics : held[t] = none /\ queue[t] = none /\ held'[t] = none /\ queue'[t] = none
  BY DEF Restart, Ended, Empty
<1>2. Typed'
  BY DEF Restart, Empty, ServiceInv, Typed, Topics, eventVars
<1>3. Resting'
  BY DEF Restart, Empty, Resting
<1>4. \A t \in Topics : InHand(t) = none /\ InHand(t)' = none
  BY <1>1 DEF InHand
<1>. HIDE DEF none
<1>5. ASSUME NEW t \in Topics PROVE InOnePlace(t)'
  <2>1. InOnePlace(t)
    BY DEF ServiceInv
  <2> QED BY <1>1, <1>4, <2>1 DEF InOnePlace, eventVars
<1> QED BY <1>2, <1>3, <1>5 DEF ServiceInv

LEMMA EndedStep == Ended /\ [Next]_vars => Ended'
<1> SUFFICES ASSUME Ended, [Next]_vars, main' = "exited"
             PROVE  unpublished' = <<>> /\ \A t \in Topics : held'[t] = <<>> /\ queue'[t] = <<>>
  BY DEF Ended
<1>1. CASE Exit \/ Crash
  BY <1>1 DEF Exit, Crash, Dies, Empty
<1>2. CASE NginxDies \/ UNCHANGED vars
  <2>1. UNCHANGED <<main, runnerVars, matcherVars, queue>>
    BY <1>2 DEF NginxDies, vars, procVars
  <2> QED BY <2>1 DEF Ended, runnerVars, matcherVars
<1>3. ~(MainWakes \/ CloseBus \/ Cleanup \/ Restart \/ ApiFails \/ Signal)
  BY DEF MainWakes, CloseBus, Cleanup, Restart, ApiFails, Signal
<1>4. ~(Collect \/ CollectUnacknowledged \/ RunnerSends \/ Published \/ Tick \/ RunnerReturns)
  BY DEF Collect, CollectUnacknowledged, RunnerSends, Publish, PublishFails, Published, Tick, RunnerReturns, Alive, procVars
<1>5. ~(MatcherBoots \/ MatcherReturns \/ \E t \in Topics : Consume(t) \/ Finish(t))
  BY DEF MatcherBoots, MatcherStarts, MatcherFailsToStart, MatcherReturns, Consume, FetchMessage,
         FetchStops, Finish, Handle, HandleFails, Alive, procVars
<1> QED BY <1>1, <1>2, <1>3, <1>4, <1>5 DEF Next, Stops, Fault

LEMMA ServiceStep == ServiceInv /\ Ended /\ [Next]_vars => ServiceInv'
<1> SUFFICES ASSUME ServiceInv, Ended, [Next]_vars PROVE ServiceInv'
  OBVIOUS
<1>1. CASE Collect \/ CollectUnacknowledged \/ RunnerSends \/ Published \/ Tick \/ RunnerReturns
  BY <1>1, RunnerKeeps
<1>2. CASE MatcherBoots \/ MatcherReturns \/ \E t \in Topics : Consume(t) \/ Finish(t)
  BY <1>2, MatcherKeeps
<1>3. CASE Exit \/ Crash
  BY <1>3, DeathKeeps DEF Exit, Crash
<1>4. CASE MainWakes \/ CloseBus \/ Cleanup \/ ApiFails \/ Signal \/ NginxDies \/ UNCHANGED vars
  <2>1. UNCHANGED <<runnerVars, matcherVars, queue, eventVars>>
    BY <1>4 DEF MainWakes, CloseBus, Cleanup, ApiFails, Signal, NginxDies, vars
  <2>2. Resting' /\ DOMAIN consumer' = Topics
    BY <2>1 DEF ServiceInv, Resting, Typed, runnerVars, matcherVars
  <2> QED BY <2>1, <2>2, Unmoved DEF ServiceInv, runnerVars, matcherVars, eventVars
<1>5. CASE Restart
  BY <1>5, RestartKeeps
<1> QED BY <1>1, <1>2, <1>3, <1>4, <1>5 DEF Next, Stops, Fault

-----------------------------------------------------------------------------
\* What the invariant says of a topic is what the property says of it.
LEMMA PlacedMeans ==
    ASSUME NEW t \in Topics, Typed, InOnePlace(t)
    PROVE  /\ handled[t] \cap lost[t] = {}
           /\ (handled[t] \cup lost[t]) \cap Elements(Pipeline(t)) = {}
           /\ handled[t] \cup lost[t] \cup Elements(Pipeline(t)) = 1..stored[t]
           /\ Increasing(Pipeline(t)) /\ Before(handled[t], Elements(Pipeline(t)))
<1>. DEFINE h == held[t]  q == queue[t]  u == InHand(t)  front == h \o q  line == front \o u
<1>1. h \in Seq(Nat) /\ q \in Seq(Nat) /\ u \in Seq(Nat) /\ Pipeline(t) = line
  BY DEF Typed, InHand, Pipeline
<1>2. Placed(h, q, u, handled[t], lost[t], stored[t])
  BY DEF InOnePlace
<1>. HIDE DEF h, q, u
<1>3. /\ front \in Seq(Nat) /\ Elements(front) = Elements(h) \cup Elements(q)
      /\ Increasing(front) <=> Increasing(h) /\ Increasing(q) /\ Before(Elements(h), Elements(q))
  BY <1>1, Concatenation
<1>. HIDE DEF front
<1>4. /\ Elements(line) = Elements(front) \cup Elements(u)
      /\ Increasing(line) <=> Increasing(front) /\ Increasing(u) /\ Before(Elements(front), Elements(u))
  BY <1>1, <1>3, Concatenation
<1>. HIDE DEF line
<1>5. /\ Elements(line) = Elements(h) \cup Elements(q) \cup Elements(u) /\ Increasing(line)
  BY <1>2, <1>3, <1>4 DEF Placed, Before
<1> QED BY <1>1, <1>2, <1>5 DEF Placed

\* Every stored event is handled, given up or waiting, in one place only and
\* in the order of its storage, whatever fails, blocks or is restarted
\* (memory.go and the loops of runner.go and service.go).
THEOREM EventsKeepTheirPlace == Spec => []EachEventInOnePlace
<1>1. ServiceInv => EachEventInOnePlace
  <2> SUFFICES ASSUME ServiceInv, NEW t \in Topics
               PROVE  /\ handled[t] \cap lost[t] = {}
                      /\ (handled[t] \cup lost[t]) \cap Elements(Pipeline(t)) = {}
                      /\ handled[t] \cup lost[t] \cup Elements(Pipeline(t)) = 1..stored[t]
                      /\ \A i, j \in 1..Len(Pipeline(t)) : i < j => Pipeline(t)[i] < Pipeline(t)[j]
                      /\ \A e \in handled[t], i \in 1..Len(Pipeline(t)) : e < Pipeline(t)[i]
    BY DEF EachEventInOnePlace
  <2>1. Increasing(Pipeline(t)) /\ Before(handled[t], Elements(Pipeline(t)))
    BY PlacedMeans DEF ServiceInv
  <2>2. \A e \in handled[t], i \in 1..Len(Pipeline(t)) : e < Pipeline(t)[i]
    BY <2>1 DEF Before, Elements
  <2> QED BY <2>1, <2>2, PlacedMeans DEF ServiceInv, Increasing
<1>2. Init => Ended
  BY DEF Init, Fresh, Ended
<1> QED BY <1>1, <1>2, ServiceInit, ServiceStep, EndedStep, PTL DEF Spec

-----------------------------------------------------------------------------
\* main closes the bus only after it has cancelled the context.
CancelledFirst == main \in {"stopping", "closed"} => cancelled

LEMMA CancelledFirstStep == CancelledFirst /\ [Next]_vars => CancelledFirst'
<1> SUFFICES ASSUME CancelledFirst, [Next]_vars PROVE CancelledFirst'
  OBVIOUS
<1>1. CASE \/ Collect \/ CollectUnacknowledged \/ RunnerSends \/ Published \/ Tick
           \/ RunnerReturns \/ UNCHANGED vars
  <2>1. UNCHANGED <<main, cancelled>>
    BY <1>1 DEF Collect, CollectUnacknowledged, RunnerSends, Publish, PublishFails, Published, Tick, RunnerReturns,
                procVars, vars
  <2> QED BY <2>1 DEF CancelledFirst
<1>2. CASE MatcherBoots \/ MatcherReturns \/ \E t \in Topics : Consume(t) \/ Finish(t)
  <2>1. UNCHANGED <<main, cancelled>>
    BY <1>2 DEF MatcherBoots, MatcherStarts, MatcherFailsToStart, MatcherReturns, Consume,
                FetchMessage, FetchStops, Finish, Handle, HandleFails, procVars
  <2> QED BY <2>1 DEF CancelledFirst
<1>3. CASE MainWakes \/ Stops \/ Cleanup \/ Restart \/ Fault
  BY <1>3 DEF CancelledFirst, MainWakes, Stops, CloseBus, Exit, Dies, Cleanup, Restart, Fault,
              ApiFails, Signal, Crash, NginxDies
<1> QED BY <1>1, <1>2, <1>3 DEF Next

\* What a step gives up of topic t, and the ways in which it may.
Given(t) == lost'[t] \ lost[t]

Working(t) == Elements(held[t]) \cup Elements(queue[t]) \cup Elements(InHand(t))

Failure(t) ==
    \/ cancelled
    \/ main' = "exited"
    \/ consumer[t] = "handling" /\ consumer'[t] = "stopped"

LEMMA PipelineWorks ==
    ASSUME Typed, NEW t \in Topics PROVE Elements(Pipeline(t)) = Working(t)
<1>. DEFINE h == held[t]  q == queue[t]  u == InHand(t)  front == h \o q  line == front \o u
<1>1. h \in Seq(Nat) /\ q \in Seq(Nat) /\ u \in Seq(Nat) /\ Pipeline(t) = line
  BY DEF Typed, InHand, Pipeline
<1>2. Working(t) = Elements(h) \cup Elements(q) \cup Elements(u)
  BY DEF Working
<1>. HIDE DEF h, q, u
<1>3. front \in Seq(Nat) /\ Elements(front) = Elements(h) \cup Elements(q)
  BY <1>1, Concatenation
<1>. HIDE DEF front
<1>4. Elements(line) = Elements(front) \cup Elements(u)
  BY <1>1, <1>3, Concatenation
<1>. HIDE DEF line
<1> QED BY <1>1, <1>2, <1>3, <1>4

\* What a step of the whole service gives up.
GivenUp(t) ==
    /\ Given(t) \subseteq Working(t) \cup ((stored[t] + 1)..stored'[t])
    /\ Given(t) \cap Working(t) # {} => Failure(t)

LEMMA StepGivesUp ==
    ASSUME ServiceInv, CancelledFirst, [Next]_vars, NEW t \in Topics PROVE GivenUp(t)
<1>1. CASE lost' = lost
  BY <1>1 DEF GivenUp, Given
<1>2. CASE PublishFails
  <2>1. /\ cancelled /\ unpublished # <<>> /\ unpublished \in Seq(Nat)
        /\ lost' = [lost EXCEPT ![feed] = @ \cup {Head(unpublished)}] /\ DOMAIN lost = Topics
    BY <1>2 DEF PublishFails, Closed, CancelledFirst, Lose, ServiceInv, Typed
  <2>2. Head(unpublished) \in Elements(unpublished)
    BY <2>1, HeadAndTail
  <2>3. t = feed => Given(t) \subseteq Elements(InHand(t))
    BY <2>1, <2>2 DEF Given, InHand
  <2>4. t # feed => Given(t) = {}
    BY <2>1 DEF Given
  <2> QED BY <2>1, <2>3, <2>4 DEF GivenUp, Working, Failure
<1>3. CASE \E u \in Topics : HandleFails(u)
  <2>1. PICK u \in Topics : HandleFails(u)
    BY <1>3
  <2>2. /\ lost' = [lost EXCEPT ![u] = @ \cup Elements(held[u])] /\ DOMAIN lost = Topics
        /\ consumer[u] = "handling" /\ consumer' = [consumer EXCEPT ![u] = "stopped"]
        /\ DOMAIN consumer = Topics
    BY <2>1 DEF HandleFails, Lose, ServiceInv, Typed
  <2>3. t = u => Given(t) \subseteq Elements(held[t]) /\ Failure(t)
    BY <2>2 DEF Given, Failure
  <2>4. t # u => Given(t) = {}
    BY <2>2 DEF Given
  <2> QED BY <2>3, <2>4 DEF GivenUp, Working
<1>4. CASE Exit \/ Crash
  <2>1. /\ main' = "exited"
        /\ lost'[t] = lost[t] \cup Elements(held[t]) \cup Elements(queue[t])
                       \cup (IF t = feed THEN Elements(unpublished) ELSE {})
    BY <1>4 DEF Exit, Crash, Dies
  <2>2. (IF t = feed THEN Elements(unpublished) ELSE {}) \subseteq Elements(InHand(t))
    BY DEF InHand
  <2>3. Given(t) \subseteq Working(t)
    BY <2>1, <2>2 DEF Given, Working
  <2> QED BY <2>1, <2>3 DEF GivenUp, Failure
<1>5. CASE CollectUnacknowledged
  <2>1. PICK n \in 1..(MaxEvents - stored[feed]) :
          /\ stored' = [stored EXCEPT ![feed] = @ + n]
          /\ lost' = [lost EXCEPT ![feed] = @ \cup ((stored[feed] + 1)..(stored[feed] + n))]
    BY <1>5 DEF CollectUnacknowledged, Lose
  <2>2. DOMAIN lost = Topics /\ DOMAIN stored = Topics /\ stored[t] \in Nat
    BY DEF ServiceInv, Typed
  <2>3. t # feed => Given(t) = {}
    BY <2>1, <2>2 DEF Given
  <2>4. t = feed => Given(t) \subseteq (stored[t] + 1)..stored'[t]
    BY <2>1, <2>2 DEF Given
  <2>5. Working(t) \subseteq 1..stored[t]
    BY DEF ServiceInv, InOnePlace, Placed, Working
  <2>6. ((stored[t] + 1)..stored'[t]) \cap (1..stored[t]) = {}
    BY <2>2
  <2>7. Given(t) \subseteq (stored[t] + 1)..stored'[t]
    BY <2>3, <2>4
  <2>8. Given(t) \cap Working(t) = {}
    BY <2>5, <2>6, <2>7
  <2> QED BY <2>7, <2>8 DEF GivenUp
<1>6. CASE Collect \/ Publish \/ Published \/ Tick \/ RunnerReturns \/ UNCHANGED vars
  BY <1>1, <1>6 DEF Collect, Publish, Published, Tick, RunnerReturns, vars, eventVars
<1>7. CASE MatcherBoots \/ MatcherReturns \/ \E u \in Topics : Consume(u) \/ Handle(u)
  BY <1>1, <1>7 DEF MatcherBoots, MatcherStarts, MatcherFailsToStart, MatcherReturns, Consume,
                    FetchMessage, FetchStops, Handle, eventVars
<1>8. CASE MainWakes \/ CloseBus \/ Cleanup \/ Restart \/ ApiFails \/ Signal \/ NginxDies
  BY <1>1, <1>8 DEF MainWakes, CloseBus, Cleanup, Restart, ApiFails, Signal, NginxDies, eventVars
<1> QED BY <1>2, <1>3, <1>4, <1>5, <1>6, <1>7, <1>8 DEF Next, RunnerSends, Finish, Stops, Fault

\* Nothing that the process holds is given up but under a cancelled context, by
\* the failing consumer of its topic or with the process: a full channel never
\* costs an event (memory.go:52-59).  What else is given up is given up as it is
\* stored, by an insertion whose answer is lost (runner.go:132-136).
THEOREM LossesAreFailures == Spec => LostOnlyByFailure
<1>1. ASSUME ServiceInv, CancelledFirst, [Next]_vars, NEW t \in Topics
      PROVE  /\ Given(t) \subseteq Elements(Pipeline(t)) \cup ((stored[t] + 1)..stored'[t])
             /\ Given(t) \cap Elements(Pipeline(t)) # {} => Failure(t)
  <2>1. GivenUp(t)
    BY <1>1, StepGivesUp
  <2>2. Elements(Pipeline(t)) = Working(t)
    BY <1>1, PipelineWorks DEF ServiceInv
  <2> QED BY <2>1, <2>2 DEF GivenUp
<1>2. ServiceInv /\ CancelledFirst /\ [Next]_vars =>
        [\A t \in Topics :
            LET given == lost'[t] \ lost[t]
            IN  /\ given \subseteq Elements(Pipeline(t)) \cup ((stored[t] + 1)..stored'[t])
                /\ given \cap Elements(Pipeline(t)) # {} =>
                    \/ cancelled
                    \/ main' = "exited"
                    \/ consumer[t] = "handling" /\ consumer'[t] = "stopped"]_vars
  BY <1>1 DEF Given, Failure
<1>3. Init => Ended /\ CancelledFirst
  BY DEF Init, Fresh, Ended, CancelledFirst
<1> QED BY <1>2, <1>3, ServiceInit, ServiceStep, EndedStep, CancelledFirstStep, PTL
        DEF Spec, LostOnlyByFailure
=============================================================================

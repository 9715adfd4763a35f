--------------------------- MODULE PublicService ---------------------------
(***************************************************************************)
(* The single-container deployment of cmd/render: one process runs the     *)
(* API, the ingester's runner and the matcher's two consumers, joined by   *)
(* MemoryBus, a bounded Go channel per topic, instead of Kafka.  The       *)
(* goroutines share one context; the first error that reaches errCh makes  *)
(* main cancel it and return, and entrypoint.sh then ends the container so *)
(* that the platform starts a new one.                                     *)
(*                                                                         *)
(* Events of a topic are numbered in the order PostgreSQL stores them.     *)
(* What Runner and Matcher model in detail (transactions, the engine) is   *)
(* one step here; what they leave out, a bus that blocks its publisher and *)
(* that dies with the process, is this module's subject.                   *)
(***************************************************************************)
EXTENDS Naturals, Sequences, FiniteSets

CONSTANTS
    Capacity,    \* buffer of each channel, 1024 in cmd/render/main.go
    MaxEvents    \* bound on the events ever stored for one topic

ASSUME CapacityAssumption == Capacity \in Nat \ {0}
ASSUME MaxEventsAssumption == MaxEvents \in Nat

TripUpdates == "trip-updates"
VehiclePositions == "vehicle-positions"
Topics == {TripUpdates, VehiclePositions}
Events == 1..MaxEvents

VARIABLES
    main,          \* main's progress: serving, stopping, closed, exited
    cancelled,     \* the shared context is done
    reported,      \* goroutines that have sent to errCh and not been read
    nginx,         \* the reverse proxy beside the process is alive
    runner,        \* the runner's goroutine: collect, publish, wait, returned
    feed,          \* the topic of the feed it is working on
    unpublished,   \* events of that feed it has stored and not yet published
    matcher,       \* Service.Run: starting, running, returned
    consumer,      \* per topic: unborn, fetching, handling, stopped
    held,          \* per topic: the message taken from the channel, if any
    queue,         \* per topic: the buffered channel
    stored,        \* per topic: how many events PostgreSQL holds
    handled,       \* per topic: the events the engine has processed
    lost           \* per topic: stored events that will never be handled

procVars == <<main, cancelled, reported, nginx>>
runnerVars == <<runner, feed, unpublished>>
matcherVars == <<matcher, consumer, held>>
eventVars == <<stored, handled, lost>>
vars == <<procVars, runnerVars, matcherVars, queue, eventVars>>

TypeOK ==
    /\ main \in {"serving", "stopping", "closed", "exited"}
    /\ cancelled \in BOOLEAN
    /\ reported \subseteq {"api", "runner", "matcher"}
    /\ nginx \in BOOLEAN
    /\ runner \in {"collect", "publish", "wait", "returned"}
    /\ feed \in Topics
    /\ unpublished \in Seq(Events)
    /\ matcher \in {"starting", "running", "returned"}
    /\ consumer \in [Topics -> {"unborn", "fetching", "handling", "stopped"}]
    /\ held \in [Topics -> Seq(Events)]
    /\ queue \in [Topics -> Seq(Events)]
    /\ \A t \in Topics : Len(queue[t]) =< Capacity
    /\ stored \in [Topics -> 0..MaxEvents]
    /\ handled \in [Topics -> SUBSET Events]
    /\ lost \in [Topics -> SUBSET Events]

Empty == [t \in Topics |-> <<>>]

\* A process that has just started: everything in memory is fresh.
Fresh ==
    /\ main = "serving"
    /\ cancelled = FALSE
    /\ reported = {}
    /\ nginx = TRUE
    /\ runner = "collect"
    /\ feed = TripUpdates
    /\ unpublished = <<>>
    /\ matcher = "starting"
    /\ consumer = [t \in Topics |-> "unborn"]
    /\ held = Empty
    /\ queue = Empty

Init ==
    /\ Fresh
    /\ stored = [t \in Topics |-> 0]
    /\ handled = [t \in Topics |-> {}]
    /\ lost = [t \in Topics |-> {}]

Alive == main # "exited"

\* The bus is closed by a deferred call, once main has stopped serving.
Closed == main = "closed"

\* The consumers' context ends with the shared one, or when Run returns.
ConsumersCancelled == cancelled \/ matcher = "returned"

Elements(s) == {s[i] : i \in 1..Len(s)}

Lose(t, es) == lost' = [lost EXCEPT ![t] = @ \cup es]

-----------------------------------------------------------------------------
(* The runner.                                                             *)

\* Fetch, InsertSnapshot and InsertEvents of one feed.  A snapshot already
\* stored, or a failure that stores nothing, leaves nothing to publish; after
\* cancellation every statement fails.
Collect ==
    /\ Alive
    /\ runner = "collect"
    /\ \E n \in 0..(MaxEvents - stored[feed]) :
        /\ cancelled => n = 0
        /\ stored' = [stored EXCEPT ![feed] = @ + n]
        /\ unpublished' = [i \in 1..n |-> stored[feed] + i]
    /\ runner' = "publish"
    /\ UNCHANGED <<procVars, feed, matcherVars, queue, handled, lost>>

\* InsertEvents commits but its answer is lost, to a broken connection or to a
\* context that ends during the commit: the runner takes the error for a
\* failure and goes on, so that nothing it has stored here is ever published.
CollectUnacknowledged ==
    /\ Alive
    /\ runner = "collect"
    /\ \E n \in 1..(MaxEvents - stored[feed]) :
        /\ stored' = [stored EXCEPT ![feed] = @ + n]
        /\ Lose(feed, (stored[feed] + 1)..(stored[feed] + n))
    /\ runner' = "publish"
    /\ UNCHANGED <<procVars, feed, unpublished, matcherVars, queue, handled>>

\* Mutant: a send with a default branch drops the event when the buffer is full.
PublishDropsWhenFull ==
    /\ Alive
    /\ runner = "publish"
    /\ unpublished # <<>>
    /\ unpublished' = Tail(unpublished)
    /\ \/ /\ Len(queue[feed]) < Capacity
          /\ queue' = [queue EXCEPT ![feed] = Append(@, Head(unpublished))]
          /\ UNCHANGED lost
       \/ /\ Len(queue[feed]) = Capacity
          /\ Lose(feed, {Head(unpublished)})
          /\ UNCHANGED queue
    /\ UNCHANGED <<procVars, runner, feed, matcherVars, stored, handled>>

\* MemoryBus.Publish: the send blocks while the buffer is full.
Publish ==
    /\ Alive
    /\ runner = "publish"
    /\ unpublished # <<>>
    /\ Len(queue[feed]) < Capacity
    /\ queue' = [queue EXCEPT ![feed] = Append(@, Head(unpublished))]
    /\ unpublished' = Tail(unpublished)
    /\ UNCHANGED <<procVars, runner, feed, matcherVars, eventVars>>

\* A closed bus or a cancelled context ends the wait; the runner logs the
\* error and goes on with the next event.
PublishFails ==
    /\ Alive
    /\ runner = "publish"
    /\ unpublished # <<>>
    /\ cancelled \/ Closed
    /\ Lose(feed, {Head(unpublished)})
    /\ unpublished' = Tail(unpublished)
    /\ UNCHANGED <<procVars, runner, feed, matcherVars, queue, stored, handled>>

\* collectOnce goes on with the second feed, or returns to Run's select.
Published ==
    /\ Alive
    /\ runner = "publish"
    /\ unpublished = <<>>
    /\ \/ /\ feed = TripUpdates
          /\ feed' = VehiclePositions
          /\ runner' = "collect"
       \/ /\ feed = VehiclePositions
          /\ feed' = TripUpdates
          /\ runner' = "wait"
    /\ UNCHANGED <<procVars, unpublished, matcherVars, queue, eventVars>>

Tick ==
    /\ Alive
    /\ runner = "wait"
    /\ runner' = "collect"
    /\ UNCHANGED <<procVars, feed, unpublished, matcherVars, queue, eventVars>>

RunnerReturns ==
    /\ Alive
    /\ runner = "wait"
    /\ cancelled
    /\ runner' = "returned"
    /\ reported' = reported \cup {"runner"}
    /\ UNCHANGED <<main, cancelled, nginx, feed, unpublished, matcherVars, queue, eventVars>>

-----------------------------------------------------------------------------
(* The matcher.                                                            *)

\* Run has loaded the stops and pinged the database: one goroutine per reader.
MatcherStarts ==
    /\ Alive
    /\ matcher = "starting"
    /\ matcher' = "running"
    /\ consumer' = [t \in Topics |-> "fetching"]
    /\ UNCHANGED <<procVars, runnerVars, held, queue, eventVars>>

\* The stops or the ping fail: Run returns before any consumer exists.
MatcherFailsToStart ==
    /\ Alive
    /\ matcher = "starting"
    /\ matcher' = "returned"
    /\ reported' = reported \cup {"matcher"}
    /\ UNCHANGED <<main, cancelled, nginx, runnerVars, consumer, held, queue, eventVars>>

\* memoryReader.FetchMessage: the message leaves the channel for good, since
\* CommitMessages does nothing.  The select may still choose it when the
\* context is done.
FetchMessage(t) ==
    /\ Alive
    /\ consumer[t] = "fetching"
    /\ queue[t] # <<>>
    /\ held' = [held EXCEPT ![t] = <<Head(queue[t])>>]
    /\ queue' = [queue EXCEPT ![t] = Tail(@)]
    /\ consumer' = [consumer EXCEPT ![t] = "handling"]
    /\ UNCHANGED <<procVars, runnerVars, matcher, eventVars>>

FetchStops(t) ==
    /\ Alive
    /\ consumer[t] = "fetching"
    /\ ConsumersCancelled \/ Closed
    /\ consumer' = [consumer EXCEPT ![t] = "stopped"]
    /\ UNCHANGED <<procVars, runnerVars, matcher, held, queue, eventVars>>

\* HandleEvent and the insertion of its arrivals.
Handle(t) ==
    /\ Alive
    /\ consumer[t] = "handling"
    /\ handled' = [handled EXCEPT ![t] = @ \cup Elements(held[t])]
    /\ held' = [held EXCEPT ![t] = <<>>]
    /\ consumer' = [consumer EXCEPT ![t] = "fetching"]
    /\ UNCHANGED <<procVars, runnerVars, matcher, queue, stored, lost>>

\* InsertArrival fails: the goroutine returns the error and the message is gone.
HandleFails(t) ==
    /\ Alive
    /\ consumer[t] = "handling"
    /\ Lose(t, Elements(held[t]))
    /\ held' = [held EXCEPT ![t] = <<>>]
    /\ consumer' = [consumer EXCEPT ![t] = "stopped"]
    /\ UNCHANGED <<procVars, runnerVars, matcher, queue, stored, handled>>

\* Mutant: Run waits for every consumer instead of the first.
MatcherWaitsForAll ==
    /\ Alive
    /\ matcher = "running"
    /\ \A t \in Topics : consumer[t] = "stopped"
    /\ matcher' = "returned"
    /\ reported' = reported \cup {"matcher"}
    /\ UNCHANGED <<main, cancelled, nginx, runnerVars, consumer, held, queue, eventVars>>

\* Run returns with the first consumer's result, or when the context is done.
MatcherReturns ==
    /\ Alive
    /\ matcher = "running"
    /\ cancelled \/ \E t \in Topics : consumer[t] = "stopped"
    /\ matcher' = "returned"
    /\ reported' = reported \cup {"matcher"}
    /\ UNCHANGED <<main, cancelled, nginx, runnerVars, consumer, held, queue, eventVars>>

-----------------------------------------------------------------------------
(* main and the container around it.                                       *)

\* ListenAndServe fails, on a port in use or an accept error.
ApiFails ==
    /\ main = "serving"
    /\ reported' = reported \cup {"api"}
    /\ UNCHANGED <<main, cancelled, nginx, runnerVars, matcherVars, queue, eventVars>>

\* A stop signal cancels the context that NotifyContext made.
Signal ==
    /\ main = "serving"
    /\ cancelled' = TRUE
    /\ UNCHANGED <<main, reported, nginx, runnerVars, matcherVars, queue, eventVars>>

\* Mutant: main listens to its signals only.
MainIgnoresErrors ==
    /\ main = "serving"
    /\ cancelled
    /\ main' = "stopping"
    /\ cancelled' = TRUE
    /\ UNCHANGED <<reported, nginx, runnerVars, matcherVars, queue, eventVars>>

\* main's select: a goroutine has reported, or the context is done.
MainWakes ==
    /\ main = "serving"
    /\ cancelled \/ reported # {}
    /\ main' = "stopping"
    /\ cancelled' = TRUE
    /\ UNCHANGED <<reported, nginx, runnerVars, matcherVars, queue, eventVars>>

\* The API's bounded shutdown, matcherService.Close, then the deferred Close.
CloseBus ==
    /\ main = "stopping"
    /\ main' = "closed"
    /\ UNCHANGED <<cancelled, reported, nginx, runnerVars, matcherVars, queue, eventVars>>

\* What only the process's memory held is gone.
Dies ==
    /\ main' = "exited"
    /\ lost' = [t \in Topics |-> lost[t] \cup Elements(held[t]) \cup Elements(queue[t])
                                  \cup (IF t = feed THEN Elements(unpublished) ELSE {})]
    /\ unpublished' = <<>>
    /\ held' = Empty
    /\ queue' = Empty
    /\ UNCHANGED <<cancelled, reported, nginx, runner, feed, matcher, consumer, stored, handled>>

\* main returns without waiting for the goroutines.
Exit == main = "closed" /\ Dies

\* The process is killed outright: out of memory, or the container is.
Crash == Alive /\ Dies

NginxDies ==
    /\ nginx
    /\ nginx' = FALSE
    /\ UNCHANGED <<main, cancelled, reported, runnerVars, matcherVars, queue, eventVars>>

\* entrypoint.sh has seen nginx dead: its trap sends the process a TERM.
Cleanup ==
    /\ ~nginx
    /\ Signal

\* Mutant: a restarted process queues the events it finds stored but unprocessed,
\* the given-up ones included.
RestartReplays ==
    /\ main = "exited"
    /\ main' = "serving"
    /\ cancelled' = FALSE
    /\ reported' = {}
    /\ nginx' = TRUE
    /\ runner' = "publish"
    /\ feed' = TripUpdates
    /\ unpublished' = [i \in 1..stored[TripUpdates] |-> i]
    /\ matcher' = "starting"
    /\ consumer' = [t \in Topics |-> "unborn"]
    /\ held' = Empty
    /\ queue' = Empty
    /\ UNCHANGED eventVars

\* entrypoint.sh has exited with status 1 and the platform starts a new
\* container.  What PostgreSQL already holds is not collected again.
Restart ==
    /\ main = "exited"
    /\ main' = "serving"
    /\ cancelled' = FALSE
    /\ reported' = {}
    /\ nginx' = TRUE
    /\ runner' = "collect"
    /\ feed' = TripUpdates
    /\ unpublished' = <<>>
    /\ matcher' = "starting"
    /\ consumer' = [t \in Topics |-> "unborn"]
    /\ held' = Empty
    /\ queue' = Empty
    /\ UNCHANGED eventVars

-----------------------------------------------------------------------------
RunnerSends == Publish \/ PublishFails
Consume(t) == FetchMessage(t) \/ FetchStops(t)
Finish(t) == Handle(t) \/ HandleFails(t)
MatcherBoots == MatcherStarts \/ MatcherFailsToStart
Stops == CloseBus \/ Exit
Fault == ApiFails \/ Signal \/ Crash \/ NginxDies

Next ==
    \/ Collect \/ CollectUnacknowledged \/ RunnerSends \/ Published \/ Tick \/ RunnerReturns
    \/ MatcherBoots \/ MatcherReturns
    \/ \E t \in Topics : Consume(t) \/ Finish(t)
    \/ MainWakes \/ Stops \/ Cleanup \/ Restart
    \/ Fault

\* The Go scheduler runs every goroutine that can step; the platform restarts
\* the container.  No failure is ever assumed to happen.
Fairness ==
    /\ WF_vars(Collect) /\ WF_vars(RunnerSends) /\ WF_vars(Published) /\ WF_vars(Tick)
    /\ WF_vars(MatcherBoots) /\ WF_vars(MatcherReturns)
    /\ \A t \in Topics : WF_vars(Consume(t)) /\ WF_vars(Finish(t))
    /\ WF_vars(MainWakes) /\ WF_vars(Stops) /\ WF_vars(Cleanup) /\ WF_vars(Restart)

Spec == Init /\ [][Next]_vars
FairSpec == Spec /\ Fairness

-----------------------------------------------------------------------------
(* Properties.                                                             *)

\* What the process still has to work through for topic t, oldest first.
Pipeline(t) ==
    held[t] \o queue[t] \o (IF t = feed THEN unpublished ELSE <<>>)

\* Every stored event is in exactly one place: processed, given up, or in the
\* pipeline; and the pipeline keeps the order in which PostgreSQL stored them,
\* after everything already processed.  A full channel, two consumers, a
\* cancelled send and a restart neither duplicate, drop nor overtake an event
\* (memory.go Publish and FetchMessage, with the runner's loop).
EachEventInOnePlace ==
    \A t \in Topics :
        /\ handled[t] \cap lost[t] = {}
        /\ (handled[t] \cup lost[t]) \cap Elements(Pipeline(t)) = {}
        /\ handled[t] \cup lost[t] \cup Elements(Pipeline(t)) = 1..stored[t]
        /\ \A i, j \in 1..Len(Pipeline(t)) : i < j => Pipeline(t)[i] < Pipeline(t)[j]
        /\ \A e \in handled[t], i \in 1..Len(Pipeline(t)) : e < Pipeline(t)[i]

\* A full channel never costs an event.  One that the process holds, wherever
\* in the pipeline, is given up only in a step of a process whose context is
\* already done, by the failing consumer of its topic, or with the process
\* (memory.go:52-59, a send that blocks and does not drop).  Any other event
\* that is given up is given up as it is stored, by an insertion of which the
\* runner hears only the error (runner.go:132-136): it was never in the pipeline.
LostOnlyByFailure ==
    [][\A t \in Topics :
        LET given == lost'[t] \ lost[t]
        IN  /\ given \subseteq Elements(Pipeline(t)) \cup ((stored[t] + 1)..stored'[t])
            /\ given \cap Elements(Pipeline(t)) # {} =>
                \/ cancelled
                \/ main' = "exited"
                \/ consumer[t] = "handling" /\ consumer'[t] = "stopped"]_vars

\* A consumer that stops takes the whole process down, even while the runner
\* is blocked on a full channel and the other consumer waits on an empty one
\* (service.go:84-91, cmd/render/main.go:67-77).  A demo that stays up with a
\* dead matcher would look healthy and match nothing.
FailureEndsProcess ==
    (\E t \in Topics : consumer[t] = "stopped") ~> (main = "exited")

\* The runner never stays blocked on a full channel: the consumer drains it or
\* the cancelled context releases the send.
BackpressureResolves ==
    (runner = "publish" /\ unpublished # <<>>) ~> (unpublished = <<>>)
=============================================================================

--------------------------------- MODULE Api ---------------------------------
(***************************************************************************)
(* The GraphQL API: which requests reach it, how its resolvers bound the   *)
(* lists they return, and the quality summary that it computes from the    *)
(* prediction errors.  One error is the route, the two times and the       *)
(* difference; a mean is kept as a total and a count, and the rate of      *)
(* arrivals on time, summed in the same way, is left out.                  *)
(***************************************************************************)
EXTENDS Integers, Sequences, FiniteSetsExt

CONSTANTS
    Host,            \* the host name the API is reached by
    AllowedOrigins,  \* API_ALLOWED_ORIGINS
    DefaultLimit,    \* rows of a summary when no limit is asked for (100)
    MaxLimit,        \* the most rows a list may have (500)
    MaxHorizon,      \* the longest horizon that is told apart (3600 s)
    Errors           \* prediction_error joined to prediction, oldest first

Error == [route : Nat, recorded : Nat, predicted : Nat, error : Int]

ASSUME ApiAssumption ==
    /\ MaxLimit \in Nat /\ DefaultLimit \in 1..MaxLimit
    /\ MaxHorizon \in Nat
    /\ Errors \in Seq(Error)

\* An optional value is a set of at most one element.
None == {}

-----------------------------------------------------------------------------
\* allowedOrigin
AllowedOrigin(request) ==
    \A o \in request.origin : o.host = Host \/ o \in AllowedOrigins

\* What /query does with a request: only "served" ones reach a resolver.
Handle(request) ==
    IF ~AllowedOrigin(request) THEN "forbidden"
    ELSE IF request.method = "OPTIONS" THEN "no content"
    ELSE IF request.method # "POST" THEN "method not allowed"
    ELSE IF request.carriesKey THEN "bad request"
    ELSE "served"

-----------------------------------------------------------------------------
\* The resolver's bound on a list, and whether it answers at all.
LimitAccepted(asked) == \A n \in asked : n >= 0

Limit(asked) ==
    IF asked = None THEN DefaultLimit
    ELSE Min({MaxLimit, CHOOSE n \in asked : TRUE})

\* The repository's own bound.
RepositoryLimit(n) == IF n =< 0 THEN DefaultLimit ELSE Min({MaxLimit, n})

\* GREATEST(0, LEAST(3600, predicted_at - recorded_at))
Horizon(e) == Max({0, Min({MaxHorizon, e.predicted - e.recorded})})

\* The n oldest errors of a route and a horizon.
Sample(n, route, horizon) ==
    {k \in 1..n : Errors[k].route = route /\ Horizon(Errors[k]) = horizon}

Total(sample) == MapThenSumSet(LAMBDA k : Errors[k].error, sample)

\* GROUP BY route and horizon
Groups(n) ==
    {LET sample == Sample(n, key[1], key[2])
     IN  [route |-> key[1], horizon |-> key[2],
          count |-> Cardinality(sample), total |-> Total(sample)] :
     key \in {<<Errors[k].route, Horizon(Errors[k])>> : k \in 1..n}}

\* Mutant: the routes come first.
RouteFirst(g, h) ==
    g.route < h.route \/ (g.route = h.route /\ g.horizon < h.horizon)

\* ORDER BY horizon, route
Precedes(g, h) ==
    g.horizon < h.horizon \/ (g.horizon = h.horizon /\ g.route < h.route)

\* The first n of some rows in that order (LIMIT, and a slice of the answer).
First(rows, n) == {g \in rows : Cardinality({h \in rows : Precedes(h, g)}) < n}

\* The repository's ErrorSummary over the n oldest errors, as a set: the page
\* regroups the rows, so that their order matters to the limits only.
SummaryRows(n, limit) == First(Groups(n), RepositoryLimit(limit))

\* The resolver's: a limit of zero asks the repository for its default.
ErrorSummary(n, asked) == First(SummaryRows(n, Limit(asked)), Limit(asked))
=============================================================================

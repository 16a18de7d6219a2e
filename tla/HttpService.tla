------------------------------ MODULE HttpService ------------------------------
(***************************************************************************)
(* What surrounds the requests of one application process: the middleware  *)
(* that correlates, measures and logs each of them (app/observability),    *)
(* the replies of the routes and of the exception handlers (app/api), and  *)
(* what a scrape of the metrics shows.  Requests are tasks of one event    *)
(* loop; what a step does lies between two suspensions of its task.  The   *)
(* services behind the routes are modelled elsewhere: here they answer,    *)
(* refuse, fail or are cancelled.                                          *)
(***************************************************************************)
EXTENDS Naturals, Sequences, FiniteSets

CONSTANTS
    MaxRequests,   \* requests are numbered in the order of their arrival
    TargetsOf,     \* what each may be for: pairs of a method and an endpoint
    HeaderOf,      \* what the client of each request sends as X-Request-ID
    SafeHeaders,   \* the headers that match the pattern of a request id
    MaxRouteKeys,  \* max_route_keys
    Buckets,       \* upper bounds of the duration buckets
    DurationOf,    \* how long each request takes
    Nothing

\* A fresh id is drawn at random, and no client sends it; routes begin with a slash.
ASSUME HttpAssumption ==
    /\ MaxRequests \in Nat
    /\ MaxRouteKeys \in Nat \ {0}
    /\ Buckets \in Seq(Nat)
    /\ \A i, j \in DOMAIN Buckets : i < j => Buckets[i] < Buckets[j]
    /\ \A r \in 1..MaxRequests :
          /\ DurationOf[r] \in Nat
          /\ <<"req", r>> \notin SafeHeaders
          /\ \A target \in TargetsOf[r] : target[2] # "__overflow__"

VARIABLES
    request,    \* what each request has gone through
    metrics,    \* HttpMetricsRegistry
    installed   \* whether a lifespan has put the components into application.state

httpVars == <<request, metrics, installed>>

Arrivals == 1..MaxRequests

-----------------------------------------------------------------------------
(* Routes.  "nowhere" stands for every path no route matches.              *)
Services == {"messages", "sessions", "answers", "research"}
StatusEndpoints == {"cache", "provider"}
Excluded == {"live", "ready", "metrics", "observability", "security"}
KnownMethods == {"DELETE", "GET", "HEAD", "OPTIONS", "PATCH", "POST", "PUT"}
OwnMethods(endpoint) ==
    IF endpoint = "sessions" THEN {"GET", "DELETE"}
    ELSE IF endpoint \in Services THEN {"POST"} ELSE {"GET"}

IsMeasured(target) == target[2] \notin Excluded
RouteTemplate(endpoint) == IF endpoint = "nowhere" THEN "__unmatched__" ELSE endpoint
NormalMethod(method) == IF method \in KnownMethods THEN method ELSE "OTHER"
NormalKey(target) == <<NormalMethod(target[1]), RouteTemplate(target[2])>>

StatusClasses == {"2xx", "4xx", "5xx"}
StatusClass(status) == IF status < 300 THEN "2xx" ELSE IF status < 500 THEN "4xx" ELSE "5xx"

\* An accepted header or a fresh id; each request draws its own.
SelectRequestId(r) == IF HeaderOf[r] \in SafeHeaders THEN HeaderOf[r] ELSE <<"req", r>>

-----------------------------------------------------------------------------
(* The registry.                                                           *)
NoMetrics == [inFlight |-> 0, peak |-> 0, total |-> 0, overflow |-> 0, errors |-> 0,
              normal |-> {}, routes |-> <<>>]

RequestStarted(m) ==
    [m EXCEPT !.inFlight = @ + 1,
              !.peak = IF m.inFlight + 1 > @ THEN m.inFlight + 1 ELSE @]

NoRequests == [requests |-> 0, statuses |-> [c \in StatusClasses |-> 0],
               within |-> [i \in DOMAIN Buckets |-> 0], sum |-> 0, longest |-> 0]

\* A key beyond the limit is counted under its method's overflow label.
RouteLabel(m, key) ==
    IF key \notin m.normal /\ Cardinality(m.normal) >= MaxRouteKeys
    THEN <<key[1], "__overflow__">> ELSE key

Counted(route, status, duration) ==
    [requests |-> route.requests + 1,
     statuses |-> [route.statuses EXCEPT ![StatusClass(status)] = @ + 1],
     within |-> [i \in DOMAIN Buckets |->
                   route.within[i] + (IF duration <= Buckets[i] THEN 1 ELSE 0)],
     sum |-> route.sum + duration,
     longest |-> IF duration > route.longest THEN duration ELSE route.longest]

RequestFinished(m, key, status, duration) ==
    LET label == RouteLabel(m, key)
        before == IF label \in DOMAIN m.routes THEN m.routes[label] ELSE NoRequests
    IN  [inFlight |-> IF m.inFlight > 0 THEN m.inFlight - 1 ELSE 0,
         peak |-> m.peak,
         total |-> m.total + 1,
         overflow |-> m.overflow + (IF label = key THEN 0 ELSE 1),
         errors |-> m.errors + (IF m.inFlight > 0 THEN 0 ELSE 1),
         normal |-> IF label = key THEN m.normal \cup {key} ELSE m.normal,
         routes |-> [k \in DOMAIN m.routes \cup {label} |->
                       IF k = label THEN Counted(before, status, duration) ELSE m.routes[k]]]

\* What the status endpoint returns of each route, and what the text format adds:
\* a bucket without bound, which holds all requests.
Snapshot(m) ==
    [inFlight |-> m.inFlight, peak |-> m.peak, total |-> m.total,
     tracked |-> Cardinality(m.normal), overflow |-> m.overflow, errors |-> m.errors,
     series |-> [k \in DOMAIN m.routes |->
                   [statuses |-> m.routes[k].statuses, within |-> m.routes[k].within,
                    sum |-> m.routes[k].sum, count |-> m.routes[k].requests]]]

Rendered(snapshot) ==
    LET WithAll(series) ==
            [series EXCEPT !.within = Append(series.within, series.count)]
    IN  [snapshot EXCEPT !.series =
            [k \in DOMAIN snapshot.series |-> WithAll(snapshot.series[k])]]

-----------------------------------------------------------------------------
(* One request: the header it carries gives it an id, which the task's     *)
(* context and request.state hold until the middleware leaves.             *)
NoReply == [status |-> 0, id |-> Nothing, body |-> Nothing]
Outside == [phase |-> "outside", target |-> Nothing, id |-> Nothing,
            context |-> Nothing, status |-> 0, reply |-> NoReply,
            shown |-> Nothing, logs |-> {}]

Event(name, id) == [name |-> name, id |-> id]

Outcome(status) ==
    IF status >= 500 THEN "server_error" ELSE IF status >= 400 THEN "client_error" ELSE "success"

\* RuntimeObservabilityMiddleware.__call__ up to its call of the application.
Enters(r, target) ==
    /\ request[r].phase = "outside"
    /\ \A s \in 1..(r - 1) : request[s].phase # "outside"
    /\ LET id == SelectRequestId(r) IN
       request' = [request EXCEPT ![r] =
                     [request[r] EXCEPT !.phase = "handling", !.target = target,
                                        !.id = id, !.context = id]]
    /\ metrics' = IF IsMeasured(target) THEN RequestStarted(metrics) ELSE metrics
    /\ UNCHANGED installed

\* The clause that always runs: count, log, and give the context back.
Leaves(r, row, phase, status) ==
    /\ request' = [request EXCEPT ![r] =
          [row EXCEPT !.phase = phase, !.status = status, !.context = Nothing,
                      !.logs = row.logs \cup {Event(Outcome(status), row.id)}]]
    /\ metrics' = IF IsMeasured(row.target)
                  THEN RequestFinished(metrics, NormalKey(row.target), status, DurationOf[r])
                  ELSE metrics
    /\ UNCHANGED installed

-----------------------------------------------------------------------------
(* What the routes reply.                                                  *)

\* A body that is not valid is refused before the dependency is asked for; a service
\* answers, or one of its refusals is mapped by an exception handler.
ServiceStatuses == IF installed THEN {200, 400, 422, 503} ELSE {422}

\* A route needs its component: without it the dependency raises.
ServiceMayRaise(target) == target[2] \in Services /\ target[1] \in OwnMethods(target[2])

ComponentStatuses == IF installed THEN {200} ELSE {503}

\* The probes of the database and of the vector index may fail.
ReadinessStatuses == IF installed THEN {200, 503} ELSE {503}

Statuses(target) ==
    IF target[2] = "nowhere" THEN {404}
    ELSE IF target[1] \notin OwnMethods(target[2]) THEN {405}
    ELSE IF target[2] \in Services THEN ServiceStatuses
    ELSE IF target[2] \in StatusEndpoints THEN ComponentStatuses
    ELSE IF target[2] = "ready" THEN ReadinessStatuses
    ELSE {200}

\* The refusal of an instructing message names the id of its request.
ReplyBody(row, status) == IF row.target[2] \in Services /\ status = 400 THEN row.id ELSE Nothing

\* prompt_injection_blocked_response logs with the id of the request; the other
\* handlers log what the context holds.
HandlerLogs(row, status) ==
    IF row.target[2] \in Services /\ status = 400
    THEN {{Event("prompt_injection_blocked", row.id)}}
    ELSE IF row.target[2] = "ready" /\ installed /\ status = 503
    THEN {{Event("readiness_probe_failed", row.context)}}
    ELSE IF row.target[2] = "metrics" /\ installed
    THEN {{}, {Event("provider_metrics_snapshot_failed", row.context)}}
    ELSE {{}}

Shows(row) ==
    IF row.target[1] \notin OwnMethods(row.target[2]) THEN Nothing
    ELSE IF row.target[2] = "observability" THEN Snapshot(metrics)
    ELSE IF row.target[2] = "metrics" THEN Rendered(Snapshot(metrics))
    ELSE Nothing

\* send_with_request_id passes the start of a reply on.
StartsReply(r, status, lines) ==
    /\ request[r].phase = "handling"
    /\ LET row == request[r] IN
       request' = [request EXCEPT ![r] =
          [row EXCEPT !.phase = "replying", !.status = status,
                      !.reply = [status |-> status, id |-> row.id,
                                 body |-> ReplyBody(row, status)],
                      !.shown = Shows(row), !.logs = row.logs \cup lines]]
    /\ UNCHANGED <<metrics, installed>>

EndsReply(r) ==
    /\ request[r].phase = "replying"
    /\ Leaves(r, request[r], "done", request[r].status)

\* An exception no handler knows leaves the middleware before anything is replied.
Raises(r) ==
    /\ request[r].phase = "handling"
    /\ ServiceMayRaise(request[r].target)
    /\ Leaves(r, request[r], "raised", 500)

\* Mutant: the error handler asks the context for the id.
RepliesToErrorFromContext(r) ==
    /\ request[r].phase = "raised"
    /\ LET row == request[r]
           id == row.context
       IN  request' = [request EXCEPT ![r] =
              [row EXCEPT !.phase = "done", !.reply = [status |-> 500, id |-> id, body |-> id],
                          !.logs = row.logs \cup {Event("unhandled_application_error", id)}]]
    /\ UNCHANGED <<metrics, installed>>

\* unhandled_application_error_response runs outside of the middleware.
RepliesToError(r) ==
    /\ request[r].phase = "raised"
    /\ LET row == request[r]
           id == row.id
       IN  request' = [request EXCEPT ![r] =
              [row EXCEPT !.phase = "done", !.reply = [status |-> 500, id |-> id, body |-> id],
                          !.logs = row.logs \cup {Event("unhandled_application_error", id)}]]
    /\ UNCHANGED <<metrics, installed>>

\* The server cancels the task, before or after the start of the reply.
IsCancelled(r) ==
    /\ request[r].phase \in {"handling", "replying"}
    /\ Leaves(r, request[r], "done", 499)

-----------------------------------------------------------------------------
HttpInit ==
    /\ request = [r \in Arrivals |-> Outside]
    /\ metrics = NoMetrics
    /\ installed \in BOOLEAN

HttpNext ==
    \E r \in Arrivals :
       \/ \E target \in TargetsOf[r] : Enters(r, target)
       \/ /\ request[r].phase = "handling"
          /\ \E status \in Statuses(request[r].target) :
             \E lines \in HandlerLogs(request[r], status) : StartsReply(r, status, lines)
       \/ EndsReply(r)
       \/ Raises(r)
       \/ RepliesToError(r)
       \/ IsCancelled(r)

-----------------------------------------------------------------------------
Inside(r) == request[r].phase \in {"handling", "replying"}
Finished(r) == request[r].phase \in {"raised", "done"}
MeasuredRequests == {r \in Arrivals : request[r].phase # "outside" /\ IsMeasured(request[r].target)}
FinishedWith(key) ==
    {r \in MeasuredRequests : Finished(r) /\ NormalKey(request[r].target) = key}

\* The requests of a route with a label of its own, by status and by duration.
RouteIsConserved(key) ==
    LET route == metrics.routes[key] IN
    /\ route.requests = Cardinality(FinishedWith(key))
    /\ \A c \in StatusClasses :
          route.statuses[c] =
          Cardinality({r \in FinishedWith(key) : StatusClass(request[r].status) = c})
    /\ \A i \in DOMAIN Buckets :
          route.within[i] = Cardinality({r \in FinishedWith(key) : DurationOf[r] <= Buckets[i]})

\* The counters agree with the requests that caused them, however those interleaved,
\* failed or were cancelled: who is inside is in flight, every route that has a label
\* of its own counts all its requests, the others are in the overflow, and the labels
\* are bounded (request_started, request_finished).
MetricsAreConserved ==
    /\ metrics.inFlight = Cardinality({r \in MeasuredRequests : Inside(r)})
    /\ metrics.inFlight <= metrics.peak /\ metrics.peak <= Cardinality(MeasuredRequests)
    /\ metrics.total = Cardinality({r \in MeasuredRequests : Finished(r)})
    /\ metrics.overflow = Cardinality({r \in MeasuredRequests :
                             Finished(r) /\ NormalKey(request[r].target) \notin metrics.normal})
    /\ metrics.errors = 0
    /\ Cardinality(metrics.normal) <= MaxRouteKeys
    /\ \A key \in metrics.normal : RouteIsConserved(key)

\* A client, the log and the body of a refusal name one request by one id, also when
\* the reply is written outside of the middleware, after the context was given back;
\* ids that were not sent by a client are unique; and what is counted is what the
\* client got, unless the request was cancelled (docs/runtime_observability.md).
RequestsAreCorrelated ==
    \A r \in Arrivals : LET row == request[r] IN
       /\ row.reply # NoReply => row.reply.id = row.id /\ row.reply.body \in {Nothing, row.id}
       /\ \A line \in row.logs : line.id = row.id
       /\ Finished(r) => Event(Outcome(row.status), row.id) \in row.logs
       /\ row.phase = "done" /\ row.status # 499 => row.reply.status = row.status
       /\ \A s \in Arrivals \ {r} : row.id # Nothing /\ row.id = request[s].id =>
                                       HeaderOf[r] = HeaderOf[s] /\ HeaderOf[r] \in SafeHeaders

\* The requests of all series, each with its series.
RequestsOf(series) == UNION {{k} \X (1..series[k].count) : k \in DOMAIN series}

\* Every scrape adds up: the requests of all series are the total, the statuses of a
\* series are its requests, and a histogram never falls and ends with all of them.
ScrapesAddUp ==
    \A r \in Arrivals : request[r].shown # Nothing =>
       LET shown == request[r].shown IN
       /\ shown.total = Cardinality(RequestsOf(shown.series))
       /\ \A k \in DOMAIN shown.series :
             LET series == shown.series[k] IN
             /\ series.count
                   = series.statuses["2xx"] + series.statuses["4xx"] + series.statuses["5xx"]
             /\ \A i, j \in DOMAIN series.within : i < j => series.within[i] <= series.within[j]
             /\ \A i \in DOMAIN series.within : series.within[i] <= series.count

RequestsAreAccounted == MetricsAreConserved /\ RequestsAreCorrelated /\ ScrapesAddUp
=================================================================================

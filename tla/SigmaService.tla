------------------------------ MODULE SigmaService ------------------------------
(***************************************************************************)
(* The service (src/service/mod.rs, src/bin/sigma-rs-service.rs): main()   *)
(* loads the rules, starts an HTTP and a gRPC server over the one engine   *)
(* and waits for a server or for ctrl-c.  HTTP requests are handled        *)
(* concurrently and counted in SERVICE_METRICS, one atomic update a step;  *)
(* a gRPC stream is answered by one task.                                  *)
(*                                                                         *)
(* An event is the set of the ids of the rules it matches.                 *)
(***************************************************************************)
EXTENDS SigmaEngine

CONSTANTS
  Connections,      \* each carries one HTTP request
  Requests,         \* [route, key : BOOLEAN, body], a body being [kind : {"bad", "empty", "event"}, event]
  StreamRequests,   \* what a gRPC stream may carry: [kind : {"event", "bad"}, event]
  MaxConcurrentRequests, MaxSamples,   \* MAX_CONCURRENT_REQUESTS; 1000 durations
  MaxStream         \* bound

ASSUME ServiceAssumption ==
  /\ IsFiniteSet(Connections) /\ MaxConcurrentRequests \in Nat /\ MaxSamples \in Nat
  /\ Requests # {}
  /\ \A r \in Requests : r.route \in {"health", "rules", "metrics", "evaluate"}

VARIABLES
  http, grpc, key_required,   \* the servers: "off", "none", "up" or "failed"; API_KEY is set
  runner, signalled,          \* ServiceRunner::run(); whether ctrl-c was pressed
  pc, request, status,        \* per connection
  requests_total, requests_success, requests_failed, events_evaluated, matches_found, samples,
  stream_in, stream_out       \* the gRPC stream: what the client sent, the answers

servers == <<http, grpc, key_required, runner, signalled>>
connections == <<pc, request, status>>
metrics == <<requests_total, requests_success, requests_failed, events_evaluated, matches_found, samples>>
stream == <<stream_in, stream_out>>
service == <<servers, connections, metrics, stream>>

ServiceInit ==
  /\ EngineInit
  /\ http = "off" /\ grpc = "off" /\ key_required = FALSE
  /\ runner = "off" /\ signalled = FALSE
  /\ pc = [c \in Connections |-> "none"] /\ status = [c \in Connections |-> "none"]
  /\ request = [c \in Connections |-> CHOOSE r \in Requests : TRUE]
  /\ requests_total = 0 /\ requests_success = 0 /\ requests_failed = 0
  /\ events_evaluated = 0 /\ matches_found = 0 /\ samples = 0
  /\ stream_in = <<>> /\ stream_out = <<>>

------------------------------------------------------------------------------
(* main() and ServiceRunner *)

\* main() loads without failing on errors and gives up if no rule was loaded; --no-http and
\* --no-grpc leave a server out.
Start ==
  /\ runner = "off" /\ entry = "new" /\ ~fail_on_parse_error /\ outcome = "ready"
  /\ IF loaded.rules = <<>>
     THEN runner' = "exit_1" /\ UNCHANGED <<http, grpc, key_required>>
     ELSE /\ runner' = "first" /\ http' \in {"none", "up"} /\ grpc' \in {"none", "up"}
          /\ key_required' \in BOOLEAN
  /\ UNCHANGED <<engine, signalled, connections, metrics, stream>>

Running == runner \in {"first", "second"}

\* A server's task ends with an error: its port is taken, or its socket breaks.
HttpFails ==
  /\ Running /\ http = "up" /\ http' = "failed"
  /\ UNCHANGED <<engine, grpc, key_required, runner, signalled, connections, metrics, stream>>
GrpcFails ==
  /\ Running /\ grpc = "up" /\ grpc' = "failed"
  /\ UNCHANGED <<engine, http, key_required, runner, signalled, connections, metrics, stream>>

\* ctrl_c() in main() and in run(): whichever answers, main() stops with success, and the
\* runtime drops the tasks.
Signal ==
  /\ Running /\ ~signalled /\ signalled' = TRUE
  /\ UNCHANGED <<engine, http, grpc, key_required, runner, connections, metrics, stream>>

Stop ==
  /\ Running /\ signalled /\ runner' = "stopped"
  /\ UNCHANGED <<engine, http, grpc, key_required, signalled, connections, metrics, stream>>

Awaited == IF runner = "first" THEN http ELSE grpc

\* Mutant of AwaitServer: run() waits for all handles before it looks at their results.
AwaitBoth ==
  /\ Running /\ "up" \notin {http, grpc}
  /\ runner' = (IF "failed" \in {http, grpc} THEN "exit_1" ELSE "stopped")
  /\ UNCHANGED <<engine, http, grpc, key_required, signalled, connections, metrics, stream>>

\* The handles are awaited one after the other, HTTP first.
AwaitServer ==
  /\ Running /\ Awaited # "up"
  /\ runner' = (IF Awaited = "failed" THEN "exit_1" ELSE IF runner = "first" THEN "second" ELSE "stopped")
  /\ UNCHANGED <<engine, http, grpc, key_required, signalled, connections, metrics, stream>>

------------------------------------------------------------------------------
(* HTTP *)

Serving == Running /\ http = "up"
Unlocked(r) == r.route = "health" \/ ~key_required \/ r.key

Move(c, from, to) ==
  /\ Serving /\ pc[c] = from /\ pc' = [pc EXCEPT ![c] = to]
  /\ UNCHANGED <<engine, servers, stream>>
Answer(c, code) == status' = [status EXCEPT ![c] = code] /\ UNCHANGED request
Unanswered == UNCHANGED <<status, request>>

Arrive(c) ==
  /\ Move(c, "none", "waiting") /\ \E r \in Requests : request' = [request EXCEPT ![c] = r]
  /\ UNCHANGED <<status, metrics>>

\* Mutant of Inside: a request that was answered keeps its slot.
InsideForGood(route) ==
  {c \in Connections : pc[c] \notin {"none", "waiting"} /\ request[c].route = route}

\* ConcurrencyLimitLayer is the outermost layer that waits, and Router::layer() gives each
\* route one of its own.
Inside(route) ==
  {c \in Connections : pc[c] \notin {"none", "waiting", "done"} /\ request[c].route = route}

Admit(c) ==
  /\ Cardinality(Inside(request[c].route)) < MaxConcurrentRequests
  /\ Move(c, "waiting", "inside") /\ Unanswered /\ UNCHANGED metrics

\* auth_middleware, then the route.
Authenticate(c) ==
  LET r == request[c] IN
  /\ UNCHANGED metrics
  /\ \/ ~Unlocked(r) /\ Move(c, "inside", "count_failed") /\ Answer(c, "401")
     \/ Unlocked(r) /\ r.route \in {"health", "rules"} /\ Move(c, "inside", "done") /\ Answer(c, "200")
     \/ Unlocked(r) /\ r.route = "metrics" /\ Move(c, "inside", "count_success") /\ Answer(c, "200")
     \/ Unlocked(r) /\ r.route = "evaluate" /\ Move(c, "inside", "extract") /\ Unanswered

\* Json<EvaluateRequest> rejects a body on its own; an empty event is the handler's to refuse.
Extract(c) ==
  LET kind == request[c].body.kind IN
  /\ UNCHANGED metrics
  /\ \/ kind = "bad" /\ Move(c, "extract", "done") /\ Answer(c, "4xx")
     \/ kind = "empty" /\ Move(c, "extract", "count_failed") /\ Answer(c, "400")
     \/ kind = "event" /\ Move(c, "extract", "evaluate") /\ Unanswered

HasMatches(event) == \E i \in RS!EnabledAt(loaded) : loaded.rules[i].rule.id \in event

\* process_event() never fails: RuleSet::evaluate() leaves out what does.
Evaluate(c) == Move(c, "evaluate", "count_success") /\ Answer(c, "200") /\ UNCHANGED metrics

\* TimeoutLayer can drop a handler only where it awaits.
TimeOut(c) ==
  /\ \E at \in {"extract", "evaluate"} : Move(c, at, "done")
  /\ Answer(c, "408") /\ UNCHANGED metrics

\* record_request(): the total, then the outcome.
CountRequest(c) ==
  /\ Move(c, "count_success", "success") \/ Move(c, "count_failed", "failed")
  /\ requests_total' = requests_total + 1
  /\ Unanswered
  /\ UNCHANGED <<requests_success, requests_failed, events_evaluated, matches_found, samples>>

Evaluated(c) == status[c] = "200" /\ request[c].route = "evaluate"

\* Mutant of CountOutcome: the handler that refuses an event counts it as served.
CountServed(c) ==
  /\ \/ Move(c, "success", IF Evaluated(c) THEN "event" ELSE "done") \/ Move(c, "failed", "done")
  /\ requests_success' = requests_success + 1
  /\ Unanswered
  /\ UNCHANGED <<requests_total, requests_failed, events_evaluated, matches_found, samples>>

CountOutcome(c) ==
  /\ \/ /\ Move(c, "success", IF Evaluated(c) THEN "event" ELSE "done")
        /\ requests_success' = requests_success + 1 /\ UNCHANGED requests_failed
     \/ /\ Move(c, "failed", "done")
        /\ requests_failed' = requests_failed + 1 /\ UNCHANGED requests_success
  /\ Unanswered
  /\ UNCHANGED <<requests_total, events_evaluated, matches_found, samples>>

\* record_evaluation(): the event, the match, and the duration under its lock.
CountEvent(c) ==
  /\ Move(c, "event", IF HasMatches(request[c].body.event) THEN "match" ELSE "sample")
  /\ events_evaluated' = events_evaluated + 1
  /\ Unanswered
  /\ UNCHANGED <<requests_total, requests_success, requests_failed, matches_found, samples>>

CountMatch(c) ==
  /\ Move(c, "match", "sample") /\ matches_found' = matches_found + 1
  /\ Unanswered
  /\ UNCHANGED <<requests_total, requests_success, requests_failed, events_evaluated, samples>>

\* Only the number of the durations is kept.
AddSample(c) ==
  /\ Move(c, "sample", "done")
  /\ samples' = (IF samples >= MaxSamples THEN samples - 1 ELSE samples) + 1
  /\ Unanswered
  /\ UNCHANGED <<requests_total, requests_success, requests_failed, events_evaluated, matches_found>>

Handle(c) ==
  \/ Admit(c) \/ Authenticate(c) \/ Extract(c) \/ Evaluate(c)
  \/ CountRequest(c) \/ CountOutcome(c) \/ CountEvent(c) \/ CountMatch(c) \/ AddSample(c)

------------------------------------------------------------------------------
(* gRPC: stream_evaluate(), whose evaluations are evaluate_event()'s *)

StreamEnded == stream_out # <<>> /\ Last(stream_out).error

StreamSend(req) ==
  /\ Running /\ grpc = "up" /\ ~StreamEnded /\ Len(stream_in) < MaxStream
  /\ stream_in' = Append(stream_in, req)
  /\ UNCHANGED <<engine, servers, connections, metrics, stream_out>>

Answered(req) == [of |-> req, error |-> req.kind = "bad",
                  matched |-> req.kind = "event" /\ HasMatches(req.event)]

\* Mutant of StreamEvaluate: evaluations that overtake each other.
StreamAsReady ==
  /\ Running /\ grpc = "up" /\ ~StreamEnded /\ Len(stream_out) < Len(stream_in)
  /\ \E i \in DOMAIN stream_in : stream_out' = Append(stream_out, Answered(stream_in[i]))
  /\ UNCHANGED <<engine, servers, connections, metrics, stream_in>>

\* A request that is not JSON yields an Err, with which tonic ends the stream.
StreamEvaluate ==
  /\ Running /\ grpc = "up" /\ ~StreamEnded /\ Len(stream_out) < Len(stream_in)
  /\ stream_out' = Append(stream_out, Answered(stream_in[Len(stream_out) + 1]))
  /\ UNCHANGED <<engine, servers, connections, metrics, stream_in>>

------------------------------------------------------------------------------
ServiceNext ==
  \/ EngineNext /\ UNCHANGED service
  \/ Start \/ HttpFails \/ GrpcFails \/ Signal \/ Stop \/ AwaitServer \/ StreamEvaluate
  \/ \E c \in Connections : Arrive(c) \/ Handle(c) \/ TimeOut(c)
  \/ \E req \in StreamRequests : StreamSend(req)

\* Tokio polls what is ready and a handler that does not end is timed out; a client, a failure
\* and a signal need not come.
ServiceSpec ==
  /\ ServiceInit /\ [][ServiceNext]_<<engine, service>>
  /\ WF_engine(EngineNext) /\ WF_<<engine, service>>(Start)
  /\ WF_<<engine, service>>(Stop \/ AwaitServer)
  /\ \A c \in Connections : WF_<<engine, service>>(Handle(c) \/ TimeOut(c))

------------------------------------------------------------------------------
(* Properties *)

ServiceTypeOK ==
  /\ outcome \in {"loading", "ready", "failed"}
  /\ {http, grpc} \subseteq {"off", "none", "up", "failed"}
  /\ runner \in {"off", "first", "second", "stopped", "exit_1"}
  /\ samples \in 0..MaxSamples
  /\ \A r \in {request[c].route : c \in Connections} : Cardinality(Inside(r)) <= MaxConcurrentRequests

\* SERVICE_METRICS accounts for what was answered: when no handler is half way, the counts
\* of success and failure are those of the answers a handler or the middleware gave, their
\* total is requests_total and the events are the evaluations that were not dropped.  A
\* timeout leaves no half of a record behind, and between the steps of a handler too no
\* more matches than events are counted.
MetricsAccount ==
  LET answered(codes, routes) ==
        Cardinality({c \in Connections : pc[c] = "done" /\ status[c] \in codes /\ request[c].route \in routes}) IN
  /\ matches_found <= events_evaluated
  /\ (\A c \in Connections : pc[c] \in {"none", "waiting", "inside", "extract", "evaluate", "done"}) =>
       /\ requests_success = answered({"200"}, {"metrics", "evaluate"})
       /\ requests_failed = answered({"400", "401"}, {"metrics", "rules", "evaluate"})
       /\ requests_total = requests_success + requests_failed
       /\ events_evaluated = answered({"200"}, {"evaluate"})
       /\ matches_found = Cardinality({c \in Connections : pc[c] = "done" /\ Evaluated(c)
                                                           /\ HasMatches(request[c].body.event)})

\* The answers of a stream are those of its requests, in order and without a gap, and only
\* the last may be an error, which ends the stream.
StreamInOrder ==
  \A i \in DOMAIN stream_out :
    /\ stream_out[i].of = stream_in[i]
    /\ stream_out[i].error => i = Len(stream_out)

\* The error of a server that is the next to be awaited ends the service (an error of the
\* gRPC server does so only when there is no HTTP server to wait for).
AwaitedErrorEnds ==
  http = "failed" \/ (http = "none" /\ grpc = "failed") ~> runner \in {"exit_1", "stopped"}

\* A request is answered while its server is up: the limit on concurrent requests, whose
\* slots a timeout gives back too, starves nobody.
EveryRequestAnswered == \A c \in Connections : pc[c] = "waiting" ~> pc[c] = "done" \/ ~Serving
==============================================================================

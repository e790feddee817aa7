----------------------------- MODULE ShadowMode -----------------------------
(***************************************************************************)
(* The service in shadow mode: chat handlers (app/api/routes/chat.py), the *)
(* executor that runs the mirrored requests (ShadowExecutor), the pipeline *)
(* each of its jobs is (app/services/shadow_pipeline.py), the metrics, the *)
(* runtime percentage and the lifespan of app/main.py.                     *)
(*                                                                         *)
(* One event loop runs it all, so a step is what a task does between two   *)
(* points where it really waits: a handler waits for its dependencies and  *)
(* for the primary; a worker for a job, for the candidate, for the         *)
(* primary's future and for the database; the lifespan for stop() and the  *)
(* two close() calls.  The metrics' lock is never held across a wait, so   *)
(* recording is part of the step that records.                             *)
(***************************************************************************)
EXTENDS Evaluator, Integers, Sequences, FiniteSets

CONSTANTS
    Requests,        \* the requests clients may send; each makes one job
    NoJob,           \* what a worker without a job holds
    QueueSize,       \* settings.shadow_queue_size
    NumWorkers,      \* settings.shadow_workers
    Deployments,     \* the settings the process may start with
    Percentages,     \* the values PUT /config is called with
    Bodies,          \* the bodies the two upstreams may return
    DrainsRequests   \* does the server finish requests before shutdown?

ASSUME ShadowModeAssumption ==
    /\ QueueSize \in Nat
    /\ NumWorkers \in Nat
    /\ NoJob \notin Requests
    /\ Deployments \subseteq
         [candidate : BOOLEAN, primary : BOOLEAN, percentage : 0 .. 100]
    /\ Percentages \subseteq Int
    /\ DrainsRequests \in BOOLEAN

VARIABLES
    queue, unfinished, alive, job, started, stopping, fate,  \* the executor's
    settings,      \* candidate enabled, primary configured, live percentage
    phase,         \* where the lifespan is
    handler,       \* where each chat handler is
    future,        \* each request's primary_future
    primaryRaw,    \* the raw body each primary call returned, or none
    stage,         \* where each pipeline run is
    candidateRaw,  \* the raw body each candidate call returned, or none
    metrics,       \* the counters
    rows           \* trace rows kept for each request

execVars == <<queue, unfinished, alive, job, started, stopping, fate>>
requestVars == <<handler, future, primaryRaw>>
shadowVars == <<stage, candidateRaw, rows>>
vars == <<execVars, settings, phase, requestVars, shadowVars, metrics>>

\* The pipeline re-raises CancelledError, so as far as the executor knows
\* every job may end its worker.
Exec == INSTANCE ShadowExecutor WITH
            Jobs <- Requests, CancellableJobs <- Requests

Workers == Exec!Workers

Counters ==
    {"total_requests", "primary_success", "primary_failures",
     "candidate_success", "candidate_failures", "candidate_timeouts",
     "shadow_dropped", "evaluation_runs", "exact_matches", "json_parse_failures"}

Phases == {"starting", "up", "stopping", "stopped", "dbClosed", "closed"}
HandlerStates == {"idle", "received", "calling", "answered", "failed",
                  "crashed", "unrendered", "rejected"}
Futures == {"none", "pending", "resolved", "cancelled"}
Stages == {"none", "candidate", "primary", "saving", "over"}

Init ==
    /\ Exec!Init
    /\ settings \in Deployments
    /\ phase = "starting"
    /\ handler = [r \in Requests |-> "idle"]
    /\ future = [r \in Requests |-> "none"]
    /\ primaryRaw = [r \in Requests |-> NoResponse]
    /\ stage = [r \in Requests |-> "none"]
    /\ candidateRaw = [r \in Requests |-> NoResponse]
    /\ metrics = [k \in Counters |-> 0]
    /\ rows = [r \in Requests |-> 0]

\* The counters after one increment of each of ks.
Counted(ks) == [k \in Counters |-> metrics[k] + (IF k \in ks THEN 1 ELSE 0)]

When(condition, k) == IF condition THEN {k} ELSE {}

-----------------------------------------------------------------------------
\* The chat handler.

\* A server that drains takes no request once shutdown has begun; another
\* (or a test harness that calls the application directly) may.
Serving == phase = "up" \/ (~DrainsRequests /\ phase # "starting")

ClientSends(r) ==
    /\ Serving
    /\ handler[r] = "idle"
    /\ handler' = [handler EXCEPT ![r] = "received"]
    /\ UNCHANGED <<execVars, settings, phase, future, primaryRaw, shadowVars, metrics>>

\* should_mirror() may return "mirror": sampled, and certain at both ends.
MayMirror(mirror) ==
    /\ settings.percentage >= 100 => mirror
    /\ settings.percentage <= 0 => ~mirror

\* (Variant: submit() waits for room in the queue.)
Handle_WaitsForRoom(r) ==
    /\ handler[r] = "received"
    /\ \E mirror \in BOOLEAN :
        /\ MayMirror(mirror)
        /\ IF mirror THEN Exec!Accept(r) ELSE UNCHANGED execVars
        /\ metrics' = Counted({"total_requests"})
        /\ future' = [future EXCEPT ![r] = IF mirror THEN "pending" ELSE "none"]
    /\ handler' = [handler EXCEPT ![r] = "calling"]
    /\ UNCHANGED <<settings, phase, primaryRaw, shadowVars>>

\* The handler up to its call of the primary: count, sample, submit, and the
\* call.  Without an API key the call fails at once and the handler ends.
Handle(r) ==
    /\ handler[r] = "received"
    /\ \E mirror \in BOOLEAN :
        /\ MayMirror(mirror)
        /\ IF mirror THEN Exec!Submit(r) ELSE UNCHANGED execVars
        /\ metrics' = Counted({"total_requests"}
                        \cup When(mirror /\ Exec!QueueFull, "shadow_dropped")
                        \cup When(~settings.primary, "primary_failures"))
        /\ future' = [future EXCEPT ![r] =
                        IF ~mirror THEN "none"
                        ELSE IF settings.primary THEN "pending" ELSE "resolved"]
    /\ handler' = [handler EXCEPT ![r] =
                        IF settings.primary THEN "calling" ELSE "failed"]
    /\ UNCHANGED <<settings, phase, primaryRaw, shadowVars>>

\* A dependency raises: app.state.http_client is gone.
Reject(r) ==
    /\ handler[r] = "received"
    /\ phase = "closed"
    /\ handler' = [handler EXCEPT ![r] = "rejected"]
    /\ UNCHANGED <<execVars, settings, phase, future, primaryRaw, shadowVars, metrics>>

\* (Variant: set_result() without looking at done().)
Settle_Unguarded(r) ==
    future' = [future EXCEPT ![r] = IF @ = "none" THEN @ ELSE "resolved"]

\* The finally clause: the future gets primary_raw unless it is done.
Settle(r) ==
    future' = [future EXCEPT ![r] = IF @ = "pending" THEN "resolved" ELSE @]

\* JSONResponse refuses NaN (allow_nan is False), wherever it is, and raises.
Renders(body) ==
    \A i \in DOMAIN body.action.leaves : body.action.leaves[i].type # "nan"

PrimaryReturns(r) ==
    /\ handler[r] = "calling"
    /\ phase # "closed"
    /\ \E body \in Bodies :
        /\ primaryRaw' = [primaryRaw EXCEPT ![r] = body]
        /\ handler' = [handler EXCEPT ![r] =
                          IF Renders(body) THEN "answered" ELSE "unrendered"]
    /\ Settle(r)
    /\ metrics' = Counted({"primary_success"})
    /\ UNCHANGED <<execVars, settings, phase, shadowVars>>

\* (Variant: the future is set after the try statement.)
PrimaryFails_NoFinally(r) ==
    /\ handler[r] = "calling"
    /\ handler' = [handler EXCEPT ![r] = "failed"]
    /\ metrics' = Counted({"primary_failures"})
    /\ UNCHANGED <<execVars, settings, phase, future, primaryRaw, shadowVars>>

\* (Variant: the failure is logged and not counted.)
PrimaryFails_Uncounted(r) ==
    /\ handler[r] = "calling"
    /\ handler' = [handler EXCEPT ![r] = "failed"]
    /\ Settle(r)
    /\ UNCHANGED <<execVars, settings, phase, primaryRaw, shadowVars, metrics>>

\* A PrimaryLLMError, after the retries: the client gets the error envelope.
PrimaryFails(r) ==
    /\ handler[r] = "calling"
    /\ handler' = [handler EXCEPT ![r] = "failed"]
    /\ Settle(r)
    /\ metrics' = Counted({"primary_failures"})
    /\ UNCHANGED <<execVars, settings, phase, primaryRaw, shadowVars>>

\* (Variant: the future is cancelled when there is nothing to hand over.)
PrimaryRaises_CancelsFuture(r) ==
    /\ handler[r] = "calling"
    /\ handler' = [handler EXCEPT ![r] = "crashed"]
    /\ future' = [future EXCEPT ![r] = IF @ = "pending" THEN "cancelled" ELSE @]
    /\ UNCHANGED <<execVars, settings, phase, primaryRaw, shadowVars, metrics>>

\* Any other exception of the call (a body that cannot be decoded, nesting
\* too deep to parse, a closed client) or the cancellation of the handler's
\* task: only the finally clause runs.
PrimaryRaises(r) ==
    /\ handler[r] = "calling"
    /\ handler' = [handler EXCEPT ![r] = "crashed"]
    /\ Settle(r)
    /\ UNCHANGED <<execVars, settings, phase, primaryRaw, shadowVars, metrics>>

\* set_shadow_percentage() clamps, although the request schema has checked.
Clamped(p) == IF p > 100 THEN 100 ELSE IF p < 0 THEN 0 ELSE p

\* PUT /config.
PutConfig(p) ==
    /\ Serving
    /\ settings' = [settings EXCEPT !.percentage = Clamped(p)]
    /\ UNCHANGED <<execVars, phase, requestVars, shadowVars, metrics>>

-----------------------------------------------------------------------------
\* A worker's run of the pipeline.

TakeJob(w) ==
    /\ Exec!Take(w)
    /\ stage' = [stage EXCEPT ![Head(queue)] = "candidate"]
    /\ UNCHANGED <<settings, phase, requestVars, candidateRaw, rows, metrics>>

RunsAt(w, s) ==
    /\ w \in alive
    /\ ~stopping
    /\ job[w] # NoJob
    /\ stage[job[w]] = s

\* run() returns.
RunEnds(w) ==
    /\ Exec!JobEnds(w)
    /\ stage' = [stage EXCEPT ![job[w]] = "over"]

\* run() raises the CancelledError of a future it awaits.
RunEscapes(w) ==
    /\ Exec!JobCancelsItself(w)
    /\ UNCHANGED stage

\* CandidateLLMService.enabled: toggled on and fully configured.
CandidateEnabled == settings.candidate

SkipCandidate(w) ==
    /\ RunsAt(w, "candidate")
    /\ ~CandidateEnabled
    /\ RunEnds(w)
    /\ metrics' = Counted({"shadow_dropped"})
    /\ UNCHANGED <<settings, phase, requestVars, candidateRaw, rows>>

CandidateEnds(w, counter) ==
    /\ RunsAt(w, "candidate")
    /\ CandidateEnabled
    /\ RunEnds(w)
    /\ metrics' = Counted({counter})
    /\ UNCHANGED <<settings, phase, requestVars, candidateRaw, rows>>

\* (Variant: a timeout is recorded as a failure too.)
CandidateTimesOut_CountedTwice(w) ==
    /\ RunsAt(w, "candidate")
    /\ CandidateEnabled
    /\ RunEnds(w)
    /\ metrics' = Counted({"candidate_timeouts", "candidate_failures"})
    /\ UNCHANGED <<settings, phase, requestVars, candidateRaw, rows>>

CandidateTimesOut(w) == CandidateEnds(w, "candidate_timeouts")
CandidateFails(w) == CandidateEnds(w, "candidate_failures")

\* (Variant: a trace of every evaluation.)
Conclude_AlwaysSaves(w, primary, candidate, ks) ==
    LET e == Evaluate(primary, candidate)
    IN  /\ metrics' = Counted(ks \cup {"evaluation_runs"}
                        \cup When(e.exact_match, "exact_matches")
                        \cup When(~e.json_valid, "json_parse_failures"))
        /\ stage' = [stage EXCEPT ![job[w]] = "saving"]
        /\ UNCHANGED execVars

\* Both responses are there: evaluate, count, and save the trace or return.
Conclude(w, primary, candidate, ks) ==
    LET e == Evaluate(primary, candidate)
    IN  /\ metrics' = Counted(ks \cup {"evaluation_runs"}
                        \cup When(e.exact_match, "exact_matches")
                        \cup When(~e.json_valid, "json_parse_failures"))
        /\ IF Diverges(e)
             THEN /\ stage' = [stage EXCEPT ![job[w]] = "saving"]
                  /\ UNCHANGED execVars
             ELSE RunEnds(w)

\* The candidate returns a body.  The run goes on to evaluate it in the same
\* step if the primary has settled, and waits for the future if it has not.
CandidateReturns(w) ==
    /\ RunsAt(w, "candidate")
    /\ CandidateEnabled
    /\ \E body \in Bodies :
        /\ candidateRaw' = [candidateRaw EXCEPT ![job[w]] = body]
        /\ IF future[job[w]] = "resolved"
             THEN Conclude(w, primaryRaw[job[w]], body, {"candidate_success"})
             ELSE /\ metrics' = Counted({"candidate_success"})
                  /\ IF future[job[w]] = "pending"
                       THEN /\ stage' = [stage EXCEPT ![job[w]] = "primary"]
                            /\ UNCHANGED execVars
                       ELSE RunEscapes(w)
    /\ UNCHANGED <<settings, phase, requestVars, rows>>

PrimaryArrives(w) ==
    /\ RunsAt(w, "primary")
    /\ future[job[w]] # "pending"
    /\ IF future[job[w]] = "resolved"
         THEN Conclude(w, primaryRaw[job[w]], candidateRaw[job[w]], {})
         ELSE RunEscapes(w) /\ UNCHANGED metrics
    /\ UNCHANGED <<settings, phase, requestVars, candidateRaw, rows>>

DbOpen == phase \notin {"dbClosed", "closed"}

\* save_trace() for request r: the row is kept or it is not.  (TraceRepository
\* has the way there; the row of a failed save may be kept by a later commit.)
MayKeepRow(r) ==
    \E kept \in {0, 1} :
        /\ kept = 1 => DbOpen
        /\ rows' = [rows EXCEPT ![r] = @ + kept]

\* save_trace() never raises, and run() returns.
TraceEnds(w) ==
    /\ RunsAt(w, "saving")
    /\ MayKeepRow(job[w])
    /\ RunEnds(w)
    /\ UNCHANGED <<settings, phase, requestVars, candidateRaw, metrics>>

-----------------------------------------------------------------------------
\* The lifespan.

Startup ==
    /\ phase = "starting"
    /\ Exec!Start
    /\ phase' = "up"
    /\ UNCHANGED <<settings, requestVars, shadowVars, metrics>>

Unserved == {r \in Requests : handler[r] \in {"received", "calling"}}

\* The futures that a worker awaits: cancelling a task cancels what it awaits.
Awaited ==
    {r \in Requests : /\ future[r] = "pending"
                      /\ stage[r] = "primary"
                      /\ \E w \in alive : job[w] = r}

\* (Variant: the server does not wait for the requests it has accepted.)
Shutdown_NoDrain ==
    /\ phase = "up"
    /\ Exec!Stop
    /\ phase' = "stopping"
    /\ future' = [r \in Requests |->
                    IF r \in Awaited THEN "cancelled" ELSE future[r]]
    /\ UNCHANGED <<settings, handler, primaryRaw, shadowVars, metrics>>

\* The lifespan resumes and calls stop(): every worker is cancelled at once.
Shutdown ==
    /\ phase = "up"
    /\ DrainsRequests => Unserved = {}
    /\ Exec!Stop
    /\ phase' = "stopping"
    /\ future' = [r \in Requests |->
                    IF r \in Awaited THEN "cancelled" ELSE future[r]]
    /\ UNCHANGED <<settings, handler, primaryRaw, shadowVars, metrics>>

\* The CancelledError ends the run wherever it waits.  One that waits for the
\* database may leave its row: the database's own thread goes on.
WorkerCancelled(w) ==
    /\ Exec!WorkerCancelled(w)
    /\ IF job[w] # NoJob /\ stage[job[w]] = "saving"
         THEN MayKeepRow(job[w])
         ELSE UNCHANGED rows
    /\ UNCHANGED <<settings, phase, requestVars, stage, candidateRaw, metrics>>

StopReturns ==
    /\ Exec!StopReturns
    /\ phase' = "stopped"
    /\ UNCHANGED <<settings, requestVars, shadowVars, metrics>>

Close(from, to) ==
    /\ phase = from
    /\ phase' = to
    /\ UNCHANGED <<execVars, settings, requestVars, shadowVars, metrics>>

\* (Variant: the database is closed while the workers are being cancelled.)
CloseDb_Early ==
    /\ phase \in {"stopping", "stopped"}
    /\ phase' = "dbClosed"
    /\ UNCHANGED <<execVars, settings, requestVars, shadowVars, metrics>>

CloseDb == Close("stopped", "dbClosed")
CloseClient == Close("dbClosed", "closed")

-----------------------------------------------------------------------------

PrimaryStep(r) == PrimaryReturns(r) \/ PrimaryFails(r) \/ PrimaryRaises(r)

RequestStep(r) == ClientSends(r) \/ Handle(r) \/ Reject(r) \/ PrimaryStep(r)

RunStep(w) ==
    \/ SkipCandidate(w)
    \/ CandidateTimesOut(w)
    \/ CandidateFails(w)
    \/ CandidateReturns(w)
    \/ PrimaryArrives(w)
    \/ TraceEnds(w)

WorkerStep(w) == TakeJob(w) \/ RunStep(w) \/ WorkerCancelled(w)

LifespanStep == Startup \/ Shutdown \/ StopReturns \/ CloseDb \/ CloseClient

Next ==
    \/ \E r \in Requests : RequestStep(r)
    \/ \E p \in Percentages : PutConfig(p)
    \/ \E w \in Workers : WorkerStep(w)
    \/ LifespanStep

\* The event loop runs a handler that is ready, and the primary's call ends:
\* its timeouts bound each phase of each of finitely many attempts.
RequestFairness ==
    \A r \in Requests : /\ WF_vars(Handle(r) \/ Reject(r))
                        /\ WF_vars(PrimaryStep(r))

\* The same for the workers, the candidate's timeout and the database, and
\* for a shutdown that has begun.
ShadowFairness ==
    /\ \A w \in Workers : /\ WF_vars(TakeJob(w))
                          /\ WF_vars(RunStep(w))
                          /\ WF_vars(WorkerCancelled(w))
    /\ WF_vars(StopReturns)
    /\ WF_vars(CloseDb)
    /\ WF_vars(CloseClient)

SafeSpec == Init /\ [][Next]_vars

\* Only the primary path is fair: the candidate, the workers and the database
\* may hang for ever.  A property that needs them names ShadowFairness.
Spec == SafeSpec /\ RequestFairness

-----------------------------------------------------------------------------
\* The properties.

\* Every variable has its type.
TypeOK ==
    /\ Exec!TypeOK
    /\ settings \in [candidate : BOOLEAN, primary : BOOLEAN, percentage : 0 .. 100]
    /\ phase \in Phases
    /\ handler \in [Requests -> HandlerStates]
    /\ future \in [Requests -> Futures]
    /\ primaryRaw \in [Requests -> Bodies \cup {NoResponse}]
    /\ stage \in [Requests -> Stages]
    /\ candidateRaw \in [Requests -> Bodies \cup {NoResponse}]
    /\ metrics \in [Counters -> Nat]
    /\ rows \in [Requests -> Nat]

\* No worker waits for a primary response that will never come: a future is
\* pending only while its handler is still inside the primary call.  Were one
\* left behind by a failure path, its worker would be lost for good.
NoOrphanWait == \A r \in Requests : future[r] = "pending" => handler[r] = "calling"

\* A future is settled once: a handler that outlives stop() does not set a
\* result on a future the cancelled worker took with it (set_result() would
\* raise InvalidStateError and replace the client's response by an error).
FutureSettlesOnce ==
    [][\A r \in Requests :
          future[r] \in {"resolved", "cancelled"} => future'[r] = future[r]]_vars

\* The requests whose pipeline run is, or was abandoned, at a stage.
At(s) == {r \in Requests : stage[r] = s}

\* The requests whose handler is in one of these states.
Handlers(states) == {r \in Requests : handler[r] \in states}

\* GET /metrics adds up on the primary path: a success is a call that returned
\* a body, rendered for the client or not, a failure is one that raised its own
\* error or was not made, and a request counted as received is one of the two,
\* still with the primary, or ended in an exception no counter is kept for.
RequestLedger ==
    /\ metrics.primary_success = Cardinality(Handlers({"answered", "unrendered"}))
    /\ metrics.primary_failures = Cardinality(Handlers({"failed"}))
    /\ metrics.total_requests =
          Cardinality(Handlers({"calling", "answered", "unrendered", "failed", "crashed"}))

\* It adds up on the shadow path: every mirrored request is dropped, skipped,
\* counted under exactly one candidate outcome, still queued, or with the
\* candidate (where a shutdown may have abandoned it).
ShadowLedger ==
    Cardinality({r \in Requests : future[r] # "none"}) =
        metrics.shadow_dropped + metrics.candidate_success
          + metrics.candidate_failures + metrics.candidate_timeouts
          + Len(queue) + Cardinality(At("candidate"))

\* Every candidate response is evaluated once, or waits for the primary (or
\* was abandoned there), and no evaluation is both a match and a parse failure.
EvaluationLedger ==
    /\ metrics.candidate_success =
          metrics.evaluation_runs + Cardinality(At("primary"))
    /\ metrics.exact_matches + metrics.json_parse_failures
          <= metrics.evaluation_runs

\* A trace is of a mirrored request whose two responses diverge, and there is
\* one at most: no retry, cancellation or late answer adds another, and what is
\* kept is never more than the evaluations that were no match.
TracesAreDivergences ==
    /\ \A r \in Requests :
          rows[r] > 0 => /\ rows[r] = 1
                         /\ future[r] = "resolved"
                         /\ Diverges(Evaluate(primaryRaw[r], candidateRaw[r]))
    /\ metrics.exact_matches + Cardinality({r \in Requests : rows[r] > 0})
          <= metrics.evaluation_runs

\* The database and the HTTP client are closed only when no worker is left to
\* use them.
ResourcesOutliveWorkers == phase \in {"dbClosed", "closed"} => alive = {}

\* submit() does not ask whether the pool is started.  On a server that drains
\* it need not: no job is accepted that no worker will ever take, before the
\* pool is started or after it is told to stop.
JobsReachARunningPool ==
    [][\A r \in Requests :
          DrainsRequests /\ fate[r] = "new" /\ fate'[r] = "accepted"
              => phase = "up"]_vars

\* Once begun, the shutdown ends: cancelling the workers is enough, whatever
\* the candidate, the primary and the clients do.
ShutdownCompletes == ShadowFairness => (phase = "stopping" ~> phase = "closed")

\* A mirrored request that was accepted runs to its end unless the service
\* shuts down.
ShadowRunsEnd ==
    ShadowFairness =>
        \A r \in Requests :
            fate[r] = "accepted" ~> (fate[r] # "accepted" \/ phase # "up")

\* The executor inside the service is the executor specified alone, with jobs
\* that never raise CancelledError unprompted: the pipeline's re-raise and the
\* futures it awaits never cost the pool a worker.
StrictExec == INSTANCE ShadowExecutor WITH
                  Jobs <- Requests, CancellableJobs <- {}
ImplementsExecutor ==
    StrictExec!SafeSpec /\ (ShadowFairness => StrictExec!Fairness)

\* What a client sees is the primary proxy: shadow mode adds, delays and
\* withholds nothing, even when the candidate, the workers or the database
\* hang.
ExchangeOf(r) ==
    CASE handler[r] = "idle" -> "unsent"
      [] handler[r] \in {"received", "calling"} -> "inflight"
      [] handler[r] = "answered" -> "answered"
      [] OTHER -> "failed"

Proxy == INSTANCE PrimaryProxy WITH
             NoReply <- NoResponse,
             exchange <- [r \in Requests |-> ExchangeOf(r)],
             reply <- [r \in Requests |->
                         IF handler[r] = "answered" THEN primaryRaw[r] ELSE NoResponse]
ImplementsProxy == Proxy!Spec

-----------------------------------------------------------------------------
\* What the documentation says and the code does not do.

\* app/schemas/metrics.py: primary_success and primary_failures are the calls
\* that returned a response and the calls that did not, so every request that
\* is no longer with the primary is one or the other.
EveryCallIsCounted ==
    metrics.total_requests =
        metrics.primary_success + metrics.primary_failures
          + Cardinality(Handlers({"calling"}))
=============================================================================

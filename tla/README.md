# ShadowModeLLM: a TLA+ model of the service

The service is a FastAPI proxy. `POST /v1/chat` forwards a request to a primary
LLM and returns its answer; in the background the same request may be mirrored
to a candidate LLM, the two answers compared, counted and, where they diverge,
kept in SQLite. Its promise is that the background work is bounded and never
touches the client's answer. The modules here state that promise, and what it
takes to keep it, and check it with TLC and the TLA+ proof system.

All paths are relative to the repository's root (`src/` in `PROJECT.json`).

## 1. Inventory

Everything runs in one process on one asyncio event loop. Tasks interleave only
where one of them really waits: for an HTTP call, a sleep, a queue, a future, the
database thread or another task. Recording a metric takes an `asyncio.Lock` that
no holder keeps across a wait, so it never waits, and is atomic with the step
that records. The same holds of `RuntimeConfig`'s lock.

| Component | State | Operations | Talks to |
|---|---|---|---|
| Shadow executor `app/utils/shadow_executor.py` | queue, worker tasks, `_started` | `start`, `submit`, `stop`, worker loop | called by handlers and lifespan, runs pipeline jobs |
| Chat handler `app/api/routes/chat.py` | one coroutine and one `primary_future` per request | the request from counting to response | executor (call), primary service (await), pipeline (future), metrics |
| Shadow pipeline `app/services/shadow_pipeline.py` | one coroutine per job | `run` | candidate (await), handler (future), evaluator, metrics, repository (await) |
| Evaluator `app/services/evaluator_service.py` | none | `evaluate` | called by the pipeline |
| Primary service `app/services/primary_llm_service.py` | one call's loop | `chat` with retries and backoff | upstream |
| Candidate service `app/services/candidate_llm_service.py` | none | `invoke`, one attempt | upstream |
| Metrics `app/services/metrics_service.py` | ten counters, two latency sums | `record_*`, `snapshot` | everyone |
| Runtime config `app/services/runtime_config.py` | the percentage | `set`, `should_mirror` | handlers, `PUT /config` |
| Trace repository `app/repositories/trace_repository.py` | connection, open transaction, lock | `initialize`, `save_trace`, `close` | pipeline, lifespan |
| Lifespan `app/main.py` | `app.state`, what is open | `create_app`, startup, shutdown | executor, repository, HTTP client |
| Request-id middleware `app/utils/logging_middleware.py` | `request_id_ctx` of each task, header | bind, append, reset | handlers, jobs, log records, error handlers |
| Health and readiness `app/api/routes/health.py` | none | looks at four attributes and two flags | `app.state`, executor, repository |
| Dependency providers `app/api/deps.py` | none | return an attribute or raise | `app.state`, run in threads |
| Settings `app/config.py`, default models `app/utils/http.py` | the cached settings | `get_settings`, `apply_default_model` | lifespan, providers, both services |
| Router, logging, schemas | static | wiring, formatting | |

What is hard in this code, and what makes each part correct, is the list of
hazards in `PROJECT.json`. In short:

* *Executor.* Bounded work; a job is in exactly one place; a job never costs the
  pool a worker; `task_done()` balances; `stop()` ends and leaves no task alive.
* *Handler and pipeline.* Every future a worker waits for is settled, once, on
  every path, also when a shutdown cancels the worker (which cancels the future)
  while the handler is still calling. The client's answer does not depend on any
  of it.
* *Metrics.* The counters add up across handler and worker, drops, failures,
  timeouts and cancellations.
* *Evaluator and traces.* A match, a parse failure and a trace never contradict
  each other; a trace is of a real divergence and is kept at most once.
* *Primary service.* Bounded attempts and sleeps; only transient outcomes are
  retried; the outcome is the last attempt's.
* *Lifespan.* Nothing is closed while a worker could still use it; a shutdown
  releases what the startup opened; no job goes to a pool that is not up.
* *Readiness and dependencies.* What is put together from parts that are set and
  taken down one by one (the probe's answer, a handler's dependencies) is of one run
  of the lifespan and complete.
* *Request ids.* A log record and a response name the request they belong to, also
  in a worker that outlives the request and in a task that inherits a context.
* *Payload.* Two clients use one object at different times; neither sees the other's
  default.

## 2. Modules

| Module | Models | Role |
|---|---|---|
| `ShadowExecutor` | the executor | component |
| `BestEffortPool` | what the executor promises | abstract specification |
| `ShadowExecutorProofs` | | theorems about `ShadowExecutor` |
| `Evaluator` | `evaluate()` and the pipeline's trace test | operators |
| `Comparison` | one call of `evaluate()` on any two responses | component |
| `EvaluatorProofs` | | theorems about `Evaluator` and `Comparison` |
| `ShadowMode` | handlers, pipeline, metrics, percentage, lifespan, around an executor | composition |
| `ShadowModeProofs`, `ShadowModeServiceProofs` | | theorems about `ShadowMode` |
| `PrimaryProxy` | what a client is promised | abstract specification |
| `PrimaryLLM` | one call of `PrimaryLLMService.chat()` | component |
| `PrimaryLLMProofs` | | theorems about `PrimaryLLM` and `Forwarding` |
| `TraceRepository` | the repository, its connection and the connection's thread | component |
| `TraceStore` | what a saver is promised | abstract specification |
| `TraceRepositoryProofs` | | theorems about `TraceRepository` |
| `Lifespan` | `create_app()`, startup and shutdown, `app.state`, the providers, the readiness probe | component |
| `LifespanProofs` | | theorems about `Lifespan` |
| `RequestContext` | the request id in tasks, jobs and responses, around an executor | composition |
| `RequestContextProofs` | | theorems about `RequestContext` |
| `Forwarding` | one payload on its way to both upstreams, around a primary call | composition |
| `MCEvaluator`, `MCShadowMode`, `MCTraceRepository`, `MCRequestContext`, `MCForwarding` | | instances for TLC |

**`ShadowExecutor`.** A step is what a task does between two suspension points.
`Accept` and `Drop` are the two ways of `submit()`, which never waits; `Take` is
the return of `queue.get()`, `JobEnds` a job that returns or raises, with the
`finally` clause. `put_nowait()` does not hand the job to a waiting worker: the
queue stays full until a worker runs, so a job can be dropped while a worker is
idle, here as in the code. `Stop` cancels all tasks in one step; from then on a
cancelled task only gets to raise `CancelledError` (`WorkerCancelled`), and
`StopReturns` is the end of `gather()`. Jobs still queued stay queued, as in the
code. A job that raises `CancelledError` although nobody cancelled its worker
ends that worker (`JobCancelsItself`, for the jobs of `CancellableJobs`). `Start`
and `Stop` may alternate. The variable `fate` is history: what `submit()` returned
for a job and how its run ended.
One simplification: in the code a worker that finds the queue non-empty after a
job takes the next one without giving up the loop, and a job that never waits ends
in the step that took it; the model lets other tasks run in between.

**`Evaluator`.** A response is its kind (None, not JSON, parsing raises another
exception than `ValueError`, JSON that is not an object, an object) and the
object's `action`. A JSON value of any nesting is its form (how its lists and objects are
nested, with their lengths and keys) and its leaves, the scalars in the form's places: `==`
on two lists or objects compares their forms and then their leaves, so no recursion is
needed. A scalar is its Python type and, for numbers and booleans, what it is worth, because
`==` compares those by worth. NaN equals nothing as an action, but itself inside a list or
an object, where Python asks for identity first and `json.loads()` has one NaN object. The
kind `unparseable` is the
`except Exception` of `evaluate()`. `Comparison` makes a specification of it: any two
responses over a set `Actions`, and one call.

**`ShadowMode`.** `Exec == INSTANCE ShadowExecutor` shares the executor's variables,
a request being its own job. `Handle` is the handler up to the primary's HTTP call
(count, sample, submit; without an API key also the failure); `PrimaryReturns`,
`PrimaryFails` and `PrimaryRaises` are the rest of it, for a response, a
`PrimaryLLMError` and any other exception. `TakeJob` to `TraceEnds` are the run of
the pipeline in a worker: an evaluation belongs to the step of the response that
arrives last. `Shutdown` is `stop()` up to its `gather()`, with the cancellation of
the futures the cancelled workers await; `CloseDb` and `CloseClient` follow. With
`DrainsRequests` the server lets requests finish before it shuts the application
down (uvicorn's default); without it requests and shutdown overlap, as under a
server with a shutdown deadline or a test harness that calls the application
directly. A save that fails, or is cancelled while it waits for the database
thread, may have kept its row or not (`MayKeepRow`). `settings` is fixed but for
the percentage.

**`PrimaryLLM`.** One action per way an attempt ends, `Wake` for the end of a sleep.
Seconds are whole milliseconds, the jitter any of them up to the base; an absent,
negative or unusable `Retry-After` is 0, which has the same effect (`ParseRetryAfter`). The
jitter is added to the backoff, as in the code and unlike its documentation (section 4).

**`TraceRepository`.** aiosqlite gives the connection a thread that runs the calls
handed to it in order (`thread`); a save hands over INSERT and COMMIT and waits for
each. The answer and the save's next step are separate (`inserted`, `committed`,
`raising`), since a cancellation or a crash may fall between them. `Stop` is the
executor's `stop()`, which cancels every worker at once: from then on a save only
gets to raise `CancelledError`, while the call it handed over still runs. `Close`
waits for the savers to be gone, which is `ResourcesOutliveWorkers` of `ShadowMode`.
A statement that fails leaves the transaction open or, for some errors, rolled
back by SQLite. `Crash` loses the connection and keeps the file; `Initialize` then
opens it again, for the traces not yet saved. Which of several waiting saves gets
the lock is left open (asyncio takes the first). In `ShadowMode` all of this is
`MayKeepRow`, the choice whether the row is there in the end.

**`Lifespan`.** The lifespan is cut where it waits: `Enter` is the startup up to the
first wait inside `initialize()`, `Connected`, `Created` and `Committed` the return of
its calls (the last goes on to `start()`, which does not wait, and to the `yield`),
`Shutdown` to `ClientClosed` the `finally` clause. `StartFails`, the failing choice of
`Enter` (the directory cannot be made) and `CloseFails` (of the database or of the client)
are the calls that raise. An
attribute of `app.state` is the number of the run that set it, 0 for `None`, so that a
mixture of two runs can be seen; `open` has what is open, `tables` the databases with
their table. The lifespan may be entered again after it has ended or failed, as a test
harness enters it; what the last run left in `app.state` is then still there. `drains`
says which kind of server runs it, as `DrainsRequests` does in `ShadowMode`. A request
resolves its dependencies with `Resolve`, one provider at a time, in the order of the
parameters of `chat()`: the providers are plain functions, which FastAPI runs in
threads, and the event loop goes on between two of them. `Ready` is the probe, an
operator: it does not wait, so it is a look at one state. A pool counts as running until
`stop()` returns, as `_started` does; how many of its workers are alive is `PoolIntact`
of the executor.

**`RequestContext`.** `ctx` has `request_id_ctx` of every task, those of the requests
and of the workers. `Arrive` is the middleware up to the call of the application, in a
task whose context may be copied from a task that is just sending its answer (pipelined
requests, `Inherited`); `ArriveGarbled` a header that cannot be decoded, which raises
before an id is bound. `Chat` is the handler, which binds the id in the job's closure;
`Respond` and `RespondError` the response that goes through `send_wrapper`, the latter
with the header that the `PrimaryLLMError` handler of `app/main.py` adds first; `Leave`
and `Raise` the `finally` clause. `TakeJob`, `RunEnds` and `RunCancelled` are the
executor's steps joined with the bind and the reset of `ShadowPipeline.run()`. `Exec ==
INSTANCE ShadowExecutor` shares the executor's variables, as in `ShadowMode`. Ids that
the middleware generates are taken to be distinct; ids that clients send may coincide. A
log record carries the `ctx` of the task that writes it, so the property speaks of
`ctx`.

**`Forwarding`.** It extends `PrimaryLLM` by the payload and what is sent: `Chat` is the
handler up to the first attempt, `Retry` is `Wake` with its POST, `CallGoesOn` any
other step of the call, `Invoke` the worker that gets to the shadow job, at any time. A
payload is whether it is a JSON object and what its `model` is. `wire` collects the
calls made.

**Variants.** A definition whose name ends in `_Something` after another's name, and
whose comment starts with "Variant", is that other definition with one mistake. No
specification uses it. `PROJECT.json` pairs each with the property it breaks, which
shows that the property can fail.

## 3. Runs

| Run | Instance | Shows |
|---|---|---|
| `executor` | 4 jobs, one of them self-cancelling, queue 2, 2 workers | all safety properties, liveness, and `ImplementsPool` |
| `evaluator` | 45 x 45 responses, scalars, lists and objects as actions | `MatchOrTrace`, `SidesAreSymmetric` |
| `evaluator_exact` | the same | violated: `1` and `true` are an exact match |
| `shadow` | 3 requests, queue 1, 2 workers, 3 bodies, 3 deployments, draining | the ledgers (each request counter is exactly its requests), traces (matches and rows together within the evaluations), order of closing, `JobsReachARunningPool` |
| `shadow_overlap` | 2 requests, queue 1, 1 worker, sampling, `PUT /config`, not draining, fairness of the primary path only | futures, `ImplementsExecutor`, `ImplementsProxy`; with `ShadowFairness`, liveness |
| `shadow_uncounted` | 2 requests | violated: a request that is never counted as settled |
| `repository` | 3 saves on one connection, statements that fail, cancellation, crash and restart | `PersistedIsDurable`, `SerialWrites`, liveness, and `ImplementsStore` |
| `primary` | 2 retries, cap reached by the second backoff, `Retry-After` ignored, under and over the cap, 2 models | all of `PrimaryLLM`, and `EachUpstreamItsOwnDefault` |
| `lifespan` | 2 runs of the lifespan, 2 handlers, 2 settings, draining or not | readiness, dependencies, `ShutdownReleases` |
| `lifespan_settings` | 1 run | violated: request dependencies read other settings than the lifespan |
| `request_context` | 3 requests, queue 1, 1 worker, ids sent or generated | logs, responses and contexts name the right request |
| `request_context_twice` | 2 requests | violated: a response with the header twice |

*Why the bounds are enough.* A job interacts with others only through the queue's room,
its order and the free workers; four jobs with two places and two workers reach a full
queue with all workers busy, a drop, a drop with an idle worker, and a restart with jobs
left in the queue. With one self-cancelling job a pool of two keeps a worker, so that
accepted jobs still end; a pool loses as many workers as it runs such jobs. Three
requests on one place and two workers reach the same in the composition, with one run in
each stage. Two upstream bodies give match and divergence, a third the parse failure,
and the NaN body of `shadow_overlap` the answer that cannot be rendered. A size
configured as 0, which the executor takes as 1, is left to the theorems, which hold for
it. For the primary call the third attempt is the first to have both a predecessor that
was itself a retry and no budget left. Three saves put one in the lock, one waiting for
it and one already failed with its row still in the open transaction. Two runs of the
lifespan are the fewest in which one finds what another has left, whether it ended,
failed to start or failed to close its database or its client; two handlers meet a shutdown at different
dependencies. Three requests and one worker let a task inherit from one that has itself
inherited, a worker run the jobs of different requests in turn, and a job run after its
request is over or after another one has come with the same id. Two models tell the
client's from a default, and one default from the other. `MaxRuns` is the only bound
that the program does not have; the jobs, requests and attempts are finite sets, so
every counter is, and crashes and restarts of the repository and the executor may repeat
for ever.

`CHECK_DEADLOCK FALSE` stands where the system really stops: a service that has
shut down, a call that has returned, an evaluation that is done. An executor can
always be started or stopped again, and its run checks deadlock.

*Type invariants.* Each component states a `TypeOK`. They are theorems (section 5), and
only the repository's, which also says who holds the lock, is repeated in a run.

*Fairness.* Weak fairness of a worker's and a handler's steps is what the event loop
gives a ready task; that a call ends (`JobEnds`, `RunStep`, `PrimaryStep`) rests on the
timeouts the two services pass to httpx, and that the database's thread gets through its
calls on sqlite3's timeout for a locked file. The httpx timeouts bound each phase of a
call, not the whole of it, so an upstream that sends a byte at a time is outside what
the liveness properties claim. The `Spec` of `ShadowMode` assumes fairness of the
primary path alone, and `ImplementsProxy` is checked under it: the candidate, the
workers and the database may hang. What needs them (`ShadowRunsEnd`,
`ShutdownCompletes`, the liveness of `ImplementsExecutor`) names `ShadowFairness` as its
premise. In `Lifespan` the steps of a shutdown that has begun are fair: cancelled
workers end (`StopCompletes`, of the executor), and the connection's thread and the HTTP
client answer a close, or raise. A startup is not fair, and a shutdown need not begin. Starting,
stopping, submitting, sending and reconfiguring are never fair.

## 4. Findings

* `evaluator_exact`: actions are compared with Python's `==`, so `true`, `1` and
  `1.0` match "exactly".
* `shadow_uncounted`: an exception of the primary call that is not a
  `PrimaryLLMError` leaves the request counted as received only.
* `lifespan_settings`: an application built by `create_app(settings)` runs its lifespan
  on these settings, its requests on the cached ones of the environment.
* `request_context_twice`: the answer to a failed primary call has it twice, from the
  error handler and from the middleware.

Five smaller divergences are visible in the modules and have no run of their own. The
backoff is documented as "full jitter" (`src/README.md:33-34` and `:283`, and the docstring
at `src/app/services/primary_llm_service.py:171`), which is a sleep anywhere between nothing
and the exponential backoff; line 178 adds the jitter on top of it, so that no sleep is
shorter than the backoff, and all sleeps are equal once the backoff reaches the cap
(`BackoffDelay`; the theorem `JitterIsOnTop`). A response that Python reads as JSON with a
NaN in it is a success of the primary for the metrics and a 500 for the client, whom
`JSONResponse` cannot render it for (`Renders`), although `src/README.md:284-285` says "Any
real HTTP response (including 4xx) is passed through unchanged." The
schema of `GET /metrics` says that `shadow_dropped` counts calls of a disabled or
unconfigured candidate, and a full queue counts there too (`Drop`). A response that is
not JSON is wrapped, not passed through unchanged (`ParseJsonBody`). The answer to an
unexpected exception is made outside the middleware and has no `X-Request-ID` (`Raise`).

## 5. Theorems

Each theorem holds for every value of the constants that the module's assumption admits:
sizes that are natural numbers and a `NoJob` (`NoTrace`) that is not a job (trace) for
the executor, the service and the repository; any number of runs, and both kinds of
server, for the lifespan; ids that are not mistaken for one another or for a worker for
the request context; a natural number of retries, a positive backoff base and a positive
cap for the primary call; any set of actions for the evaluator. Jobs, requests, workers
and traces may be any number. Safety is proved of the specification without its
fairness, which says more, and is what lets a composition use a component's theorems:
the component inside it need not be fair.

**`ShadowExecutorProofs`.** `ExecInv` is the inductive invariant. `ExactlyOnePlace` is
not inductive alone: that `Take` leaves a job in one place needs that the queue
repeats nothing and that no live worker shares its job, and so that only live
workers hold jobs, also while `stop()` is under way. The count of unfinished tasks
(`TaskDoneBalanced`) keeps its type only because it equals the queue's length plus
the busy workers. From it follow `ExecutorTypeOK` (and so that `task_done()` never
goes below zero), `WorkIsBounded` (the busy workers are a subset of the pool),
`JobsStayInOnePlace`, `PoolStaysIntact`, `TasksAreBalanced` and `OnlyLiveTasksHoldJobs`.
Three theorems say what no step does: `FatesAreFinal` (no job is begun twice, or let go
of before it is over), `QueueKeepsOrder` (first in, first out, by the positions in the
queue) and `StoppingWindsDown` (every worker step of a pool told to stop ends a task).

`ExecutorRefinesPool`, in the same module: every step of the executor is a
step of `BestEffortPool` or leaves what the pool sees as it is. The pool counts jobs
by their status, the executor has a queue and workers: that both counts agree
(a queue without repetition, a worker per running job) is what its lemmas show.

**`ShadowModeProofs`.** `Placed` joins four parts. The executor's own invariant comes
from `ShadowExecutorProofs`, instantiated, once every step of the service is shown
to be a step of the executor or to leave it alone. `LifespanInv` ties the phase to
the executor's flags and the live workers. `FutureInv` says that a pending future
has a handler inside the primary call, a resolved one a handler past it, and that
futures are cancelled only once the shutdown has begun. `StageInv` says which
requests have a future, and where the run of an accepted one is. They need each
other: which futures a shutdown cancels depends on the stages, and how a run goes
on depends on its future. From it follow `NoWaitIsOrphaned`, `FuturesAreSettledOnce`,
`ResourcesAreClosedLast`, and `ServiceRefinesExecutor`: a run never awaits a
cancelled future while its worker is not being cancelled, so the pipeline's re-raise
never ends a worker, and the service implements the executor whose jobs raise no
`CancelledError` of their own. Read with jobs that might, it still is the executor
(`ServiceRunsExecutor`), which makes the executor's theorems theorems of the service:
`ServiceRefinesPool` (its mirrored requests meet a best-effort pool),
`ShadowWorkIsBounded`, and, with `Placed`, `NoWorkerIsLost`. `NoWorkerIsStuck` says whom
a busy worker waits for, which is what `ShadowRunsEnd` needs besides fairness.

**`ShadowModeServiceProofs`.** `LedgerInv` adds the three ledgers, the counters' type and
that finitely many requests have been sent (a set of requests can be counted only
if it is finite, and `Requests` need not be). Each step moves one request from one
counted set to another or to a counter (`HandlerMoves`, `CounterFollows`); the lemmas on
adding and removing one element turn that into arithmetic. `RequestLedger` states each
counter by itself, so that no two errors can cancel out.

`ServiceInv` adds the types of the data (`DataOK`) and
`TraceInv`: a run that saves has two responses that diverge, and once its row is there
the run never saves again, because its worker has been cancelled or is past the save.
That matches and rows stay within the evaluations is not inductive, since the row of an
evaluation comes later than its counter: `MatchedOrKept` counts the runs that are about
to save with the rows. `TracesRecordDivergences` and `ServiceTypeOK` follow.
`AcceptedJobsReachThePool` is an action property; it needs `DrainInv`, that no handler is at work once a draining server
has begun to shut down, and that only handlers submit. `ServiceRefinesProxy` maps a
request to what its client sees of it: a step of a worker, of the pool or of the
lifespan leaves that alone (`ClientsUndisturbed`), a step of a handler is a step of
`PrimaryProxy` for the same request. `ShutdownStopsShadowWork` says that a shutdown, once
begun, is the end of all runs and of their counters, although handlers may go on.

**`EvaluatorProofs`.** Python's `==` is symmetric and transitive on actions of any nesting,
and reflexive but for NaN; the rest is what each path of `evaluate()` returns (`EvaluateFields`).
`MatchesLeaveNoTrace` and `SidesDoNotMatter` are the two invariants of `Comparison`.
`MatchesAreExactButForNumbers` is what remains of the exactness that the run
`evaluator_exact` refutes: actions that match are nested alike and differ, at the top or
inside, only in the types of numbers worth the same. `EchoMatches`, `MatchingIsTransitive` and `NoActionsNoTrace`
are facts about any responses.

**`PrimaryLLMProofs`.** `CallInv` relates the attempt number, the outcomes seen, the
sleeps and the last error at each point of the loop: the time slept stays within the cap
times the attempts begun, although the properties speak of the whole call.
`CallsAreBounded`, `RetryAfterIsHonoured`, `RetriesAreTransient` and `LastErrorIsRaised`
follow. `ForwardingRefinesPrimary` carries them over to `Forwarding`, whose `ForwardInv`
says that the shared payload is still what the client sent, so that a retry and a job yet
to run will send the right thing too; `DefaultsStayApart` and `RetriesSendOneBody`
follow. `EveryStepBringsTheEnd` gives the variant by which a call ends: `StepsLeft`
decreases with every step, so there are at most twice the retries and one of them.

**`TraceRepositoryProofs`.** That a persisted trace is in the file needs that its row
was in the open transaction when the commit ran, although a failing statement may roll
the transaction back. `RepositoryInv` therefore says that before `stop()` the thread has
one call at most, the lock holder's (`ThreadServesHolder`), so that no statement of
another save can come between, and where a holder's row is (`RowInv`). After `stop()`
that fails, for cancelled saves leave their calls behind (`StrayCalls`), but then
nothing is acknowledged any more. `AcknowledgedIsDurable`, `WritersAreSerial` and
`RepositoryRefinesStore` (every step is a step of `TraceStore` or none) follow.
`NoSaveIsStuck` says what each save waits for, which is what `SavesEnd` needs besides
fairness, and `TableOnlyGrows` what a commit may add. `RowsAreOfSavesThatWrote`, that a
row never belongs to a save still on its way, needs one more invariant for the time after
`stop()`: as long as a save holds the lock, the thread's call is its own (`HolderCalls`).

**`LifespanProofs`.** `LifespanOK` and `RunOK` say what each step has set, opened and
not yet closed. They restrict what earlier runs left in only two ways, which are what
`ReadyMeansComplete` rests on: no pool of an earlier run is running, and no attribute is
of a run to come. So a running pool is of the current run, which set its pool last.
`HandlersOK` adds that whoever got past the start finds every attribute but the client
(`Present`), and `DrainOK` that on a draining server a handler's dependencies are the
current run's, which is being served; `LateHandlersAreRefused` and `HandlersKeepOneRun`
follow. `OnlyFailuresLeak` lists what may be open when a run is over: nothing if it
ended, the client and perhaps the database if a wait of its startup, `close()` or
`aclose()` raised. `PastRunsAreSettled` adds that no later run closes it.

**`RequestContextProofs`.** `ContextInv` has one part per request (`RequestOK`) and one
per worker (`WorkerOK`). What a worker binds was read in another task at another time:
that it is the request's own id rests on a job having been submitted by its handler,
when the id was bound, and on a request binding an id once; that the worker's context is
clean afterwards, on its token being that of a clean context. That a taken job is one
that was submitted comes from the executor's invariant, instantiated, of which
`ContextRefinesExecutor` is the counterpart for behaviours. `IdsAreSettledBySubmission`
is the fact the argument turns on, as an action property.

## 6. What is only model-checked, and what is not modelled

Liveness (`AcceptedJobsEnd`, `StopCompletes`, `ShadowRunsEnd`, `ShutdownCompletes`,
`ShutdownReleases`, `CallEnds`, `SavesEnd` and the fairness part of the four
refinements) is out of the prover's reach and stays with TLC. For four of them the
safety they rest on is proved: that nobody waits for nobody (`NoWorkerIsStuck`,
`NoSaveIsStuck`), that a stop only winds down (`StoppingWindsDown`) and that a call has a
variant (`EveryStepBringsTheEnd`). Every invariant and every action property of a run has
a theorem.

Not modelled:

* latency sums and the averages and the rate derived from them: floating-point values
  that no other part of the program reads;
* the settings' declarations and validators: pydantic's work, and their ranges are the
  assumptions on the constants;
* levels, formats and durations of log records; the schemas; routes that only read
  (`GET /metrics`, `GET /config`, the liveness probe's constants);
* what a response's `is_running` hides: the flag stays set while `stop()` waits and for
  workers that died. No property says that a pool that looks running works; that its
  workers are there is `PoolIntact`, with the exception of self-cancelling jobs stated
  there;
* the upstreams, SQLite and the server, beyond what they may answer.

## 7. Plan

1. (done) `ShadowExecutor` with `BestEffortPool`: everything else runs on it.
2. (done) `Evaluator`, then `ShadowMode` with `PrimaryProxy`: the interplay of
   handlers, workers, futures and shutdown.
3. (done) `PrimaryLLM`.
4. (done) `TraceRepository` with `TraceStore`.
5. (done) Proofs of the executor, the service's futures and ledgers, the primary call
   and the repository, with the safety part of three refinements.
6. (done) `Lifespan` with readiness and the providers, and its proofs.
7. (done) `RequestContext`, and its proofs.
8. (done) `Forwarding`.
9. (done) The rest of `ShadowMode`'s proofs: types, traces, jobs for a running pool, and
   the safety part of `ImplementsProxy`.
10. (done) Proofs of `Forwarding`.
11. (done) The evaluator's theorems; the executor's theorems inside its compositions; the
    safety that the liveness properties rest on.
12. Left: one inductive argument for what a row in `ShadowMode` (`MayKeepRow`) and a
    row in `TraceRepository` have in common, which is stated in prose only.

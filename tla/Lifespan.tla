------------------------------- MODULE Lifespan -------------------------------
(***************************************************************************)
(* What app/main.py builds and takes down: create_app(), the lifespan with *)
(* every point where it waits and may fail, app.state, the dependencies a  *)
(* chat request resolves from it (app/api/deps.py) and the readiness probe *)
(* (app/api/routes/health.py).                                             *)
(*                                                                         *)
(* The application object may be started again after it has ended (a test  *)
(* harness does, a server does not): each run builds its own resources and *)
(* overwrites app.state, which keeps what an earlier run left in it.       *)
(***************************************************************************)
EXTENDS Naturals, Sequences, Functions

CONSTANTS
    Handlers,        \* chat requests that resolve their dependencies
    Configurations,  \* the settings an application may be built with
    MaxRuns,         \* bound: how often the lifespan is entered
    Servers          \* the servers, by whether they drain

ASSUME LifespanAssumption ==
    /\ MaxRuns \in Nat
    /\ Servers \subseteq BOOLEAN

VARIABLES
    drains,       \* does the server finish requests before shutdown?
    cached,       \* what get_settings() has cached since the import
    appSettings,  \* app.state.settings
    step,         \* where the lifespan is
    run,          \* which entry of the lifespan this is; 0: none yet
    state,        \* the other attributes of app.state: the run each is from
    open,         \* what is open: <<resource, run>>
    tables,       \* the runs whose database has its table
    handler,      \* where each handler is
    resolved      \* the dependencies each handler holds, in order

lifespanVars == <<drains, cached, appSettings, step, run, state, open, tables>>
handlerVars == <<handler, resolved>>
vars == <<lifespanVars, handlerVars>>

Runs == 1 .. MaxRuns
Attributes == {"http_client", "metrics", "runtime_config",
               "trace_repository", "shadow_executor"}
Resources == {"client", "db", "pool"}
Waits == {"connecting", "creating", "committing"}
Over == {"out", "ended", "startFailed", "closeFailed"}
Steps == Waits \cup Over \cup {"serving", "stopping", "closingDb", "closingClient"}

\* The order in which FastAPI resolves the parameters of chat(); a value is
\* resolved once per request.
Order == <<"http_client", "metrics", "trace_repository", "shadow_executor",
           "runtime_config">>

\* The import of app.main builds an application with the cached settings.
Init ==
    /\ drains \in Servers
    /\ cached \in Configurations
    /\ appSettings = cached
    /\ step = "out"
    /\ run = 0
    /\ state = [a \in Attributes |-> 0]
    /\ open = {}
    /\ tables = {}
    /\ handler = [h \in Handlers |-> "idle"]
    /\ resolved = [h \in Handlers |-> <<>>]

\* create_app(settings): a new application, whose state is empty.
CreateApp ==
    /\ step = "out"
    /\ appSettings' \in Configurations
    /\ UNCHANGED <<drains, cached, step, run, state, open, tables, handlerVars>>

-----------------------------------------------------------------------------
\* The lifespan.  Mine marks what the current run sets in app.state.

Mine(attributes) ==
    [a \in Attributes |-> IF a \in attributes THEN run' ELSE state[a]]

\* The lifespan goes from one wait to the next.
Goes(from, to) ==
    /\ step = from
    /\ step' = to
    /\ UNCHANGED <<drains, cached, appSettings, run, handlerVars>>

Opens(resource) == open' = open \cup {<<resource, run'>>}
Closes(resource) == open' = open \ {<<resource, run>>}

\* (Variant: the pool is started before the repository is initialized.)
Enter_PoolFirst ==
    /\ step \in Over
    /\ run < MaxRuns
    /\ run' = run + 1
    /\ state' = Mine(Attributes)
    /\ open' = open \cup {"client", "pool"} \X {run'}
    /\ step' \in {"connecting", "startFailed"}
    /\ UNCHANGED <<drains, cached, appSettings, tables, handlerVars>>

\* Up to the first wait, inside initialize().  Making the directory may fail.
Enter ==
    /\ step \in Over
    /\ run < MaxRuns
    /\ run' = run + 1
    /\ state' = Mine({"http_client", "metrics", "runtime_config", "trace_repository"})
    /\ Opens("client")
    /\ step' \in {"connecting", "startFailed"}
    /\ UNCHANGED <<drains, cached, appSettings, tables, handlerVars>>

\* aiosqlite.connect() returns.
Connected ==
    /\ Goes("connecting", "creating")
    /\ Opens("db")
    /\ UNCHANGED <<state, tables>>

Created ==
    /\ Goes("creating", "committing")
    /\ UNCHANGED <<state, open, tables>>

\* initialize() returns; start() does not wait.
Committed ==
    /\ Goes("committing", "serving")
    /\ tables' = tables \cup {run}
    /\ state' = Mine({"shadow_executor"})
    /\ Opens("pool")

\* One of the calls of initialize() raises: the lifespan has not reached its
\* try statement, so nothing is closed.
StartFails ==
    /\ \E wait \in Waits : Goes(wait, "startFailed")
    /\ UNCHANGED <<state, open, tables>>

Unserved == {h \in Handlers : handler[h] \in {"resolving", "running"}}

\* (Variant: the server does not wait for the requests it has accepted.)
Shutdown_NoDrain ==
    /\ Goes("serving", "stopping")
    /\ UNCHANGED <<state, open, tables>>

\* The finally clause, up to stop()'s wait for the workers it has cancelled.
Shutdown ==
    /\ Goes("serving", "stopping")
    /\ drains => Unserved = {}
    /\ UNCHANGED <<state, open, tables>>

\* stop() resets _started; close() asks the connection's thread to close.
Stopped ==
    /\ Goes("stopping", "closingDb")
    /\ Closes("pool")
    /\ UNCHANGED <<state, tables>>

DbClosed ==
    /\ Goes("closingDb", "closingClient")
    /\ Closes("db")
    /\ UNCHANGED <<state, tables>>

\* close() or aclose() raises: what was still open stays open, the client in
\* any case, and http_client stays set.
CloseFails ==
    /\ \E wait \in {"closingDb", "closingClient"} : Goes(wait, "closeFailed")
    /\ UNCHANGED <<state, open, tables>>

\* (Variant: the repository is forgotten with the client.)
ClientClosed_ForgetsRepository ==
    /\ Goes("closingClient", "ended")
    /\ Closes("client")
    /\ state' = [state EXCEPT !.http_client = 0, !.trace_repository = 0]
    /\ UNCHANGED tables

\* (Variant: the attribute is reset and the client is not closed.)
ClientClosed_OnlyForgotten ==
    /\ Goes("closingClient", "ended")
    /\ state' = [state EXCEPT !.http_client = 0]
    /\ UNCHANGED <<open, tables>>

\* aclose() returns; only http_client is set to None.
ClientClosed ==
    /\ Goes("closingClient", "ended")
    /\ Closes("client")
    /\ state' = [state EXCEPT !.http_client = 0]
    /\ UNCHANGED tables

-----------------------------------------------------------------------------
\* A chat request.  The providers are plain functions, which FastAPI runs in
\* a thread: other tasks run between one dependency and the next.

Serving ==
    IF drains THEN step = "serving"
    ELSE step \notin Waits \cup {"out", "startFailed"}

\* SettingsDep is get_settings(): the cached settings, not app.state's.
SettingsDep == cached

Receive(h) ==
    /\ Serving
    /\ handler[h] = "idle"
    /\ handler' = [handler EXCEPT ![h] = "resolving"]
    /\ UNCHANGED <<lifespanVars, resolved>>

\* The next provider returns the attribute, or raises when there is none.
Resolve(h) ==
    /\ handler[h] = "resolving"
    /\ LET next == Order[Len(resolved[h]) + 1]
           all  == Len(resolved[h]) + 1 = Len(Order)
       IN  IF state[next] = 0
             THEN /\ handler' = [handler EXCEPT ![h] = "error"]
                  /\ UNCHANGED resolved
             ELSE /\ resolved' = [resolved EXCEPT ![h] = Append(@, state[next])]
                  /\ handler' = [handler EXCEPT ![h] =
                                   IF all THEN "running" ELSE @]
    /\ UNCHANGED lifespanVars

\* The handler ends; its client may send another request.
Finish(h) ==
    /\ handler[h] \in {"running", "error"}
    /\ handler' = [handler EXCEPT ![h] = "idle"]
    /\ resolved' = [resolved EXCEPT ![h] = <<>>]
    /\ UNCHANGED lifespanVars

-----------------------------------------------------------------------------

ShutdownStep == Stopped \/ DbClosed \/ CloseFails \/ ClientClosed

LifespanStep ==
    \/ CreateApp
    \/ Enter
    \/ Connected
    \/ Created
    \/ Committed
    \/ StartFails
    \/ Shutdown
    \/ ShutdownStep

Next ==
    \/ LifespanStep
    \/ \E h \in Handlers : Receive(h) \/ Resolve(h) \/ Finish(h)

SafeSpec == Init /\ [][Next]_vars

\* The event loop goes on with a shutdown that has begun: the workers end when
\* they are cancelled (ShadowExecutor's StopCompletes), and the connection's
\* thread and the client answer.
Spec == SafeSpec /\ WF_vars(ShutdownStep)

-----------------------------------------------------------------------------
\* Readiness and the properties.

IsRunning == state["shadow_executor"] # 0 /\ <<"pool", state["shadow_executor"]>> \in open
IsReady == state["trace_repository"] # 0 /\ <<"db", state["trace_repository"]>> \in open

\* GET /health/ready: no wait, so one look at one state.
Ready ==
    /\ state["http_client"] # 0
    /\ state["metrics"] # 0
    /\ IsRunning
    /\ IsReady

\* Every variable has its type.
TypeOK ==
    /\ drains \in BOOLEAN
    /\ {cached, appSettings} \subseteq Configurations
    /\ step \in Steps
    /\ run \in 0 .. MaxRuns
    /\ state \in [Attributes -> 0 .. MaxRuns]
    /\ open \subseteq Resources \X Runs
    /\ tables \subseteq Runs
    /\ handler \in [Handlers -> {"idle", "resolving", "running", "error"}]
    /\ resolved \in [Handlers -> Seq(Runs)]
    /\ \A h \in Handlers : Len(resolved[h]) <= Len(Order)

\* Readiness looks at four attributes, each on its own.  When it says ready,
\* all five are of the current run, its client, its database and its pool are
\* open and its table is there: no mixture of runs and no half-built one ever
\* looks ready, not even to a probe that runs between two waits of the startup.
ReadyIsComplete ==
    Ready => /\ \A a \in Attributes : state[a] = run
             /\ Resources \X {run} \subseteq open
             /\ run \in tables

\* On a server that drains, a handler holds dependencies of one run, all of
\* them open, although each was fetched at a time of its own.
HandlersHoldOneRun ==
    drains =>
        \A h \in Handlers :
            handler[h] = "running" =>
                /\ Range(resolved[h]) = {run}
                /\ Resources \X {run} \subseteq open

\* On a server that does not, a handler that comes too late is refused at its
\* first dependency: no handler finds the second half of its dependencies gone.
RefusedAtOnce ==
    \A h \in Handlers : handler[h] = "error" => resolved[h] = <<>>

\* A shutdown that has begun releases all the run had opened, unless closing
\* the database or the client fails.
ShutdownReleases ==
    \A n \in Runs :
        step = "stopping" /\ run = n
            ~> (step = "closeFailed" \/ (Resources \X {n}) \cap open = {})

-----------------------------------------------------------------------------
\* What the documentation says and the code does not do.

\* app/main.py: the lifespan and the dependencies read the settings the
\* application was built with off app.state.
DependenciesReadAppSettings == SettingsDep = appSettings
===============================================================================

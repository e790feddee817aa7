---------------------------- MODULE LifespanProofs ----------------------------
(***************************************************************************)
(* Theorems about Lifespan, for every set of handlers and configurations   *)
(* and every number of runs of the lifespan.                               *)
(***************************************************************************)
EXTENDS Lifespan, SequenceTheorems, TLAPS

-----------------------------------------------------------------------------
\* The inductive invariant of the lifespan: what each of its steps has opened,
\* set and not yet closed.  What earlier runs left open or in app.state is not
\* restricted, but for two things: no pool of theirs is running, and what they
\* set is of theirs.

\* Set before the first wait.
Early == Attributes \ {"shadow_executor"}
Started == {"serving", "stopping", "closingDb", "closingClient"}

LifespanOK ==
    /\ step \in Steps
    /\ run \in 0 .. MaxRuns
    /\ step = "out" <=> run = 0
    /\ state \in [Attributes -> 0 .. MaxRuns]
    /\ open \subseteq Resources \X Runs
    /\ tables \subseteq Runs

RunOK ==
    /\ \A n \in Runs : <<"pool", n>> \in open => n = run /\ step \in {"serving", "stopping"}
    /\ step \in {"serving", "stopping"} => <<"pool", run>> \in open
    /\ step \in Waits \cup Started => /\ \A a \in Early : state[a] = run
                                      /\ <<"client", run>> \in open
    /\ step \in {"creating", "committing", "serving", "stopping", "closingDb"}
         => <<"db", run>> \in open
    /\ step \in Started => state["shadow_executor"] = run /\ run \in tables

LEMMA LifespanOKInit == Init => LifespanOK /\ RunOK
BY LifespanAssumption
   DEF Init, LifespanOK, RunOK, Steps, Over, Waits, Started, Attributes, Runs

LEMMA HandlersLeaveLifespan ==
  ASSUME NEW h \in Handlers, Receive(h) \/ Resolve(h) \/ Finish(h)
  PROVE  UNCHANGED lifespanVars
BY DEF Receive, Resolve, Finish

LEMMA EnterKeeps ==
  ASSUME LifespanOK, RunOK, Enter
  PROVE  LifespanOK' /\ RunOK'
<1>1. run' = run + 1 /\ run' \in Runs /\ run' # run
  BY LifespanAssumption DEF Enter, LifespanOK, Runs
<1>2. step' \in {"connecting", "startFailed"} /\ open' = open \cup {<<"client", run'>>}
  BY DEF Enter, Opens
<1>3. \A a \in Attributes : state'[a] = IF a \in Early THEN run' ELSE state[a]
  BY DEF Enter, Mine, Early, Attributes
<1>4. state' \in [Attributes -> 0 .. MaxRuns]
  BY <1>1 DEF Enter, Mine, LifespanOK, Runs
<1>5. \A n \in Runs : <<"pool", n>> \notin open
  BY DEF Enter, RunOK, Over
<1>6. LifespanOK'
  BY <1>1, <1>2, <1>4, LifespanAssumption
     DEF Enter, LifespanOK, Steps, Over, Waits, Resources, Runs
<1>7. RunOK'
  BY <1>1, <1>2, <1>3, <1>5 DEF RunOK, Waits, Started, Early, Attributes
<1> QED
  BY <1>6, <1>7

LEMMA LifespanOKStep == LifespanOK /\ RunOK /\ [Next]_vars => LifespanOK' /\ RunOK'
<1> SUFFICES ASSUME LifespanOK, RunOK, [Next]_vars PROVE LifespanOK' /\ RunOK'
  OBVIOUS
<1>1. CASE Enter
  BY <1>1, EnterKeeps
<1>2. CASE Connected
  <2>1. /\ step = "connecting" /\ step' = "creating" /\ run \in Runs
        /\ open' = open \cup {<<"db", run>>}
        /\ UNCHANGED <<run, state, tables>>
    BY <1>2, LifespanAssumption DEF Connected, Goes, Opens, LifespanOK, Runs
  <2> QED
    BY <2>1 DEF LifespanOK, RunOK, Steps, Waits, Started, Resources
<1>3. CASE Created \/ StartFails
  BY <1>3 DEF Created, StartFails, Goes, LifespanOK, RunOK, Steps, Over, Waits, Started
<1>4. CASE Committed
  <2>1. /\ step = "committing" /\ step' = "serving" /\ run \in Runs
        /\ open' = open \cup {<<"pool", run>>}
        /\ tables' = tables \cup {run}
        /\ run' = run
    BY <1>4, LifespanAssumption DEF Committed, Goes, Opens, LifespanOK, Runs
  <2>2. /\ state' \in [Attributes -> 0 .. MaxRuns]
        /\ \A a \in Attributes : state'[a] = IF a = "shadow_executor" THEN run ELSE state[a]
    BY <1>4, <2>1 DEF Committed, Mine, LifespanOK
  <2> QED
    BY <2>1, <2>2
       DEF LifespanOK, RunOK, Steps, Waits, Started, Resources, Early, Attributes
<1>5. CASE Shutdown
  BY <1>5 DEF Shutdown, Goes, LifespanOK, RunOK, Steps, Waits, Started
<1>6. CASE Stopped
  <2>1. /\ step = "stopping" /\ step' = "closingDb"
        /\ open' = open \ {<<"pool", run>>}
        /\ UNCHANGED <<run, state, tables>>
    BY <1>6 DEF Stopped, Goes, Closes
  <2> QED
    BY <2>1 DEF LifespanOK, RunOK, Steps, Waits, Started
<1>7. CASE DbClosed
  <2>1. /\ step = "closingDb" /\ step' = "closingClient"
        /\ open' = open \ {<<"db", run>>}
        /\ UNCHANGED <<run, state, tables>>
    BY <1>7 DEF DbClosed, Goes, Closes
  <2> QED
    BY <2>1 DEF LifespanOK, RunOK, Steps, Waits, Started
<1>8. CASE CloseFails
  BY <1>8 DEF CloseFails, Goes, LifespanOK, RunOK, Steps, Over, Waits, Started
<1>9. CASE ClientClosed
  <2>1. /\ step = "closingClient" /\ step' = "ended"
        /\ open' = open \ {<<"client", run>>}
        /\ UNCHANGED <<run, tables>>
    BY <1>9 DEF ClientClosed, Goes, Closes
  <2>2. state' \in [Attributes -> 0 .. MaxRuns]
    BY <1>9, LifespanAssumption DEF ClientClosed, LifespanOK, Attributes
  <2> QED
    BY <2>1, <2>2 DEF LifespanOK, RunOK, Steps, Over, Waits, Started
<1>10. ASSUME UNCHANGED <<step, run, state, open, tables>> PROVE LifespanOK' /\ RunOK'
  BY <1>10 DEF LifespanOK, RunOK
<1>11. CASE CreateApp \/ UNCHANGED vars
  BY <1>10, <1>11 DEF CreateApp, vars, lifespanVars
<1>12. ASSUME NEW h \in Handlers, Receive(h) \/ Resolve(h) \/ Finish(h)
       PROVE  LifespanOK' /\ RunOK'
  BY <1>10, <1>12, HandlersLeaveLifespan DEF lifespanVars
<1> QED
  BY <1>1, <1>2, <1>3, <1>4, <1>5, <1>6, <1>7, <1>8, <1>9, <1>11, <1>12
     DEF Next, LifespanStep, ShutdownStep

-----------------------------------------------------------------------------
\* Readiness.

\* A pool that runs is the current run's, and with it all else is.
LEMMA ReadyMeansRunning ==
  ASSUME LifespanOK, RunOK, Ready
  PROVE  step \in {"serving", "stopping"}
<1>1. state["shadow_executor"] \in Runs
  BY DEF Ready, IsRunning, LifespanOK, Attributes, Runs
<1> QED
  BY <1>1 DEF Ready, IsRunning, RunOK

\* What is ready is complete: whichever wait of a startup or a shutdown a
\* probe falls into, and whatever failed runs have left behind.
THEOREM ReadyMeansComplete == SafeSpec => []ReadyIsComplete
<1>1. LifespanOK /\ RunOK => ReadyIsComplete
  <2> SUFFICES ASSUME LifespanOK, RunOK, Ready
               PROVE  /\ \A a \in Attributes : state[a] = run
                      /\ Resources \X {run} \subseteq open
                      /\ run \in tables
    BY DEF ReadyIsComplete
  <2>1. step \in {"serving", "stopping"}
    BY ReadyMeansRunning
  <2> QED
    BY <2>1 DEF RunOK, Started, Early, Attributes, Resources
<1> QED
  BY <1>1, LifespanOKInit, LifespanOKStep, PTL DEF SafeSpec

-----------------------------------------------------------------------------
\* The handlers.

\* Once the lifespan has served, only the client is ever missing from
\* app.state; so a handler is refused at its first dependency or not at all.
Present == \A a \in Attributes \ {"http_client"} : state[a] # 0

HandlersOK ==
    /\ handler \in [Handlers -> {"idle", "resolving", "running", "error"}]
    /\ resolved \in [Handlers -> Seq(Runs)]
    /\ \A h \in Handlers :
          /\ Len(resolved[h]) <= Len(Order)
          /\ handler[h] \in {"idle", "error"} => resolved[h] = <<>>
          /\ handler[h] = "resolving" => Len(resolved[h]) < Len(Order)
          /\ handler[h] = "running" => Len(resolved[h]) = Len(Order)
          /\ handler[h] # "idle" => Present
    /\ step \notin Waits \cup {"out", "startFailed"} => Present

\* A server that drains serves only while the current run is up.
DrainOK ==
    drains =>
        \A h \in Handlers :
            handler[h] \in {"resolving", "running"} =>
                /\ step = "serving"
                /\ \A i \in 1 .. Len(resolved[h]) : resolved[h][i] = run

ServingInv == LifespanOK /\ RunOK /\ HandlersOK /\ DrainOK

LEMMA ServingInvInit == Init => ServingInv
<1> SUFFICES ASSUME Init PROVE ServingInv
  OBVIOUS
<1>1. HandlersOK /\ DrainOK
  BY EmptySeq DEF Init, HandlersOK, DrainOK, Order
<1> QED
  BY <1>1, LifespanOKInit DEF ServingInv

\* No step of the lifespan takes away what it has set, but the client.
LEMMA PresentStays ==
  ASSUME LifespanOK, RunOK, LifespanStep
  PROVE  /\ Present => Present'
         /\ step' \notin Waits \cup {"out", "startFailed"}
              => Present' \/ step \notin Waits \cup {"out", "startFailed"}
<1>1. CASE CreateApp \/ StartFails \/ Connected \/ Created \/ Shutdown \/ Stopped \/ DbClosed
             \/ CloseFails
  BY <1>1 DEF CreateApp, StartFails, Connected, Created, Shutdown, Stopped, DbClosed,
              CloseFails, Goes, Present, Waits
<1>2. CASE Enter
  <2>1. run' # 0 /\ step' \in Waits \cup {"out", "startFailed"}
    BY <1>2 DEF Enter, LifespanOK, Waits
  <2>2. \A a \in Attributes : state'[a] \in {run', state[a]}
    BY <1>2 DEF Enter, Mine
  <2> QED
    BY <2>1, <2>2 DEF Present
<1>3. CASE Committed
  <2>1. run' = run /\ run # 0 /\ \A a \in Early : state[a] = run
    BY <1>3 DEF Committed, Goes, LifespanOK, RunOK, Waits
  <2>2. \A a \in Attributes : state'[a] = IF a = "shadow_executor" THEN run ELSE state[a]
    BY <1>3, <2>1 DEF Committed, Mine
  <2> QED
    BY <2>1, <2>2 DEF Present, Early
<1>4. CASE ClientClosed
  <2>1. step = "closingClient"
    BY <1>4 DEF ClientClosed, Goes
  <2>2. \A a \in Attributes \ {"http_client"} : state'[a] = state[a]
    BY <1>4 DEF ClientClosed, LifespanOK
  <2> QED
    BY <2>1, <2>2 DEF Present, Waits
<1> QED
  BY <1>1, <1>2, <1>3, <1>4 DEF LifespanStep, ShutdownStep

\* The lifespan leaves the handlers alone, and on a server that drains it
\* leaves "serving" only when none is at work.
LEMMA LifespanKeepsHandlers ==
  ASSUME ServingInv, LifespanStep
  PROVE  HandlersOK' /\ DrainOK'
<1>1. UNCHANGED <<handler, resolved>>
  BY DEF LifespanStep, ShutdownStep, CreateApp, Enter, Connected, Created, Committed, StartFails,
         Shutdown, Stopped, DbClosed, CloseFails, ClientClosed, Goes, handlerVars
<1>2. HandlersOK'
  <2>1. (Present => Present')
        /\ (step' \notin Waits \cup {"out", "startFailed"} => Present')
    BY PresentStays DEF ServingInv, HandlersOK
  <2> QED
    BY <1>1, <2>1 DEF ServingInv, HandlersOK
<1>3. DrainOK'
  <2>0. UNCHANGED drains
    BY DEF LifespanStep, ShutdownStep, CreateApp, Enter, Connected, Created, Committed, StartFails,
           Shutdown, Stopped, DbClosed, CloseFails, ClientClosed, Goes
  <2> SUFFICES ASSUME drains, NEW h \in Handlers,
                      handler[h] \in {"resolving", "running"}
               PROVE  UNCHANGED <<step, run>>
    BY <1>1, <2>0 DEF ServingInv, DrainOK
  <2>1. step = "serving" /\ h \in Unserved
    BY DEF ServingInv, DrainOK, Unserved
  <2> QED
    BY <2>1 DEF LifespanStep, ShutdownStep, CreateApp, Enter, Connected, Created, Committed,
                StartFails, Shutdown, Stopped, DbClosed, CloseFails, ClientClosed, Goes, Over,
                Waits
<1> QED
  BY <1>2, <1>3

\* A provider that finds its attribute.
LEMMA ResolveKeeps ==
  ASSUME ServingInv, NEW h \in Handlers, Resolve(h)
  PROVE  HandlersOK' /\ DrainOK'
<1> DEFINE next == Order[Len(resolved[h]) + 1]
<1>0. /\ handler[h] = "resolving" /\ UNCHANGED lifespanVars
      /\ resolved[h] \in Seq(Runs) /\ Len(resolved[h]) < Len(Order)
      /\ Len(resolved[h]) \in Nat
      /\ Present
  BY LenProperties DEF Resolve, ServingInv, HandlersOK
<1>1. Len(Order) = 5 /\ next \in Attributes /\ (next = "http_client" => Len(resolved[h]) = 0)
  <2>1. Len(resolved[h]) + 1 \in 1 .. 5
    BY <1>0 DEF Order
  <2> QED
    BY <2>1 DEF Order, Attributes
<1>2. \A g \in Handlers \ {h} : handler'[g] = handler[g] /\ resolved'[g] = resolved[g]
  BY DEF Resolve, ServingInv, HandlersOK
<1>3. CASE state[next] = 0
  <2>1. handler' = [handler EXCEPT ![h] = "error"] /\ resolved' = resolved
    BY <1>3 DEF Resolve
  <2>2. resolved[h] = <<>>
    BY <1>0, <1>1, <1>3, EmptySeq DEF Present
  <2>3. HandlersOK'
    BY <1>0, <2>1, <2>2 DEF ServingInv, HandlersOK, lifespanVars, Present
  <2>4. DrainOK'
    BY <1>0, <2>1 DEF ServingInv, DrainOK, HandlersOK, lifespanVars
  <2> QED
    BY <2>3, <2>4
<1>4. CASE state[next] # 0
  <2>1. state[next] \in Runs
    BY <1>1, <1>4, LifespanAssumption DEF ServingInv, LifespanOK, Runs
  <2>2. /\ resolved' = [resolved EXCEPT ![h] = Append(@, state[next])]
        /\ handler' = [handler EXCEPT ![h] =
                          IF Len(resolved[h]) + 1 = Len(Order) THEN "running" ELSE @]
    BY <1>4 DEF Resolve
  <2>3. resolved'[h] = Append(resolved[h], state[next])
    BY <2>2 DEF ServingInv, HandlersOK
  <2>4. /\ resolved'[h] \in Seq(Runs)
        /\ Len(resolved'[h]) = Len(resolved[h]) + 1
        /\ \A i \in 1 .. Len(resolved[h]) : resolved'[h][i] = resolved[h][i]
        /\ resolved'[h][Len(resolved[h]) + 1] = state[next]
    BY <1>0, <2>1, <2>3, AppendProperties
  <2>5. handler'[h] = IF Len(resolved'[h]) = Len(Order) THEN "running" ELSE "resolving"
    BY <1>0, <2>2, <2>4 DEF ServingInv, HandlersOK
  <2>6. HandlersOK'
    <3>1. handler' \in [Handlers -> {"idle", "resolving", "running", "error"}]
      BY <2>2 DEF ServingInv, HandlersOK
    <3>2. Present' /\ (step' \notin Waits \cup {"out", "startFailed"} => Present')
      BY <1>0 DEF Present, lifespanVars
    <3>3. resolved' \in [Handlers -> Seq(Runs)]
      BY <2>2, <2>3, <2>4 DEF ServingInv, HandlersOK
    <3>4. /\ Len(resolved'[h]) <= Len(Order)
          /\ Len(resolved'[h]) < Len(Order) \/ handler'[h] = "running"
          /\ handler'[h] = "running" => Len(resolved'[h]) = Len(Order)
          /\ handler'[h] \in {"resolving", "running"}
      BY <1>0, <1>1, <2>4, <2>5
    <3> QED
      BY <1>2, <3>1, <3>2, <3>3, <3>4 DEF ServingInv, HandlersOK
  <2>7. DrainOK'
    <3> SUFFICES ASSUME drains PROVE DrainOK'
      BY <1>0 DEF DrainOK, lifespanVars
    <3>1. /\ step = "serving" /\ \A i \in 1 .. Len(resolved[h]) : resolved[h][i] = run
      BY <1>0 DEF ServingInv, DrainOK
    <3>2. state[next] = run
      BY <1>1, <3>1 DEF ServingInv, RunOK, Waits, Started, Early, Attributes
    <3>3. \A i \in 1 .. Len(resolved'[h]) : resolved'[h][i] = run
      BY <1>0, <2>4, <3>1, <3>2
    <3> QED
      BY <1>0, <1>2, <3>1, <3>3 DEF ServingInv, DrainOK, lifespanVars
  <2> QED
    BY <2>6, <2>7
<1> QED
  BY <1>3, <1>4

LEMMA ServingInvStep == ServingInv /\ [Next]_vars => ServingInv'
<1> SUFFICES ASSUME ServingInv, [Next]_vars PROVE ServingInv'
  OBVIOUS
<1>1. LifespanOK' /\ RunOK'
  BY LifespanOKStep DEF ServingInv
<1>2. ASSUME NEW h \in Handlers, Receive(h) PROVE HandlersOK' /\ DrainOK'
  <2>1. /\ handler[h] = "idle" /\ handler' = [handler EXCEPT ![h] = "resolving"]
        /\ resolved' = resolved /\ resolved[h] = <<>>
        /\ UNCHANGED <<drains, step, run, state>>
    BY <1>2 DEF Receive, lifespanVars, ServingInv, HandlersOK
  <2>2. Len(resolved[h]) = 0 /\ Len(Order) = 5
    BY <2>1, EmptySeq DEF Order
  <2>3. Present /\ (drains => step = "serving")
    BY <1>2 DEF Receive, Serving, ServingInv, HandlersOK, Waits
  <2>4. HandlersOK'
    BY <2>1, <2>2, <2>3 DEF ServingInv, HandlersOK, Present
  <2>5. DrainOK'
    BY <2>1, <2>2, <2>3 DEF ServingInv, HandlersOK, DrainOK
  <2> QED
    BY <2>4, <2>5
<1>3. ASSUME NEW h \in Handlers, Finish(h) PROVE HandlersOK' /\ DrainOK'
  <2>1. /\ handler' = [handler EXCEPT ![h] = "idle"]
        /\ resolved' = [resolved EXCEPT ![h] = <<>>]
        /\ UNCHANGED <<drains, step, run, state>>
    BY <1>3 DEF Finish, lifespanVars
  <2>2. <<>> \in Seq(Runs) /\ Len(<<>>) = 0 /\ Len(Order) = 5
    BY EmptySeq DEF Order
  <2>3. \A g \in Handlers \ {h} : handler'[g] = handler[g] /\ resolved'[g] = resolved[g]
    BY <2>1 DEF ServingInv, HandlersOK
  <2>4. handler'[h] = "idle" /\ resolved'[h] = <<>>
    BY <1>3, <2>1 DEF Finish, ServingInv, HandlersOK
  <2>5. HandlersOK'
    BY <2>1, <2>2, <2>3, <2>4 DEF ServingInv, HandlersOK, Present
  <2>6. DrainOK'
    BY <2>1, <2>3, <2>4 DEF ServingInv, DrainOK
  <2> QED
    BY <2>5, <2>6
<1>4. ASSUME UNCHANGED vars PROVE HandlersOK' /\ DrainOK'
  BY <1>4 DEF vars, lifespanVars, handlerVars, ServingInv, HandlersOK, DrainOK, Present
<1>5. HandlersOK' /\ DrainOK'
  BY <1>2, <1>3, <1>4, LifespanKeepsHandlers, ResolveKeeps DEF Next
<1> QED
  BY <1>1, <1>5 DEF ServingInv

THEOREM ServingInvariant == SafeSpec => []ServingInv
BY ServingInvInit, ServingInvStep, PTL DEF SafeSpec

\* On a server that drains, no handler runs with dependencies of two runs or
\* with one that is closed.
THEOREM HandlersKeepOneRun == SafeSpec => []HandlersHoldOneRun
<1>1. ServingInv => HandlersHoldOneRun
  <2> SUFFICES ASSUME ServingInv, drains, NEW h \in Handlers, handler[h] = "running"
               PROVE  Range(resolved[h]) = {run} /\ Resources \X {run} \subseteq open
    BY DEF HandlersHoldOneRun
  <2>1. step = "serving" /\ \A i \in 1 .. Len(resolved[h]) : resolved[h][i] = run
    BY DEF ServingInv, DrainOK
  <2>2. resolved[h] \in Seq(Runs) /\ Len(resolved[h]) = 5
    BY DEF ServingInv, HandlersOK, Order
  <2>3. DOMAIN resolved[h] = 1 .. 5
    BY <2>2, LenProperties
  <2>4. Range(resolved[h]) = {run}
    BY <2>1, <2>2, <2>3 DEF Range
  <2>5. Resources \X {run} \subseteq open
    BY <2>1 DEF ServingInv, RunOK, Waits, Started, Resources
  <2> QED
    BY <2>4, <2>5
<1> QED
  BY <1>1, ServingInvariant, PTL

\* A handler that comes too late is refused before it holds anything.
THEOREM LateHandlersAreRefused == SafeSpec => []RefusedAtOnce
<1>1. ServingInv => RefusedAtOnce
  BY DEF ServingInv, HandlersOK, RefusedAtOnce
<1> QED
  BY <1>1, ServingInvariant, PTL

\* Every variable keeps its type.
THEOREM LifespanTypeOK == SafeSpec => []TypeOK
<1> DEFINE SettingsOK == drains \in BOOLEAN /\ {cached, appSettings} \subseteq Configurations
<1>1. Init => SettingsOK
  BY LifespanAssumption DEF Init
<1>2. SettingsOK /\ [Next]_vars => SettingsOK'
  <2> SUFFICES ASSUME SettingsOK, [Next]_vars PROVE SettingsOK'
    OBVIOUS
  <2>1. CASE LifespanStep
    BY <2>1 DEF LifespanStep, ShutdownStep, CreateApp, Enter, Connected, Created, Committed,
                StartFails, Shutdown, Stopped, DbClosed, CloseFails, ClientClosed, Goes
  <2>2. ASSUME NEW h \in Handlers, Receive(h) \/ Resolve(h) \/ Finish(h) PROVE SettingsOK'
    BY <2>2, HandlersLeaveLifespan DEF lifespanVars
  <2>3. CASE UNCHANGED vars
    BY <2>3 DEF vars, lifespanVars
  <2> QED
    BY <2>1, <2>2, <2>3 DEF Next
<1>3. ServingInv /\ SettingsOK => TypeOK
  BY DEF ServingInv, LifespanOK, HandlersOK, TypeOK
<1> QED
  BY <1>1, <1>2, <1>3, ServingInvariant, PTL DEF SafeSpec

-----------------------------------------------------------------------------
\* What a run leaves open.

\* At the ends of a run: all of it is closed, or what a failure kept is known.
LeftOpen ==
    /\ step = "closingClient" => <<"db", run>> \notin open
    /\ step = "ended" => \A x \in Resources : <<x, run>> \notin open
    /\ step = "startFailed" => <<"client", run>> \in open
    /\ step = "closeFailed" => <<"client", run>> \in open

LEMMA LeftOpenStep == LifespanOK /\ RunOK /\ LeftOpen /\ [Next]_vars => LeftOpen'
<1> SUFFICES ASSUME LifespanOK, RunOK, LeftOpen, [Next]_vars PROVE LeftOpen'
  OBVIOUS
<1>1. CASE Enter
  BY <1>1 DEF Enter, Opens, LeftOpen
<1>2. CASE Connected \/ Created \/ Committed \/ Shutdown \/ Stopped
  BY <1>2 DEF Connected, Created, Committed, Shutdown, Stopped, Goes, LeftOpen
<1>3. CASE StartFails
  BY <1>3 DEF StartFails, Goes, LeftOpen, RunOK, Waits
<1>4. CASE DbClosed
  BY <1>4 DEF DbClosed, Goes, Closes, LeftOpen
<1>5. CASE CloseFails
  BY <1>5 DEF CloseFails, Goes, LeftOpen, RunOK, Started
<1>6. CASE ClientClosed
  <2>1. step = "closingClient" /\ step' = "ended" /\ run' = run
        /\ open' = open \ {<<"client", run>>}
    BY <1>6 DEF ClientClosed, Goes, Closes
  <2>2. <<"pool", run>> \notin open
    BY <2>1, LifespanAssumption DEF RunOK, LifespanOK, Runs
  <2> QED
    BY <2>1, <2>2 DEF LeftOpen, Resources
<1>7. CASE CreateApp \/ UNCHANGED vars
  BY <1>7 DEF CreateApp, vars, lifespanVars, LeftOpen
<1>8. ASSUME NEW h \in Handlers, Receive(h) \/ Resolve(h) \/ Finish(h) PROVE LeftOpen'
  BY <1>8, HandlersLeaveLifespan DEF lifespanVars, LeftOpen
<1> QED
  BY <1>1, <1>2, <1>3, <1>4, <1>5, <1>6, <1>7, <1>8 DEF Next, LifespanStep, ShutdownStep

LeakInv == LifespanOK /\ RunOK /\ LeftOpen

LEMMA LeakInvInit == Init => LeakInv
BY LifespanOKInit DEF Init, LeakInv, LeftOpen

LEMMA LeakInvStep == LeakInv /\ [Next]_vars => LeakInv'
BY LifespanOKStep, LeftOpenStep DEF LeakInv

\* A run that ends leaves nothing open; one that fails leaves its client (its
\* initialize() raised, perhaps with the database connected) or its client and
\* perhaps its database (aclose() or close() raised), and no run leaves a pool.
THEOREM OnlyFailuresLeak ==
  SafeSpec =>
    [](/\ step = "ended" => (Resources \X {run}) \cap open = {}
       /\ step \in {"startFailed", "closeFailed"} =>
            /\ <<"client", run>> \in open
            /\ <<"pool", run>> \notin open)
<1> DEFINE Leaks ==
      /\ step = "ended" => (Resources \X {run}) \cap open = {}
      /\ step \in {"startFailed", "closeFailed"} =>
           /\ <<"client", run>> \in open
           /\ <<"pool", run>> \notin open
<1>1. LeakInv => Leaks
  <2> SUFFICES ASSUME LeakInv PROVE Leaks
    OBVIOUS
  <2>1. step \in {"startFailed", "closeFailed"} => <<"pool", run>> \notin open
    BY LifespanAssumption DEF LeakInv, LifespanOK, RunOK, Runs
  <2> QED
    BY <2>1 DEF LeakInv, LeftOpen, Resources
<1> QED
  BY <1>1, LeakInvInit, LeakInvStep, PTL DEF SafeSpec

\* What a run has left is never touched again: no later run closes what an
\* earlier one leaked, or opens anything in its name.
THEOREM PastRunsAreSettled ==
  SafeSpec =>
    [][\A n \in Runs :
         n < run \/ (n = run /\ step \in Over)
           => \A x \in Resources : <<x, n>> \in open' <=> <<x, n>> \in open]_vars
<1> DEFINE Settled(n) == \A x \in Resources : <<x, n>> \in open' <=> <<x, n>> \in open
           Past(n) == n < run \/ (n = run /\ step \in Over)
<1>1. LeakInv /\ [Next]_vars => [\A n \in Runs : Past(n) => Settled(n)]_vars
  <2> SUFFICES ASSUME LeakInv, Next, NEW n \in Runs, Past(n) PROVE Settled(n)
    OBVIOUS
  <2>0. run \in Nat /\ n \in Nat
    BY LifespanAssumption DEF LeakInv, LifespanOK, Runs
  <2>1. CASE Enter
    <3>1. open' = open \cup {<<"client", run + 1>>} /\ n # run + 1
      BY <2>0, <2>1 DEF Enter, Opens
    <3> QED
      BY <3>1
  <2>2. CASE Connected \/ Committed \/ Stopped \/ DbClosed \/ ClientClosed
    <3>1. n # run /\ run' = run
      BY <2>0, <2>2
         DEF Connected, Committed, Stopped, DbClosed, ClientClosed, Goes, Over
    <3>2. \E x \in Resources : open' \in {open \cup {<<x, run>>}, open \ {<<x, run>>}}
      BY <2>2, <3>1
         DEF Connected, Committed, Stopped, DbClosed, ClientClosed, Opens, Closes, Resources
    <3> QED
      BY <3>1, <3>2
  <2>3. CASE Created \/ StartFails \/ Shutdown \/ CloseFails \/ CreateApp
    BY <2>3 DEF Created, StartFails, Shutdown, CloseFails, CreateApp
  <2>4. ASSUME NEW h \in Handlers, Receive(h) \/ Resolve(h) \/ Finish(h) PROVE Settled(n)
    BY <2>4, HandlersLeaveLifespan DEF lifespanVars
  <2> QED
    BY <2>1, <2>2, <2>3, <2>4 DEF Next, LifespanStep, ShutdownStep
<1> QED
  BY <1>1, LeakInvInit, LeakInvStep, PTL DEF SafeSpec
=============================================================================

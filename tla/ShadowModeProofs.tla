-------------------------- MODULE ShadowModeProofs --------------------------
(***************************************************************************)
(* Theorems about ShadowMode, for every set of requests, queue size,       *)
(* number of workers, set of bodies and set of settings.                   *)
(***************************************************************************)
EXTENDS ShadowMode, FiniteSetTheorems, SequenceTheorems, TLAPS

-----------------------------------------------------------------------------
\* The executor inside the service keeps the invariant proved of it alone.

ExecP == INSTANCE ShadowExecutorProofs WITH
            Jobs <- Requests, CancellableJobs <- Requests

\* Exec and ExecP are the same instance under two names.
LEMMA SameInit == Exec!Init <=> ExecP!Init
BY Zenon
   DEF Exec!Init, ExecP!Init, Exec!Workers, ExecP!Workers, Exec!PoolSize, ExecP!PoolSize,
       Exec!AtLeastOne, ExecP!AtLeastOne

LEMMA SameNext == [Exec!Next]_execVars <=> [ExecP!Next]_ExecP!execVars
BY Zenon
   DEF execVars, ExecP!execVars, Exec!Next, ExecP!Next,
       Exec!Start, ExecP!Start, Exec!Stop, ExecP!Stop,
       Exec!StopReturns, ExecP!StopReturns, Exec!Submit, ExecP!Submit,
       Exec!Accept, ExecP!Accept, Exec!Drop, ExecP!Drop,
       Exec!QueueFull, ExecP!QueueFull, Exec!WorkerStep, ExecP!WorkerStep,
       Exec!Take, ExecP!Take, Exec!JobEnds, ExecP!JobEnds,
       Exec!JobCancelsItself, ExecP!JobCancelsItself,
       Exec!WorkerCancelled, ExecP!WorkerCancelled, Exec!Release, ExecP!Release,
       Exec!Workers, ExecP!Workers, Exec!Maxsize, ExecP!Maxsize,
       Exec!PoolSize, ExecP!PoolSize, Exec!AtLeastOne, ExecP!AtLeastOne

LEMMA SameTypeOK == Exec!TypeOK <=> ExecP!TypeOK
BY Zenon
   DEF Exec!TypeOK, ExecP!TypeOK, Exec!Workers, ExecP!Workers, Exec!Fates, ExecP!Fates,
       Exec!PoolSize, ExecP!PoolSize, Exec!AtLeastOne, ExecP!AtLeastOne

LEMMA SameWorkers == Workers = ExecP!Workers
BY Zenon
   DEF Workers, Exec!Workers, ExecP!Workers, Exec!PoolSize, ExecP!PoolSize,
       Exec!AtLeastOne, ExecP!AtLeastOne

LEMMA SameRange == \A f : Exec!Range(f) = ExecP!Range(f)
BY Zenon DEF Exec!Range, ExecP!Range

\* Nothing in the service changes the executor but the executor's own steps.
LEMMA OnlyExecutorSteps == [Next]_vars => [Exec!Next]_execVars
<1> SUFFICES ASSUME [Next]_vars PROVE [Exec!Next]_execVars
  OBVIOUS
<1>1. ASSUME NEW r \in Requests, RequestStep(r) PROVE [Exec!Next]_execVars
  <2>1. CASE Handle(r)
    <3>1. Exec!Submit(r) \/ UNCHANGED execVars
      BY <2>1 DEF Handle
    <3> QED
      BY <3>1 DEF Exec!Next
  <2>2. CASE ClientSends(r) \/ Reject(r) \/ PrimaryStep(r)
    BY <2>2 DEF ClientSends, Reject, PrimaryStep, PrimaryReturns, PrimaryFails,
                PrimaryRaises
  <2> QED
    BY <1>1, <2>1, <2>2 DEF RequestStep
<1>2. ASSUME NEW p \in Percentages, PutConfig(p) PROVE [Exec!Next]_execVars
  BY <1>2 DEF PutConfig
<1>3. ASSUME NEW w \in Workers, WorkerStep(w) PROVE [Exec!Next]_execVars
  <2>1. TakeJob(w) \/ RunStep(w) \/ WorkerCancelled(w)
    BY <1>3 DEF WorkerStep
  <2>2. Exec!WorkerStep(w) \/ UNCHANGED execVars
    BY <2>1
       DEF TakeJob, RunStep, SkipCandidate, CandidateTimesOut, CandidateFails,
           CandidateEnds, CandidateReturns, PrimaryArrives, TraceEnds, Conclude,
           RunEnds, RunEscapes, WorkerCancelled, Exec!WorkerStep
  <2> QED
    BY <2>2 DEF Exec!Next, Workers
<1>4. CASE LifespanStep
  BY <1>4 DEF LifespanStep, Startup, Shutdown, StopReturns, CloseDb, CloseClient, Close,
              Exec!Next
<1>5. CASE UNCHANGED vars
  BY <1>5 DEF vars
<1> QED
  BY <1>1, <1>2, <1>3, <1>4, <1>5 DEF Next

ExecutorInv == ExecP!ExecInv

LEMMA ExecutorInvInit == Init => ExecutorInv
BY SameInit, ExecP!ExecInvInit, ShadowModeAssumption
   DEF Init, ExecutorInv, ExecP!ExecutorAssumption

LEMMA ExecutorInvStep == ExecutorInv /\ [Next]_vars => ExecutorInv'
BY OnlyExecutorSteps, SameNext, ExecP!ExecInvStep, ShadowModeAssumption
   DEF ExecutorInv, ExecP!ExecutorAssumption

\* What a worker that is busy knows of its job.
LEMMA BusyWorkersJob ==
  ASSUME ExecutorInv, NEW w \in Workers, job[w] # NoJob
  PROVE  /\ job[w] \in Requests
         /\ fate[job[w]] = "accepted"
         /\ job[w] \notin Exec!Range(queue)
         /\ \A v \in Workers : v # w => job[v] # job[w]
BY ExecP!BusyWorker, ShadowModeAssumption, SameWorkers, SameRange
   DEF ExecutorInv, ExecP!ExecutorAssumption

-----------------------------------------------------------------------------
\* The lifespan and the pool.

\* The executor is started, stopping or stopped as the lifespan is, and no
\* worker lives before the pool is started or after stop() has returned.
LifespanInv ==
    /\ phase \in Phases
    /\ stopping <=> phase = "stopping"
    /\ started <=> phase \in {"up", "stopping"}
    /\ phase \notin {"up", "stopping"} => alive = {}

LEMMA LifespanInvInit == Init => LifespanInv
BY DEF Init, Exec!Init, LifespanInv, Phases

\* The steps of handlers and clients do not touch the pool's tasks.
LEMMA RequestsLeaveTasks ==
  ASSUME NEW r \in Requests, RequestStep(r)
  PROVE  UNCHANGED <<alive, job, started, stopping, settings, phase, stage, candidateRaw, rows>>
BY DEF RequestStep, ClientSends, Handle, Reject, PrimaryStep, PrimaryReturns, PrimaryFails,
       PrimaryRaises, Exec!Submit, Exec!Accept, Exec!Drop, execVars, shadowVars

\* Nor do the steps of a worker touch the lifespan, and none revives a task.
LEMMA WorkersLeaveLifespan ==
  ASSUME NEW w \in Workers, WorkerStep(w)
  PROVE  /\ UNCHANGED <<started, stopping, settings, phase, handler, future, primaryRaw>>
         /\ alive' \subseteq alive
<1>1. UNCHANGED <<settings, phase, handler, future, primaryRaw>>
  BY DEF WorkerStep, TakeJob, RunStep, SkipCandidate, CandidateTimesOut, CandidateFails,
         CandidateEnds, CandidateReturns, PrimaryArrives, TraceEnds, WorkerCancelled,
         requestVars
<1>2. Exec!WorkerStep(w) \/ UNCHANGED execVars
  BY DEF WorkerStep, TakeJob, RunStep, SkipCandidate, CandidateTimesOut, CandidateFails,
         CandidateEnds, CandidateReturns, PrimaryArrives, TraceEnds, Conclude,
         RunEnds, RunEscapes, WorkerCancelled, Exec!WorkerStep
<1>3. UNCHANGED <<started, stopping>> /\ alive' \subseteq alive
  BY <1>2 DEF Exec!WorkerStep, Exec!Take, Exec!JobEnds, Exec!JobCancelsItself,
              Exec!WorkerCancelled, execVars
<1> QED
  BY <1>1, <1>3

LEMMA LifespanInvStep == LifespanInv /\ [Next]_vars => LifespanInv'
<1> SUFFICES ASSUME LifespanInv, [Next]_vars PROVE LifespanInv'
  OBVIOUS
<1> USE DEF LifespanInv
<1>1. ASSUME NEW r \in Requests, RequestStep(r) PROVE LifespanInv'
  BY <1>1, RequestsLeaveTasks
<1>2. ASSUME NEW p \in Percentages, PutConfig(p) PROVE LifespanInv'
  BY <1>2 DEF PutConfig, execVars
<1>3. ASSUME NEW w \in Workers, WorkerStep(w) PROVE LifespanInv'
  BY <1>3, WorkersLeaveLifespan
<1>4. CASE LifespanStep
  BY <1>4 DEF LifespanStep, Startup, Shutdown, StopReturns, CloseDb, CloseClient, Close,
              Exec!Start, Exec!Stop, Exec!StopReturns, execVars, Phases
<1>5. CASE UNCHANGED vars
  BY <1>5 DEF vars, execVars
<1> QED
  BY <1>1, <1>2, <1>3, <1>4, <1>5 DEF Next

-----------------------------------------------------------------------------
\* The handlers and their futures.

\* A request that has not reached the executor has no future; a future waits
\* only for a handler still with the primary, is resolved only by one that is
\* not, and is cancelled only by a shutdown.
FutureInv ==
    /\ handler \in [Requests -> HandlerStates]
    /\ future \in [Requests -> Futures]
    /\ \A r \in Requests :
          /\ handler[r] \in {"idle", "received", "rejected"} => future[r] = "none"
          /\ future[r] = "pending" => handler[r] = "calling"
          /\ future[r] = "resolved" => handler[r] # "calling"
          /\ future[r] = "cancelled" => phase \notin {"starting", "up"}

LEMMA FutureInvInit == Init => FutureInv
BY DEF Init, FutureInv, HandlerStates, Futures

\* What the finally clause makes of the futures.
LEMMA SettleKeeps ==
  ASSUME FutureInv, NEW r \in Requests, handler[r] = "calling", Settle(r),
         NEW h \in {"answered", "unrendered", "failed", "crashed"},
         handler' = [handler EXCEPT ![r] = h], UNCHANGED phase
  PROVE  FutureInv'
<1>1. \A q \in Requests :
         /\ future'[q] = IF q = r /\ future[q] = "pending" THEN "resolved" ELSE future[q]
         /\ handler'[q] = IF q = r THEN h ELSE handler[q]
  BY DEF FutureInv, Settle
<1>2. handler' \in [Requests -> HandlerStates] /\ future' \in [Requests -> Futures]
  BY DEF FutureInv, Settle, HandlerStates, Futures
<1> QED
  BY <1>1, <1>2 DEF FutureInv

LEMMA FutureInvRequest ==
  ASSUME FutureInv, NEW r \in Requests, RequestStep(r)
  PROVE  FutureInv'
<1>1. CASE ClientSends(r)
  BY <1>1 DEF ClientSends, FutureInv, HandlerStates
<1>2. CASE Reject(r)
  BY <1>2 DEF Reject, FutureInv, HandlerStates
<1>3. CASE Handle(r)
  <2>1. PICK f \in {"none", "pending", "resolved"} :
           /\ f = "pending" => settings.primary
           /\ f = "resolved" => ~settings.primary
           /\ future' = [future EXCEPT ![r] = f]
    BY <1>3 DEF Handle
  <2>2. PICK h \in {"calling", "failed"} :
           /\ h = "calling" <=> settings.primary
           /\ handler' = [handler EXCEPT ![r] = h]
    BY <1>3 DEF Handle
  <2>3. phase' = phase
    BY <1>3 DEF Handle
  <2>4. \A q \in Requests : /\ future'[q] = IF q = r THEN f ELSE future[q]
                            /\ handler'[q] = IF q = r THEN h ELSE handler[q]
    BY <2>1, <2>2 DEF FutureInv
  <2>5. handler' \in [Requests -> HandlerStates] /\ future' \in [Requests -> Futures]
    BY <2>1, <2>2 DEF FutureInv, HandlerStates, Futures
  <2> QED
    BY <2>1, <2>2, <2>3, <2>4, <2>5 DEF FutureInv
<1>4. CASE PrimaryStep(r)
  <2>1. PICK h \in {"answered", "unrendered", "failed", "crashed"} :
           handler' = [handler EXCEPT ![r] = h]
    BY <1>4 DEF PrimaryStep, PrimaryReturns, PrimaryFails, PrimaryRaises
  <2>2. handler[r] = "calling" /\ Settle(r) /\ UNCHANGED phase
    BY <1>4 DEF PrimaryStep, PrimaryReturns, PrimaryFails, PrimaryRaises
  <2> QED
    BY <2>1, <2>2, SettleKeeps
<1> QED
  BY <1>1, <1>2, <1>3, <1>4 DEF RequestStep

LEMMA FutureInvStep == FutureInv /\ [Next]_vars => FutureInv'
<1> SUFFICES ASSUME FutureInv, [Next]_vars PROVE FutureInv'
  OBVIOUS
<1>1. ASSUME NEW r \in Requests, RequestStep(r) PROVE FutureInv'
  BY <1>1, FutureInvRequest
<1>2. ASSUME NEW p \in Percentages, PutConfig(p) PROVE FutureInv'
  BY <1>2 DEF PutConfig, requestVars, FutureInv
<1>3. ASSUME NEW w \in Workers, WorkerStep(w) PROVE FutureInv'
  BY <1>3, WorkersLeaveLifespan DEF FutureInv
<1>4. CASE Shutdown
  <2>1. future' \in [Requests -> Futures]
    BY <1>4 DEF Shutdown, FutureInv, Futures
  <2>2. \A r \in Requests : \/ future'[r] = future[r]
                            \/ future'[r] = "cancelled" /\ future[r] = "pending"
    BY <1>4 DEF Shutdown, Awaited
  <2>3. phase' = "stopping" /\ handler' = handler
    BY <1>4 DEF Shutdown
  <2> QED
    BY <2>1, <2>2, <2>3 DEF FutureInv
<1>5. CASE Startup \/ StopReturns \/ CloseDb \/ CloseClient
  BY <1>5 DEF Startup, StopReturns, CloseDb, CloseClient, Close, requestVars, FutureInv
<1>6. CASE UNCHANGED vars
  BY <1>6 DEF vars, requestVars, FutureInv
<1> QED
  BY <1>1, <1>2, <1>3, <1>4, <1>5, <1>6 DEF Next, LifespanStep

\* A future that is done stays as it is.
LEMMA FuturesSettleOnce ==
  FutureInv /\ [Next]_vars
    => \A r \in Requests : future[r] \in {"resolved", "cancelled"} => future'[r] = future[r]
<1> SUFFICES ASSUME FutureInv, [Next]_vars, NEW q \in Requests,
                    future[q] \in {"resolved", "cancelled"}
             PROVE  future'[q] = future[q]
  OBVIOUS
<1>1. ASSUME NEW r \in Requests, RequestStep(r) PROVE future'[q] = future[q]
  <2>1. CASE ClientSends(r) \/ Reject(r)
    BY <2>1 DEF ClientSends, Reject
  <2>2. CASE Handle(r)
    BY <2>2 DEF Handle, FutureInv
  <2>3. CASE PrimaryStep(r)
    BY <2>3 DEF PrimaryStep, PrimaryReturns, PrimaryFails, PrimaryRaises, Settle, FutureInv
  <2> QED
    BY <1>1, <2>1, <2>2, <2>3 DEF RequestStep
<1>2. ASSUME NEW p \in Percentages, PutConfig(p) PROVE future'[q] = future[q]
  BY <1>2 DEF PutConfig, requestVars
<1>3. ASSUME NEW w \in Workers, WorkerStep(w) PROVE future'[q] = future[q]
  BY <1>3, WorkersLeaveLifespan
<1>4. CASE LifespanStep
  BY <1>4 DEF LifespanStep, Startup, Shutdown, StopReturns, CloseDb, CloseClient, Close,
              requestVars, Awaited
<1>5. CASE UNCHANGED vars
  BY <1>5 DEF vars, requestVars
<1> QED
  BY <1>1, <1>2, <1>3, <1>4, <1>5 DEF Next

-----------------------------------------------------------------------------
\* The runs of the pipeline.

Queued == Exec!Range(queue)

\* What submit() does to the queue and the job's fate.
LEMMA SubmitEffect ==
  ASSUME ExecutorInv, NEW r \in Requests, Exec!Submit(r)
  PROVE  /\ fate[r] = "new"
         /\ r \notin Queued
         /\ \/ /\ ~Exec!QueueFull
               /\ Queued' = Queued \cup {r}
               /\ Len(queue') = Len(queue) + 1
               /\ fate' = [fate EXCEPT ![r] = "accepted"]
            \/ /\ Exec!QueueFull
               /\ queue' = queue
               /\ fate' = [fate EXCEPT ![r] = "dropped"]
<1>1. queue \in Seq(Requests)
  BY DEF ExecutorInv, ExecP!ExecInv, ExecP!TypeOK
<1>2. fate[r] = "new" /\ r \notin Queued
  BY SameRange
     DEF Exec!Submit, Exec!Accept, Exec!Drop, Queued, ExecutorInv, ExecP!ExecInv,
         ExecP!ExactlyOnePlace, ExecP!AcceptedIsSomewhere
<1>3. CASE Exec!Accept(r)
  <2>1. ExecP!Range(Append(queue, r)) = ExecP!Range(queue) \cup {r}
    BY <1>1, ExecP!AppendRange, ShadowModeAssumption DEF ExecP!ExecutorAssumption
  <2>2. Queued' = Queued \cup {r}
    BY <1>3, <2>1, SameRange DEF Exec!Accept, Queued
  <2>3. Len(queue') = Len(queue) + 1
    BY <1>1, <1>3, AppendProperties DEF Exec!Accept
  <2> QED
    BY <1>2, <1>3, <2>2, <2>3 DEF Exec!Accept
<1>4. CASE Exec!Drop(r)
  BY <1>2, <1>4 DEF Exec!Drop
<1> QED
  BY <1>3, <1>4 DEF Exec!Submit

\* What a worker that takes a job does to the queue.
LEMMA TakeEffect ==
  ASSUME ExecutorInv, NEW w \in Workers, Exec!Take(w)
  PROVE  /\ Head(queue) \in Requests
         /\ Head(queue) \in Queued
         /\ fate[Head(queue)] = "accepted"
         /\ Queued' = Queued \ {Head(queue)}
         /\ Len(queue') = Len(queue) - 1
         /\ Len(queue) \in Nat
         /\ fate' = fate
<1>1. queue \in Seq(Requests) /\ queue # <<>>
  BY DEF Exec!Take, ExecutorInv, ExecP!ExecInv, ExecP!TypeOK
<1>2. ExecP!IsInjective(queue)
  BY DEF ExecutorInv, ExecP!ExecInv, ExecP!ExactlyOnePlace, ExecP!NoDuplicateInQueue
<1>3. /\ Head(queue) \in ExecP!Range(queue)
      /\ ExecP!Range(Tail(queue)) = ExecP!Range(queue) \ {Head(queue)}
  BY <1>1, <1>2, ExecP!TailRange, ShadowModeAssumption DEF ExecP!ExecutorAssumption
<1>4. Head(queue) \in Requests /\ Len(Tail(queue)) = Len(queue) - 1 /\ Len(queue) \in Nat
  BY <1>1, HeadTailProperties, LenProperties, EmptySeq
<1>5. fate[Head(queue)] = "accepted"
  BY <1>3, <1>4
     DEF ExecutorInv, ExecP!ExecInv, ExecP!ExactlyOnePlace, ExecP!AcceptedIsSomewhere
<1> QED
  BY <1>3, <1>4, <1>5, SameRange DEF Exec!Take, Queued

\* The stage of a run follows the fate of its job: none while it waits, one of
\* three while a worker has it; and no job has ended by raising CancelledError.
StageInv ==
    /\ stage \in [Requests -> Stages]
    /\ \A r \in Requests :
          /\ future[r] = "none" <=> fate[r] = "new"
          /\ fate[r] # "escaped"
          /\ fate[r] \in {"new", "dropped"} => stage[r] = "none"
          /\ r \in Queued => stage[r] = "none"
          /\ fate[r] = "accepted" /\ r \notin Queued
                => stage[r] \in {"candidate", "primary", "saving"}

Placed == ExecutorInv /\ LifespanInv /\ FutureInv /\ StageInv

LEMMA FateType == ASSUME ExecutorInv PROVE fate \in [Requests -> Exec!Fates]
BY DEF ExecutorInv, ExecP!ExecInv, ExecP!TypeOK, ExecP!Fates, Exec!Fates

LEMMA StageInvInit == Init => StageInv
<1> SUFFICES ASSUME Init PROVE StageInv
  OBVIOUS
<1>1. Queued = {}
  BY EmptySeq DEF Init, Exec!Init, Queued, Exec!Range
<1> QED
  BY <1>1 DEF Init, Exec!Init, StageInv, Stages

\* A run goes on only in a service that is up, for a job with a future that
\* nobody has cancelled.
LEMMA RunningRun ==
  ASSUME Placed, NEW w \in Workers, NEW s, RunsAt(w, s)
  PROVE  /\ phase = "up"
         /\ job[w] \in Requests
         /\ fate[job[w]] = "accepted"
         /\ job[w] \notin Queued
         /\ future[job[w]] \in {"pending", "resolved"}
         /\ stage[job[w]] = s
<1>1. phase = "up" /\ job[w] # NoJob /\ stage[job[w]] = s
  BY DEF RunsAt, Placed, LifespanInv
<1>2. job[w] \in Requests /\ fate[job[w]] = "accepted" /\ job[w] \notin Queued
  BY <1>1, BusyWorkersJob DEF Placed, Queued
<1>3. future[job[w]] \in {"pending", "resolved"}
  BY <1>1, <1>2 DEF Placed, FutureInv, StageInv, Futures
<1> QED
  BY <1>1, <1>2, <1>3

\* How a step of a run leaves it: at its end, or at a later stage.
RunEnded(r) ==
    /\ fate' = [fate EXCEPT ![r] = "finished"]
    /\ stage' = [stage EXCEPT ![r] = "over"]

RunGoesOn(r, s) ==
    /\ UNCHANGED execVars
    /\ stage' = [stage EXCEPT ![r] = s]

LEMMA RunEndsEffect ==
  ASSUME Placed, NEW w \in Workers, RunEnds(w)
  PROVE  RunEnded(job[w]) /\ queue' = queue
BY DEF RunEnds, RunEnded, Exec!JobEnds, Exec!Release

\* Two responses are evaluated: the run ends or goes on to save the trace.
LEMMA ConcludeEffect ==
  ASSUME Placed, NEW w \in Workers, NEW p, NEW c, NEW ks, Conclude(w, p, c, ks)
  PROVE  \/ RunEnds(w)
         \/ RunGoesOn(job[w], "saving") /\ Diverges(Evaluate(p, c))
BY DEF Conclude, RunGoesOn

\* No run ever raises CancelledError unprompted: it ends or goes on.
LEMMA RunStepEffect ==
  ASSUME Placed, NEW w \in Workers, RunStep(w)
  PROVE  /\ phase = "up"
         /\ job[w] \in Requests
         /\ fate[job[w]] = "accepted"
         /\ job[w] \notin Queued
         /\ \/ RunEnds(w)
            \/ \E s \in {"primary", "saving"} : RunGoesOn(job[w], s)
<1>1. CASE SkipCandidate(w) \/ CandidateTimesOut(w) \/ CandidateFails(w)
  BY <1>1, RunningRun
     DEF SkipCandidate, CandidateTimesOut, CandidateFails, CandidateEnds
<1>2. CASE CandidateReturns(w)
  <2>1. RunsAt(w, "candidate")
    BY <1>2 DEF CandidateReturns
  <2>2. future[job[w]] \in {"pending", "resolved"}
    BY <2>1, RunningRun
  <2>3. \/ \E body \in Bodies :
              Conclude(w, primaryRaw[job[w]], body, {"candidate_success"})
        \/ RunGoesOn(job[w], "primary")
    BY <1>2, <2>2 DEF CandidateReturns, RunGoesOn
  <2> QED
    BY <2>1, <2>3, RunningRun, ConcludeEffect
<1>3. CASE PrimaryArrives(w)
  <2>1. RunsAt(w, "primary") /\ future[job[w]] # "pending"
    BY <1>3 DEF PrimaryArrives
  <2>2. future[job[w]] = "resolved"
    BY <2>1, RunningRun
  <2>3. Conclude(w, primaryRaw[job[w]], candidateRaw[job[w]], {})
    BY <1>3, <2>2 DEF PrimaryArrives
  <2> QED
    BY <2>1, <2>3, RunningRun, ConcludeEffect
<1>4. CASE TraceEnds(w)
  BY <1>4, RunningRun DEF TraceEnds
<1> QED
  BY <1>1, <1>2, <1>3, <1>4 DEF RunStep

\* A step that leaves the queue, the fates and the stages alone, and gives or
\* takes away no future.
LEMMA StageUnchanged ==
  ASSUME StageInv, UNCHANGED <<queue, fate, stage>>,
         \A r \in Requests : future'[r] = "none" <=> future[r] = "none"
  PROVE  StageInv'
<1>1. Queued' = Queued
  BY DEF Queued
<1> QED
  BY <1>1 DEF StageInv

LEMMA StageInvRequest ==
  ASSUME Placed, NEW r \in Requests, RequestStep(r)
  PROVE  StageInv'
<1> USE DEF Placed
<1>1. CASE ClientSends(r) \/ Reject(r)
  BY <1>1, StageUnchanged DEF ClientSends, Reject, execVars, shadowVars
<1>2. CASE PrimaryStep(r)
  <2>1. UNCHANGED <<queue, fate, stage>> /\ Settle(r)
    BY <1>2 DEF PrimaryStep, PrimaryReturns, PrimaryFails, PrimaryRaises, execVars,
                shadowVars
  <2>2. \A q \in Requests : future'[q] = "none" <=> future[q] = "none"
    BY <2>1 DEF Settle, FutureInv
  <2> QED
    BY <2>1, <2>2, StageUnchanged
<1>3. CASE Handle(r)
  <2>0. fate \in [Requests -> Exec!Fates]
    BY FateType
  <2>1. stage' = stage /\ future[r] = "none" /\ handler[r] = "received"
    BY <1>3 DEF Handle, FutureInv, shadowVars
  <2>2. CASE UNCHANGED execVars /\ future' = [future EXCEPT ![r] = "none"]
    <3>1. \A q \in Requests : future'[q] = "none" <=> future[q] = "none"
      BY <2>1, <2>2 DEF FutureInv
    <3> QED
      BY <2>1, <2>2, <3>1, StageUnchanged DEF execVars
  <2>3. CASE /\ Exec!Submit(r)
             /\ \E f \in {"pending", "resolved"} : future' = [future EXCEPT ![r] = f]
    <3>1. /\ fate[r] = "new"
          /\ r \notin Queued
          /\ \/ Queued' = Queued \cup {r} /\ fate' = [fate EXCEPT ![r] = "accepted"]
             \/ queue' = queue /\ fate' = [fate EXCEPT ![r] = "dropped"]
      BY <2>3, SubmitEffect
    <3>2. queue' = queue => Queued' = Queued
      BY DEF Queued
    <3>3. \A q \in Requests : /\ future'[q] = "none" <=> q # r /\ future[q] = "none"
                              /\ q # r => fate'[q] = fate[q]
      BY <2>0, <2>3, <3>1 DEF FutureInv
    <3> QED
      BY <2>0, <2>1, <3>1, <3>2, <3>3 DEF StageInv
  <2> QED
    BY <1>3, <2>2, <2>3 DEF Handle
<1> QED
  BY <1>1, <1>2, <1>3 DEF RequestStep

LEMMA StageInvWorker ==
  ASSUME Placed, NEW w \in Workers, WorkerStep(w)
  PROVE  StageInv'
<1> USE DEF Placed
<1>0. fate \in [Requests -> Exec!Fates] /\ future' = future
  BY FateType, WorkersLeaveLifespan
<1>1. CASE TakeJob(w)
  <2>1. Exec!Take(w) /\ stage' = [stage EXCEPT ![Head(queue)] = "candidate"]
    BY <1>1 DEF TakeJob
  <2>2. PICK r \in Requests : r = Head(queue)
    BY <2>1, TakeEffect
  <2>3. r \in Queued /\ fate[r] = "accepted" /\ Queued' = Queued \ {r} /\ fate' = fate
    BY <2>1, <2>2, TakeEffect
  <2> QED
    BY <1>0, <2>1, <2>2, <2>3 DEF StageInv, Stages
<1>2. CASE RunStep(w)
  <2>1. PICK r \in Requests : r = job[w]
    BY <1>2, RunStepEffect
  <2>2. fate[r] = "accepted" /\ r \notin Queued
    BY <1>2, <2>1, RunStepEffect
  <2>3. CASE RunEnds(w)
    <3>1. RunEnded(r) /\ Queued' = Queued
      BY <2>1, <2>3, RunEndsEffect DEF Queued
    <3> QED
      BY <1>0, <2>2, <3>1 DEF StageInv, Stages, RunEnded
  <2>4. CASE \E s \in {"primary", "saving"} : RunGoesOn(job[w], s)
    <3>1. PICK s \in {"primary", "saving"} : RunGoesOn(r, s)
      BY <2>1, <2>4
    <3>2. fate' = fate /\ Queued' = Queued /\ stage' = [stage EXCEPT ![r] = s]
      BY <3>1 DEF RunGoesOn, execVars, Queued
    <3> QED
      BY <1>0, <2>2, <3>2 DEF StageInv, Stages
  <2> QED
    BY <1>2, <2>3, <2>4, RunStepEffect
<1>3. CASE WorkerCancelled(w)
  <2>1. stage' = stage /\ queue' = queue /\ Queued' = Queued
    BY <1>3 DEF WorkerCancelled, Exec!WorkerCancelled, Queued
  <2>2. CASE fate' = fate
    BY <1>0, <2>1, <2>2, StageUnchanged
  <2>3. CASE job[w] # NoJob /\ fate' = [fate EXCEPT ![job[w]] = "abandoned"]
    <3>1. PICK r \in Requests : r = job[w]
      BY <2>3, BusyWorkersJob
    <3>2. fate[r] = "accepted" /\ r \notin Queued
      BY <2>3, <3>1, BusyWorkersJob DEF Queued
    <3> QED
      BY <1>0, <2>1, <2>3, <3>1, <3>2 DEF StageInv
  <2> QED
    BY <1>3, <2>2, <2>3 DEF WorkerCancelled, Exec!WorkerCancelled, Exec!Release
<1> QED
  BY <1>1, <1>2, <1>3 DEF WorkerStep

LEMMA StageInvStep == Placed /\ [Next]_vars => StageInv'
<1> SUFFICES ASSUME Placed, [Next]_vars PROVE StageInv'
  OBVIOUS
<1>1. ASSUME NEW r \in Requests, RequestStep(r) PROVE StageInv'
  BY <1>1, StageInvRequest
<1>2. ASSUME NEW w \in Workers, WorkerStep(w) PROVE StageInv'
  BY <1>2, StageInvWorker
<1>3. ASSUME LifespanStep \/ (\E p \in Percentages : PutConfig(p)) \/ UNCHANGED vars
      PROVE  StageInv'
  <2>1. UNCHANGED <<queue, fate, stage>>
    BY <1>3
       DEF LifespanStep, Startup, Shutdown, StopReturns, CloseDb, CloseClient, Close,
           PutConfig, vars, execVars, shadowVars, Exec!Start, Exec!Stop, Exec!StopReturns
  <2>2. \A r \in Requests : future'[r] = "none" <=> future[r] = "none"
    BY <1>3
       DEF LifespanStep, Startup, Shutdown, StopReturns, CloseDb, CloseClient, Close,
           PutConfig, vars, requestVars, Awaited
  <2> QED
    BY <2>1, <2>2, StageUnchanged DEF Placed
<1> QED
  BY <1>1, <1>2, <1>3 DEF Next

\* Where every request, its future, its job and its run are.
LEMMA PlacedInit == Init => Placed
BY ExecutorInvInit, LifespanInvInit, FutureInvInit, StageInvInit DEF Placed

LEMMA PlacedStep == Placed /\ [Next]_vars => Placed'
BY ExecutorInvStep, LifespanInvStep, FutureInvStep, StageInvStep DEF Placed

THEOREM RequestsArePlaced == SafeSpec => []Placed
BY PlacedInit, PlacedStep, PTL DEF SafeSpec

-----------------------------------------------------------------------------
\* The theorems about futures, shutdown and the pool.

\* No worker is left waiting for a handler that is gone.
THEOREM NoWaitIsOrphaned == SafeSpec => []NoOrphanWait
<1>1. Placed => NoOrphanWait
  BY DEF Placed, FutureInv, NoOrphanWait
<1> QED
  BY <1>1, RequestsArePlaced, PTL

\* Every future is settled once, whichever of the handler and the shutdown
\* comes first.
THEOREM FuturesAreSettledOnce == SafeSpec => FutureSettlesOnce
<1>1. Placed /\ [Next]_vars
        => [\A r \in Requests :
              future[r] \in {"resolved", "cancelled"} => future'[r] = future[r]]_vars
  BY FuturesSettleOnce DEF Placed
<1> QED
  BY <1>1, RequestsArePlaced, PTL DEF SafeSpec, FutureSettlesOnce

\* Nothing is closed under a worker that could still use it.
THEOREM ResourcesAreClosedLast == SafeSpec => []ResourcesOutliveWorkers
<1>1. Placed => ResourcesOutliveWorkers
  BY DEF Placed, LifespanInv, ResourcesOutliveWorkers
<1> QED
  BY <1>1, RequestsArePlaced, PTL

\* A step of the service, as far as the executor sees it: every action of the
\* executor's but a job's own CancelledError.
StrictStep ==
    \/ Exec!Start \/ Exec!Stop \/ Exec!StopReturns
    \/ \E r \in Requests : Exec!Submit(r)
    \/ \E w \in Workers : Exec!Take(w) \/ Exec!JobEnds(w) \/ Exec!WorkerCancelled(w)

LEMMA OnlyStrictSteps == Placed /\ [Next]_vars => StrictStep \/ UNCHANGED execVars
<1> SUFFICES ASSUME Placed, [Next]_vars PROVE StrictStep \/ UNCHANGED execVars
  OBVIOUS
<1>1. ASSUME NEW r \in Requests, RequestStep(r) PROVE StrictStep \/ UNCHANGED execVars
  <2>1. Exec!Submit(r) \/ UNCHANGED execVars
    BY <1>1 DEF RequestStep, Handle, ClientSends, Reject, PrimaryStep, PrimaryReturns,
                PrimaryFails, PrimaryRaises
  <2> QED
    BY <2>1 DEF StrictStep
<1>2. ASSUME NEW w \in Workers, WorkerStep(w) PROVE StrictStep \/ UNCHANGED execVars
  <2>1. CASE RunStep(w)
    BY <2>1, RunStepEffect DEF RunEnds, RunGoesOn, StrictStep
  <2>2. CASE TakeJob(w) \/ WorkerCancelled(w)
    BY <2>2 DEF TakeJob, WorkerCancelled, StrictStep
  <2> QED
    BY <1>2, <2>1, <2>2 DEF WorkerStep
<1>3. CASE LifespanStep
  BY <1>3 DEF LifespanStep, Startup, Shutdown, StopReturns, CloseDb, CloseClient, Close,
              StrictStep
<1>4. CASE (\E p \in Percentages : PutConfig(p)) \/ UNCHANGED vars
  BY <1>4 DEF PutConfig, vars
<1> QED
  BY <1>1, <1>2, <1>3, <1>4 DEF Next

LEMMA StrictInit == Exec!Init => StrictExec!Init
BY Zenon
   DEF Exec!Init, StrictExec!Init, Exec!Workers, StrictExec!Workers, Exec!PoolSize,
       StrictExec!PoolSize, Exec!AtLeastOne, StrictExec!AtLeastOne

LEMMA StrictNext == StrictStep \/ UNCHANGED execVars => [StrictExec!Next]_StrictExec!execVars
BY Zenon
   DEF StrictStep, execVars, StrictExec!execVars, StrictExec!Next, StrictExec!WorkerStep,
       Exec!Start, StrictExec!Start, Exec!Stop, StrictExec!Stop,
       Exec!StopReturns, StrictExec!StopReturns, Exec!Submit, StrictExec!Submit,
       Exec!Accept, StrictExec!Accept, Exec!Drop, StrictExec!Drop,
       Exec!QueueFull, StrictExec!QueueFull, Exec!Take, StrictExec!Take,
       Exec!JobEnds, StrictExec!JobEnds, Exec!Release, StrictExec!Release,
       Exec!WorkerCancelled, StrictExec!WorkerCancelled,
       Workers, Exec!Workers, StrictExec!Workers, Exec!Maxsize, StrictExec!Maxsize,
       Exec!PoolSize, StrictExec!PoolSize, Exec!AtLeastOne, StrictExec!AtLeastOne

\* The service uses the executor as specified, with jobs that never end a
\* worker: neither the pipeline's re-raise of CancelledError nor the futures
\* it awaits ever cost the pool one.
THEOREM ServiceRefinesExecutor == SafeSpec => StrictExec!SafeSpec
<1>1. Init => StrictExec!Init
  BY StrictInit DEF Init
<1>2. Placed /\ [Next]_vars => [StrictExec!Next]_StrictExec!execVars
  BY OnlyStrictSteps, StrictNext
<1> QED
  BY <1>1, <1>2, RequestsArePlaced, PTL DEF SafeSpec, StrictExec!SafeSpec

\* Under its other reading too, with jobs that might end their workers.
LEMMA ServiceRunsExecutor == SafeSpec => ExecP!SafeSpec
<1>1. Init => ExecP!Init
  BY SameInit DEF Init
<1>2. [Next]_vars => [ExecP!Next]_ExecP!execVars
  BY OnlyExecutorSteps, SameNext
<1> QED
  BY <1>1, <1>2, PTL DEF SafeSpec, ExecP!SafeSpec

\* So the service offers its mirrored requests to a best-effort pool: each is
\* begun at most once, refused only when the queue is full, and given up only
\* in a shutdown, whatever the handlers and the pipeline do.
THEOREM ServiceRefinesPool == SafeSpec => ExecP!Pool!SafePool
<1>1. ExecP!ExecutorAssumption
  BY ShadowModeAssumption DEF ExecP!ExecutorAssumption
<1> QED
  BY <1>1, ServiceRunsExecutor, ExecP!ExecutorRefinesPool, PTL

\* A service that is up has all of its workers: no failure of a candidate, a
\* primary or the database, and no interleaving with the handlers, costs one.
THEOREM NoWorkerIsLost == SafeSpec => [](phase = "up" => alive = Workers)
<1>1. Placed => (phase = "up" => alive = Workers)
  <2> SUFFICES ASSUME Placed, phase = "up" PROVE alive = Workers
    OBVIOUS
  <2>1. started /\ ~stopping
    BY DEF Placed, LifespanInv
  <2>2. \A r \in Requests : fate[r] # "escaped"
    BY DEF Placed, StageInv
  <2> QED
    BY <2>1, <2>2, SameWorkers
       DEF Placed, ExecutorInv, ExecP!ExecInv, ExecP!PoolIntact
<1> QED
  BY <1>1, RequestsArePlaced, PTL

\* The work of the shadow path is bounded, counted and in one place inside the
\* service as it is in the executor alone.
THEOREM ShadowWorkIsBounded ==
  SafeSpec => [](ExecP!BoundedWork /\ ExecP!ExactlyOnePlace /\ ExecP!TaskDoneBalanced)
<1>1. ExecP!ExecutorAssumption
  BY ShadowModeAssumption DEF ExecP!ExecutorAssumption
<1> QED
  BY <1>1, ServiceRunsExecutor, ExecP!WorkIsBounded, ExecP!JobsStayInOnePlace,
     ExecP!TasksAreBalanced, PTL

-----------------------------------------------------------------------------
\* What a worker waits for, and what a shutdown leaves of the shadow path.

\* A worker that is busy in a service that is up has a run to go on with: it
\* is with the candidate or saving its trace, or it waits for a primary that
\* has settled or that its handler still waits for.  So what ShadowRunsEnd
\* needs is fairness and nothing more.
THEOREM NoWorkerIsStuck ==
  SafeSpec =>
    [](\A w \in Workers :
         phase = "up" /\ job[w] # NoJob =>
           \/ stage[job[w]] \in {"candidate", "saving"}
           \/ /\ stage[job[w]] = "primary"
              /\ \/ future[job[w]] = "resolved"
                 \/ future[job[w]] = "pending" /\ handler[job[w]] = "calling")
<1> DEFINE GoesOn(w) ==
      \/ stage[job[w]] \in {"candidate", "saving"}
      \/ /\ stage[job[w]] = "primary"
         /\ \/ future[job[w]] = "resolved"
            \/ future[job[w]] = "pending" /\ handler[job[w]] = "calling"
<1>1. Placed => \A w \in Workers : phase = "up" /\ job[w] # NoJob => GoesOn(w)
  <2> SUFFICES ASSUME Placed, NEW w \in Workers, phase = "up", job[w] # NoJob
               PROVE  GoesOn(w)
    OBVIOUS
  <2>1. PICK r \in Requests : r = job[w]
    BY BusyWorkersJob DEF Placed
  <2>2. fate[r] = "accepted" /\ r \notin Queued
    BY <2>1, BusyWorkersJob DEF Placed, Queued
  <2>3. stage[r] \in {"candidate", "primary", "saving"} /\ future[r] # "none"
    BY <2>2 DEF Placed, StageInv
  <2>4. future[r] \in {"pending", "resolved"} /\ (future[r] = "pending" => handler[r] = "calling")
    BY <2>3 DEF Placed, FutureInv, Futures
  <2> QED
    BY <2>1, <2>3, <2>4
<1> QED
  BY <1>1, RequestsArePlaced, PTL
=============================================================================

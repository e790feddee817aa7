--------------------------- MODULE ShadowExecutor ---------------------------
(***************************************************************************)
(* app/utils/shadow_executor.py: a fixed pool of asyncio worker tasks that *)
(* drains one bounded queue of shadow jobs.                                *)
(*                                                                         *)
(* All of it runs on one event loop, so a step of the model is what runs   *)
(* between two suspension points of a task: a whole submit() (it never     *)
(* waits), a worker's return from queue.get(), the end of the job it       *)
(* awaits, the synchronous part of stop(), each cancelled task's last step *)
(* and the return of stop()'s gather().                                    *)
(*                                                                         *)
(* "fate" is a history variable: the value submit() returned for the job   *)
(* and then how its run ended.  The code keeps no such table.              *)
(***************************************************************************)
EXTENDS Naturals, Sequences, FiniteSets, Functions

CONSTANTS
    Jobs,             \* the jobs the request handlers submit
    NoJob,            \* what a worker without a job holds
    QueueSize,        \* the queue_size argument, as configured
    NumWorkers,       \* the workers argument, as configured
    CancellableJobs   \* jobs that may raise CancelledError unprompted

ASSUME ExecutorAssumption ==
    /\ QueueSize \in Nat
    /\ NumWorkers \in Nat
    /\ NoJob \notin Jobs
    /\ CancellableJobs \subseteq Jobs

\* max(1, n)
AtLeastOne(n) == IF n > 1 THEN n ELSE 1

Maxsize == AtLeastOne(QueueSize)
PoolSize == AtLeastOne(NumWorkers)
Workers == 1 .. PoolSize

VARIABLES
    queue,       \* _queue: the jobs accepted and not yet picked up
    unfinished,  \* _queue's count of puts without a task_done()
    alive,       \* the tasks in _workers that have not ended
    job,         \* the job each worker awaits
    started,     \* _started
    stopping,    \* stop() has cancelled the workers and awaits them
    fate         \* what became of each job (history)

execVars == <<queue, unfinished, alive, job, started, stopping, fate>>

Fates == {"new", "dropped", "accepted", "finished", "escaped", "abandoned"}

Busy == {w \in Workers : job[w] # NoJob}

\* (Variant: one job too many.)
QueueFull_OffByOne == Maxsize > 0 /\ Len(queue) > Maxsize

\* asyncio.Queue.full(): a queue whose maxsize is 0 is never full.
QueueFull == Maxsize > 0 /\ Len(queue) >= Maxsize

Init ==
    /\ queue = <<>>
    /\ unfinished = 0
    /\ alive = {}
    /\ job = [w \in Workers |-> NoJob]
    /\ started = FALSE
    /\ stopping = FALSE
    /\ fate = [j \in Jobs |-> "new"]

\* The worker's job is over: task_done(), and the worker holds none.
Release(w, f) ==
    /\ unfinished' = unfinished - 1
    /\ fate' = [fate EXCEPT ![job[w]] = f]
    /\ job' = [job EXCEPT ![w] = NoJob]

-----------------------------------------------------------------------------
\* Variants: what the definition named before the underscore would be if the
\* code made the mistake named after it.  No specification uses them;
\* PROJECT.json pairs each with the property it breaks.

\* No handler for Exception in the worker's loop.
JobEnds_KillsWorker(w) ==
    /\ ~stopping
    /\ w \in alive
    /\ job[w] # NoJob
    /\ Release(w, "finished")
    /\ alive' = alive \ {w}
    /\ UNCHANGED <<queue, started, stopping>>

\* The worker puts a failed job back for another try.
JobEnds_Requeues(w) ==
    /\ ~stopping
    /\ w \in alive
    /\ job[w] # NoJob
    /\ Release(w, "finished")
    /\ \/ UNCHANGED queue
       \/ ~QueueFull /\ queue' = Append(queue, job[w])
    /\ UNCHANGED <<alive, started, stopping>>

\* A worker woken in queue.get() takes a job although it was cancelled.
Take_WhenCancelled(w) ==
    /\ w \in alive
    /\ job[w] = NoJob
    /\ queue # <<>>
    /\ queue' = Tail(queue)
    /\ job' = [job EXCEPT ![w] = Head(queue)]
    /\ UNCHANGED <<unfinished, alive, started, stopping, fate>>

\* task_done() after the try statement, not in its finally clause.
WorkerCancelled_NotDone(w) ==
    /\ stopping
    /\ w \in alive
    /\ alive' = alive \ {w}
    /\ IF job[w] = NoJob
         THEN UNCHANGED <<fate, job>>
         ELSE /\ fate' = [fate EXCEPT ![job[w]] = "abandoned"]
              /\ job' = [job EXCEPT ![w] = NoJob]
    /\ UNCHANGED <<queue, unfinished, started, stopping>>

\* The job catches CancelledError with its other exceptions: its worker never ends.
WorkerCancelled_Swallowed(w) ==
    /\ stopping
    /\ w \in alive
    /\ job[w] = NoJob
    /\ alive' = alive \ {w}
    /\ UNCHANGED <<queue, unfinished, job, started, stopping, fate>>

\* stop() that does not await the tasks it cancelled.
StopReturns_NoGather ==
    /\ stopping
    /\ started' = FALSE
    /\ stopping' = FALSE
    /\ UNCHANGED <<queue, unfinished, alive, job, fate>>

-----------------------------------------------------------------------------
\* The operations.

\* start(): a second call returns at once.
Start ==
    /\ ~started
    /\ started' = TRUE
    /\ alive' = Workers
    /\ UNCHANGED <<queue, unfinished, job, stopping, fate>>

\* submit() whose put_nowait() succeeds.  It does not look at _started.
Accept(j) ==
    /\ fate[j] = "new"
    /\ ~QueueFull
    /\ queue' = Append(queue, j)
    /\ unfinished' = unfinished + 1
    /\ fate' = [fate EXCEPT ![j] = "accepted"]
    /\ UNCHANGED <<alive, job, started, stopping>>

\* submit() on QueueFull: the job is refused and counted, never waited for.
Drop(j) ==
    /\ fate[j] = "new"
    /\ QueueFull
    /\ fate' = [fate EXCEPT ![j] = "dropped"]
    /\ UNCHANGED <<queue, unfinished, alive, job, started, stopping>>

\* An idle worker's queue.get() returns.
Take(w) ==
    /\ ~stopping
    /\ w \in alive
    /\ job[w] = NoJob
    /\ queue # <<>>
    /\ queue' = Tail(queue)
    /\ job' = [job EXCEPT ![w] = Head(queue)]
    /\ UNCHANGED <<unfinished, alive, started, stopping, fate>>

\* The job returns or raises an Exception; the worker goes round its loop.
JobEnds(w) ==
    /\ ~stopping
    /\ w \in alive
    /\ job[w] # NoJob
    /\ Release(w, "finished")
    /\ UNCHANGED <<queue, alive, started, stopping>>

\* The job raises CancelledError though nobody cancelled the worker: the
\* worker re-raises it and its task ends.
JobCancelsItself(w) ==
    /\ ~stopping
    /\ w \in alive
    /\ job[w] \in CancellableJobs
    /\ Release(w, "escaped")
    /\ alive' = alive \ {w}
    /\ UNCHANGED <<queue, started, stopping>>

\* stop() up to its gather(): one cancel() for every task, in one step.
Stop ==
    /\ started
    /\ ~stopping
    /\ stopping' = TRUE
    /\ UNCHANGED <<queue, unfinished, alive, job, started, fate>>

\* A cancelled task's last step: CancelledError is raised where it waits, in
\* queue.get() or inside the job, and ends the task.
WorkerCancelled(w) ==
    /\ stopping
    /\ w \in alive
    /\ alive' = alive \ {w}
    /\ IF job[w] = NoJob
         THEN UNCHANGED <<unfinished, fate, job>>
         ELSE Release(w, "abandoned")
    /\ UNCHANGED <<queue, started, stopping>>

\* gather() returns once every task has ended; jobs still queued stay there.
StopReturns ==
    /\ stopping
    /\ alive = {}
    /\ started' = FALSE
    /\ stopping' = FALSE
    /\ UNCHANGED <<queue, unfinished, alive, job, fate>>

Submit(j) == Accept(j) \/ Drop(j)

WorkerStep(w) ==
    \/ Take(w)
    \/ JobEnds(w)
    \/ JobCancelsItself(w)
    \/ WorkerCancelled(w)

Next ==
    \/ Start
    \/ Stop
    \/ StopReturns
    \/ \E j \in Jobs : Submit(j)
    \/ \E w \in Workers : WorkerStep(w)

SafeSpec == Init /\ [][Next]_execVars

\* The event loop runs every ready task, and the calls a job makes have
\* timeouts, so a job does end.  Nothing obliges anyone to start or stop the
\* pool or to submit a job.
Fairness ==
    /\ \A w \in Workers : /\ WF_execVars(Take(w))
                          /\ WF_execVars(JobEnds(w))
                          /\ WF_execVars(WorkerCancelled(w))
    /\ WF_execVars(StopReturns)

Spec == SafeSpec /\ Fairness

-----------------------------------------------------------------------------
\* The properties.

\* Every variable has its type.
TypeOK ==
    /\ queue \in Seq(Jobs)
    /\ unfinished \in Nat
    /\ alive \subseteq Workers
    /\ job \in [Workers -> Jobs \cup {NoJob}]
    /\ started \in BOOLEAN
    /\ stopping \in BOOLEAN
    /\ fate \in [Jobs -> Fates]

\* The module's promise: the work outstanding never exceeds queue_size plus
\* workers, both taken as at least 1, however many jobs are submitted.
BoundedWork ==
    /\ Len(queue) <= Maxsize
    /\ Len(queue) + Cardinality(Busy) <= Maxsize + PoolSize

\* The jobs in the queue are distinct.
NoDuplicateInQueue == IsInjective(queue)

\* No job is held by two workers.
NoSharedJob ==
    \A v, w \in Workers : job[v] = job[w] /\ job[v] # NoJob => v = w

\* Nothing a worker holds is still in the queue.
NotBothPlaces == \A w \in Workers : job[w] \notin Range(queue)

\* Accepted and not yet over means: in the queue or with a worker.
AcceptedIsSomewhere ==
    \A j \in Jobs :
        fate[j] = "accepted" <=> (j \in Range(queue) \/ j \in Range(job))

\* Every accepted job that is not over is in exactly one place: once in the
\* queue, or in the hands of one worker.  No start, stop, cancellation or
\* failure loses one, runs one twice or brings back a dropped one.
ExactlyOnePlace ==
    /\ NoDuplicateInQueue
    /\ NoSharedJob
    /\ NotBothPlaces
    /\ AcceptedIsSomewhere

\* task_done() is called exactly once for every job taken, so the queue's
\* count never goes below zero (asyncio raises ValueError there, which would
\* kill the worker in its finally clause).
TaskDoneBalanced == unfinished = Len(queue) + Cardinality(Busy)

\* A worker never dies on a job: while the pool runs and no job has raised
\* CancelledError of its own accord, every worker is alive.
PoolIntact ==
    (started /\ ~stopping /\ \A j \in Jobs : fate[j] # "escaped")
        => alive = Workers

\* A job is only ever in the hands of a live task of a started pool: once
\* stop() has returned no task is left that could touch what is closed next.
OnlyLiveWorkersHoldJobs ==
    /\ \A w \in Busy : w \in alive
    /\ alive # {} => started
    /\ stopping => started

\* While the pool stays started, an accepted job leaves the queue and ends.
AcceptedJobsEnd ==
    \A j \in Jobs : (fate[j] = "accepted" /\ started)
                        ~> (fate[j] # "accepted" \/ ~started)

\* stop() returns: every cancelled worker ends and gather() completes.
StopCompletes == stopping ~> ~stopping

-----------------------------------------------------------------------------
\* The executor implements the best-effort pool.

\* What the pool's clients know of a job whose fate is settled or unborn.
Seen == [new |-> "unseen", dropped |-> "refused", finished |-> "finished",
         escaped |-> "finished", abandoned |-> "abandoned"]

StatusOf(j) ==
    IF fate[j] # "accepted" THEN Seen[fate[j]]
    ELSE IF j \in Range(queue) THEN "waiting" ELSE "running"

Pool == INSTANCE BestEffortPool WITH
            MaxWaiting <- Maxsize,
            MaxRunning <- PoolSize,
            status <- [j \in Jobs |-> StatusOf(j)],
            open <- started /\ ~stopping

\* Every behaviour of the executor is one the best-effort pool allows, its
\* liveness included.
ImplementsPool == Pool!Spec
=============================================================================

------------------------ MODULE ShadowExecutorProofs ------------------------
(***************************************************************************)
(* Theorems about ShadowExecutor, for every set of jobs, queue size,       *)
(* number of workers and set of cancellable jobs.                          *)
(***************************************************************************)
EXTENDS ShadowExecutor, FiniteSetTheorems, SequenceTheorems, TLAPS

-----------------------------------------------------------------------------
\* Facts about the operators.

\* Both sizes are at least 1 whatever is configured: max(1, n).
LEMMA SizesPositive == Maxsize \in Nat \ {0} /\ PoolSize \in Nat \ {0}
BY ExecutorAssumption DEF Maxsize, PoolSize, AtLeastOne

\* A pool of PoolSize workers has at most PoolSize busy ones.
LEMMA BusyBounded == IsFiniteSet(Busy) /\ Cardinality(Busy) \in 0 .. PoolSize
<1>1. IsFiniteSet(Workers) /\ Cardinality(Workers) = PoolSize
  BY SizesPositive, FS_Interval DEF Workers
<1>2. Busy \in SUBSET Workers
  BY DEF Busy
<1>3. IsFiniteSet(Busy) /\ Cardinality(Busy) <= Cardinality(Workers)
  BY <1>1, <1>2, FS_Subset
<1> QED
  BY <1>1, <1>3, FS_CardinalityType, SizesPositive

\* What put_nowait() adds to the queue's elements, and that they stay distinct.
LEMMA AppendRange ==
  ASSUME NEW S, NEW s \in Seq(S), NEW e \in S
  PROVE  /\ Range(Append(s, e)) = Range(s) \cup {e}
         /\ IsInjective(s) /\ e \notin Range(s) => IsInjective(Append(s, e))
<1> DEFINE t == Append(s, e)
<1>1. /\ DOMAIN s = 1 .. Len(s)
      /\ DOMAIN t = 1 .. (Len(s) + 1)
      /\ Len(s) \in Nat
      /\ \A i \in 1 .. Len(s) : t[i] = s[i]
      /\ t[Len(s) + 1] = e
  BY AppendProperties, LenProperties
<1>2. DOMAIN t = DOMAIN s \cup {Len(s) + 1}
  BY <1>1
<1>3. Range(t) = Range(s) \cup {e}
  BY <1>1, <1>2, Zenon DEF Range
<1>4. ASSUME IsInjective(s), e \notin Range(s), NEW a \in DOMAIN t, NEW b \in DOMAIN t,
             t[a] = t[b]
      PROVE  a = b
  <2>1. \A i \in DOMAIN s : s[i] # e
    BY <1>4 DEF Range
  <2> QED
    BY <1>1, <1>2, <1>4, <2>1 DEF IsInjective
<1> QED
  BY <1>3, <1>4 DEF IsInjective

\* What get() takes from a queue of distinct jobs: its head, and only that.
LEMMA TailRange ==
  ASSUME NEW S, NEW s \in Seq(S), s # <<>>, IsInjective(s)
  PROVE  /\ Head(s) \in Range(s)
         /\ Range(Tail(s)) = Range(s) \ {Head(s)}
         /\ IsInjective(Tail(s))
<1> DEFINE t == Tail(s)
<1>1. /\ Len(s) \in Nat \ {0}
      /\ DOMAIN s = 1 .. Len(s)
      /\ DOMAIN t = 1 .. (Len(s) - 1)
      /\ \A i \in DOMAIN t : t[i] = s[i + 1]
      /\ Head(s) = s[1]
  BY HeadTailProperties, LenProperties, EmptySeq
<1>2. \A i \in DOMAIN s : i # 1 => i - 1 \in DOMAIN t /\ t[i - 1] = s[i]
  BY <1>1
<1>3. \A i \in DOMAIN t : i + 1 \in DOMAIN s /\ i + 1 # 1
  BY <1>1
<1>4. \A i \in DOMAIN s : i # 1 => s[i] # s[1]
  BY <1>1 DEF IsInjective
<1>5. Range(t) \subseteq Range(s) \ {Head(s)}
  BY <1>1, <1>3, <1>4 DEF Range
<1>6. Range(s) \ {Head(s)} \subseteq Range(t)
  BY <1>1, <1>2 DEF Range
<1>7. Head(s) \in Range(s)
  BY <1>1 DEF Range
<1>8. ASSUME NEW a \in DOMAIN t, NEW b \in DOMAIN t, t[a] = t[b]
      PROVE  a = b
  <2>1. s[a + 1] = s[b + 1]
    BY <1>1, <1>8
  <2>2. a + 1 = b + 1
    BY <1>3, <2>1 DEF IsInjective
  <2> QED
    BY <1>1, <2>2
<1> QED
  BY <1>5, <1>6, <1>7, <1>8 DEF IsInjective

-----------------------------------------------------------------------------
\* The inductive invariant: no part is inductive alone.  The type of
\* "unfinished" needs the balance (a task_done() could take it below zero);
\* the balance needs the place of every job (a worker that releases one must
\* hold one); the pool's integrity needs that only live workers hold jobs.

ExecInv ==
    /\ TypeOK
    /\ Len(queue) <= Maxsize
    /\ ExactlyOnePlace
    /\ TaskDoneBalanced
    /\ PoolIntact
    /\ OnlyLiveWorkersHoldJobs

\* What a busy worker knows before it lets its job go.
LEMMA BusyWorker ==
  ASSUME ExecInv, NEW w \in Workers, job[w] # NoJob
  PROVE  /\ job[w] \in Jobs
         /\ fate[job[w]] = "accepted"
         /\ job[w] \notin Range(queue)
         /\ \A v \in Workers : v # w => job[v] # job[w]
<1>1. job \in [Workers -> Jobs \cup {NoJob}]
  BY DEF ExecInv, TypeOK
<1>2. job[w] \in Jobs /\ job[w] \in Range(job)
  BY <1>1 DEF Range
<1> QED
  BY <1>2 DEF ExecInv, ExactlyOnePlace, NoSharedJob, NotBothPlaces, AcceptedIsSomewhere

\* Letting a job go keeps everything the invariant says of jobs and counts.
LEMMA ReleaseKeeps ==
  ASSUME ExecInv, NEW w \in Workers, job[w] # NoJob,
         NEW f \in Fates \ {"accepted", "new"},
         Release(w, f), UNCHANGED queue
  PROVE  /\ unfinished' \in Nat
         /\ job' \in [Workers -> Jobs \cup {NoJob}]
         /\ fate' \in [Jobs -> Fates]
         /\ Busy' = Busy \ {w}
         /\ ExactlyOnePlace'
         /\ TaskDoneBalanced'
<1> USE DEF Release
<1>0. TypeOK
  BY DEF ExecInv
<1>1. /\ job[w] \in Jobs
      /\ fate[job[w]] = "accepted"
      /\ job[w] \notin Range(queue)
      /\ \A v \in Workers : v # w => job[v] # job[w]
  BY BusyWorker
<1>2. Busy' = Busy \ {w} /\ w \in Busy
  BY <1>0 DEF Busy, TypeOK
<1>3. Cardinality(Busy') = Cardinality(Busy) - 1 /\ Cardinality(Busy) \in Nat \ {0}
  BY <1>2, BusyBounded, FS_RemoveElement, FS_EmptySet, SizesPositive
<1>4. Len(queue) \in Nat
  BY <1>0, LenProperties DEF TypeOK
<1>5. unfinished = Len(queue) + Cardinality(Busy)
  BY DEF ExecInv, TaskDoneBalanced
<1>6. unfinished' \in Nat /\ TaskDoneBalanced'
  BY <1>3, <1>4, <1>5 DEF TaskDoneBalanced
<1>7. job' \in [Workers -> Jobs \cup {NoJob}]
  BY <1>0 DEF TypeOK
<1>8. fate' \in [Jobs -> Fates]
  BY <1>0 DEF TypeOK
<1>9. \A v \in Workers : job'[v] = IF v = w THEN NoJob ELSE job[v]
  BY <1>0 DEF TypeOK
<1>10. ExactlyOnePlace'
  <2>1. NoDuplicateInQueue' /\ Range(queue)' = Range(queue)
    BY DEF ExecInv, ExactlyOnePlace, NoDuplicateInQueue
  <2>2. NoSharedJob'
    BY <1>9 DEF ExecInv, ExactlyOnePlace, NoSharedJob
  <2>3. NoJob \notin Range(queue)
    BY <1>0, ExecutorAssumption, LenProperties, ElementOfSeq DEF TypeOK, Range
  <2>4. NotBothPlaces'
    BY <1>9, <2>1, <2>3 DEF ExecInv, ExactlyOnePlace, NotBothPlaces
  <2>5. \A j \in Jobs : j \in Range(job') <=> j \in Range(job) /\ j # job[w]
    <3>1. DOMAIN job = Workers /\ DOMAIN job' = Workers
      BY <1>0, <1>7 DEF TypeOK
    <3> QED
      BY <1>1, <1>9, <3>1, ExecutorAssumption DEF Range
  <2>6. AcceptedIsSomewhere'
    <3> SUFFICES ASSUME NEW j \in Jobs
                 PROVE  fate'[j] = "accepted" <=> (j \in Range(queue) \/ j \in Range(job'))
      BY <2>1 DEF AcceptedIsSomewhere
    <3>1. fate'[j] = IF j = job[w] THEN f ELSE fate[j]
      BY <1>0 DEF TypeOK
    <3> QED
      BY <1>1, <2>5, <3>1 DEF ExecInv, ExactlyOnePlace, AcceptedIsSomewhere
  <2> QED
    BY <2>1, <2>2, <2>4, <2>6 DEF ExactlyOnePlace
<1> QED
  BY <1>2, <1>6, <1>7, <1>8, <1>10

\* Accepting a job whose fate is "new" puts it in one place.
LEMMA AcceptKeeps ==
  ASSUME ExecInv, NEW j \in Jobs, Accept(j)
  PROVE  ExecInv'
<1> USE DEF Accept
<1>0. TypeOK
  BY DEF ExecInv
<1>1. j \notin Range(queue) /\ j \notin Range(job)
  BY DEF ExecInv, ExactlyOnePlace, AcceptedIsSomewhere
<1>2. /\ queue' \in Seq(Jobs)
      /\ Len(queue') = Len(queue) + 1
      /\ Len(queue) \in Nat
  BY <1>0, AppendProperties, LenProperties DEF TypeOK
<1>3. Range(queue') = Range(queue) \cup {j} /\ IsInjective(queue')
  BY <1>0, <1>1, AppendRange DEF TypeOK, ExecInv, ExactlyOnePlace, NoDuplicateInQueue
<1>4. TypeOK'
  BY <1>0, <1>2 DEF TypeOK, Fates
<1>5. Len(queue') <= Maxsize
  BY <1>2, SizesPositive DEF QueueFull
<1>6. ExactlyOnePlace'
  <2>1. NoDuplicateInQueue' /\ NoSharedJob'
    BY <1>3 DEF ExecInv, ExactlyOnePlace, NoDuplicateInQueue, NoSharedJob
  <2>2. \A w \in Workers : job[w] # j
    BY <1>0, <1>1 DEF TypeOK, Range
  <2>3. NotBothPlaces'
    BY <1>3, <2>2 DEF ExecInv, ExactlyOnePlace, NotBothPlaces
  <2>4. AcceptedIsSomewhere'
    BY <1>0, <1>3 DEF ExecInv, ExactlyOnePlace, AcceptedIsSomewhere, TypeOK
  <2> QED
    BY <2>1, <2>3, <2>4 DEF ExactlyOnePlace
<1>7. TaskDoneBalanced'
  <2>1. Busy' = Busy
    BY DEF Busy
  <2> QED
    BY <1>0, <1>2, <2>1, BusyBounded DEF ExecInv, TaskDoneBalanced, TypeOK
<1>8. PoolIntact'
  <2>1. \A i \in Jobs : fate'[i] = "escaped" <=> fate[i] = "escaped"
    BY <1>0 DEF TypeOK
  <2> QED
    BY <2>1 DEF ExecInv, PoolIntact
<1>9. OnlyLiveWorkersHoldJobs'
  BY DEF ExecInv, OnlyLiveWorkersHoldJobs, Busy
<1> QED
  BY <1>4, <1>5, <1>6, <1>7, <1>8, <1>9 DEF ExecInv

\* A refused job stays outside: nothing but its fate changes.
LEMMA DropKeeps ==
  ASSUME ExecInv, NEW j \in Jobs, Drop(j)
  PROVE  ExecInv'
<1> USE DEF Drop
<1>1. \A i \in Jobs : fate'[i] = IF i = j THEN "dropped" ELSE fate[i]
  BY DEF ExecInv, TypeOK
<1>2. TypeOK' /\ Len(queue') <= Maxsize
  BY DEF ExecInv, TypeOK, Fates
<1>3. ExactlyOnePlace'
  BY <1>1 DEF ExecInv, ExactlyOnePlace, NoDuplicateInQueue, NoSharedJob, NotBothPlaces,
              AcceptedIsSomewhere
<1>4. TaskDoneBalanced' /\ OnlyLiveWorkersHoldJobs'
  BY DEF ExecInv, TaskDoneBalanced, OnlyLiveWorkersHoldJobs, Busy
<1>5. PoolIntact'
  BY <1>1 DEF ExecInv, PoolIntact
<1> QED
  BY <1>2, <1>3, <1>4, <1>5 DEF ExecInv

\* A worker takes the head: it leaves the queue as it enters the worker.
LEMMA TakeKeeps ==
  ASSUME ExecInv, NEW w \in Workers, Take(w)
  PROVE  ExecInv'
<1> USE DEF Take
<1>0. TypeOK
  BY DEF ExecInv
<1>1. /\ Head(queue) \in Jobs
      /\ queue' \in Seq(Jobs)
      /\ Len(queue') = Len(queue) - 1
      /\ Len(queue) \in Nat \ {0}
  BY <1>0, HeadTailProperties, EmptySeq DEF TypeOK
<1>2. /\ Head(queue) \in Range(queue)
      /\ Range(queue') = Range(queue) \ {Head(queue)}
      /\ IsInjective(queue')
  BY <1>0, TailRange DEF TypeOK, ExecInv, ExactlyOnePlace, NoDuplicateInQueue
<1>3. Head(queue) # NoJob
  BY <1>1, ExecutorAssumption
<1>4. \A v \in Workers : job'[v] = IF v = w THEN Head(queue) ELSE job[v]
  BY <1>0 DEF TypeOK
<1>5. TypeOK'
  BY <1>0, <1>1 DEF TypeOK
<1>6. Len(queue') <= Maxsize
  BY <1>1, SizesPositive DEF ExecInv
<1>7. Busy' = Busy \cup {w} /\ w \notin Busy
  BY <1>3, <1>4 DEF Busy
<1>8. ExactlyOnePlace'
  <2>1. NoDuplicateInQueue'
    BY <1>2 DEF NoDuplicateInQueue
  <2>2. \A v \in Workers : job[v] # Head(queue)
    BY <1>2 DEF ExecInv, ExactlyOnePlace, NotBothPlaces
  <2>3. NoSharedJob'
    BY <1>4, <2>2 DEF ExecInv, ExactlyOnePlace, NoSharedJob
  <2>4. NotBothPlaces'
    BY <1>2, <1>4 DEF ExecInv, ExactlyOnePlace, NotBothPlaces
  <2>5. \A j \in Jobs : j \in Range(job') <=> j \in Range(job) \/ j = Head(queue)
    <3>1. DOMAIN job = Workers /\ DOMAIN job' = Workers
      BY <1>0, <1>5 DEF TypeOK
    <3> QED
      BY <1>4, <3>1, ExecutorAssumption DEF Range
  <2>6. AcceptedIsSomewhere'
    BY <1>2, <2>5 DEF ExecInv, ExactlyOnePlace, AcceptedIsSomewhere
  <2> QED
    BY <2>1, <2>3, <2>4, <2>6 DEF ExactlyOnePlace
<1>9. TaskDoneBalanced'
  <2>1. Cardinality(Busy') = Cardinality(Busy) + 1 /\ Cardinality(Busy) \in Nat
    BY <1>7, BusyBounded, FS_AddElement, FS_CardinalityType
  <2> QED
    BY <1>1, <2>1 DEF ExecInv, TaskDoneBalanced
<1>10. PoolIntact'
  BY DEF ExecInv, PoolIntact
<1>11. OnlyLiveWorkersHoldJobs'
  BY <1>7 DEF ExecInv, OnlyLiveWorkersHoldJobs
<1> QED
  BY <1>5, <1>6, <1>8, <1>9, <1>10, <1>11 DEF ExecInv

\* The three ways a job ends: each releases it, and says who stays alive.
LEMMA EndKeeps ==
  ASSUME ExecInv, NEW w \in Workers,
         JobEnds(w) \/ JobCancelsItself(w) \/ WorkerCancelled(w)
  PROVE  ExecInv'
<1>0. TypeOK
  BY DEF ExecInv
<1>1. CASE JobEnds(w)
  <2> USE <1>1 DEF JobEnds
  <2>1. /\ unfinished' \in Nat
        /\ job' \in [Workers -> Jobs \cup {NoJob}]
        /\ fate' \in [Jobs -> Fates]
        /\ Busy' = Busy \ {w}
        /\ ExactlyOnePlace'
        /\ TaskDoneBalanced'
    BY ReleaseKeeps DEF Fates
  <2>2. TypeOK' /\ Len(queue') <= Maxsize
    BY <1>0, <2>1 DEF TypeOK, ExecInv
  <2>3. \A i \in Jobs : fate'[i] = "escaped" <=> fate[i] = "escaped"
    BY <1>0, BusyWorker DEF TypeOK, Release
  <2>4. PoolIntact'
    BY <2>3 DEF ExecInv, PoolIntact
  <2>5. OnlyLiveWorkersHoldJobs'
    BY <2>1 DEF ExecInv, OnlyLiveWorkersHoldJobs
  <2> QED
    BY <2>1, <2>2, <2>4, <2>5 DEF ExecInv
<1>2. CASE JobCancelsItself(w)
  <2> USE <1>2 DEF JobCancelsItself
  <2>1. job[w] # NoJob
    BY ExecutorAssumption
  <2>2. /\ unfinished' \in Nat
        /\ job' \in [Workers -> Jobs \cup {NoJob}]
        /\ fate' \in [Jobs -> Fates]
        /\ Busy' = Busy \ {w}
        /\ ExactlyOnePlace'
        /\ TaskDoneBalanced'
    BY <2>1, ReleaseKeeps DEF Fates
  <2>3. TypeOK' /\ Len(queue') <= Maxsize
    BY <1>0, <2>2 DEF TypeOK, ExecInv
  <2>4. fate'[job[w]] = "escaped" /\ job[w] \in Jobs
    BY <1>0, <2>1, BusyWorker DEF TypeOK, Release
  <2>5. PoolIntact'
    BY <2>4 DEF PoolIntact
  <2>6. OnlyLiveWorkersHoldJobs'
    BY <2>2 DEF ExecInv, OnlyLiveWorkersHoldJobs
  <2> QED
    BY <2>2, <2>3, <2>5, <2>6 DEF ExecInv
<1>3. CASE WorkerCancelled(w) /\ job[w] = NoJob
  <2> USE <1>3 DEF WorkerCancelled
  <2>1. TypeOK' /\ Len(queue') <= Maxsize
    BY <1>0 DEF TypeOK, ExecInv
  <2>2. ExactlyOnePlace' /\ TaskDoneBalanced' /\ Busy' = Busy
    BY DEF ExecInv, ExactlyOnePlace, NoDuplicateInQueue, NoSharedJob, NotBothPlaces,
           AcceptedIsSomewhere, TaskDoneBalanced, Busy
  <2>3. PoolIntact' /\ OnlyLiveWorkersHoldJobs'
    BY <2>2 DEF ExecInv, PoolIntact, OnlyLiveWorkersHoldJobs, Busy
  <2> QED
    BY <2>1, <2>2, <2>3 DEF ExecInv
<1>4. CASE WorkerCancelled(w) /\ job[w] # NoJob
  <2> USE <1>4 DEF WorkerCancelled
  <2>1. /\ unfinished' \in Nat
        /\ job' \in [Workers -> Jobs \cup {NoJob}]
        /\ fate' \in [Jobs -> Fates]
        /\ Busy' = Busy \ {w}
        /\ ExactlyOnePlace'
        /\ TaskDoneBalanced'
    BY ReleaseKeeps DEF Fates
  <2>2. TypeOK' /\ Len(queue') <= Maxsize
    BY <1>0, <2>1 DEF TypeOK, ExecInv
  <2>3. PoolIntact' /\ OnlyLiveWorkersHoldJobs'
    BY <2>1 DEF ExecInv, PoolIntact, OnlyLiveWorkersHoldJobs
  <2> QED
    BY <2>1, <2>2, <2>3 DEF ExecInv
<1> QED
  BY <1>1, <1>2, <1>3, <1>4

-----------------------------------------------------------------------------
\* The theorems.

\* The invariant holds initially.
LEMMA ExecInvInit == Init => ExecInv
<1> SUFFICES ASSUME Init PROVE ExecInv
  OBVIOUS
<1> USE DEF Init
<1>1. TypeOK
  BY EmptySeq DEF TypeOK, Fates
<1>2. Len(queue) = 0 /\ Len(queue) <= Maxsize /\ Range(queue) = {}
  BY SizesPositive, EmptySeq DEF Range
<1>3. Busy = {} /\ \A j \in Jobs : j \notin Range(job)
  BY ExecutorAssumption DEF Busy, Range
<1>4. ExactlyOnePlace
  BY <1>2, <1>3 DEF ExactlyOnePlace, NoDuplicateInQueue, IsInjective, NoSharedJob,
                    NotBothPlaces, AcceptedIsSomewhere
<1>5. TaskDoneBalanced
  BY <1>2, <1>3, FS_EmptySet DEF TaskDoneBalanced
<1>6. PoolIntact /\ OnlyLiveWorkersHoldJobs
  BY <1>3 DEF PoolIntact, OnlyLiveWorkersHoldJobs
<1> QED
  BY <1>1, <1>2, <1>4, <1>5, <1>6 DEF ExecInv

\* Every step keeps the invariant.
LEMMA ExecInvStep == ExecInv /\ [Next]_execVars => ExecInv'
<1> SUFFICES ASSUME ExecInv, [Next]_execVars PROVE ExecInv'
  OBVIOUS
<1> USE DEF ExecInv
<1>1. CASE Start
  BY <1>1 DEF Start, TypeOK, ExactlyOnePlace, NoDuplicateInQueue, NoSharedJob,
       NotBothPlaces, AcceptedIsSomewhere, TaskDoneBalanced, PoolIntact,
       OnlyLiveWorkersHoldJobs, Busy
<1>2. CASE Stop
  BY <1>2 DEF Stop, TypeOK, ExactlyOnePlace, NoDuplicateInQueue, NoSharedJob,
       NotBothPlaces, AcceptedIsSomewhere, TaskDoneBalanced, PoolIntact,
       OnlyLiveWorkersHoldJobs, Busy
<1>3. CASE StopReturns
  BY <1>3 DEF StopReturns, TypeOK, ExactlyOnePlace, NoDuplicateInQueue, NoSharedJob,
       NotBothPlaces, AcceptedIsSomewhere, TaskDoneBalanced, PoolIntact,
       OnlyLiveWorkersHoldJobs, Busy
<1>4. ASSUME NEW j \in Jobs, Submit(j) PROVE ExecInv'
  BY <1>4, AcceptKeeps, DropKeeps DEF Submit
<1>5. ASSUME NEW w \in Workers, WorkerStep(w) PROVE ExecInv'
  BY <1>5, TakeKeeps, EndKeeps DEF WorkerStep
<1>6. CASE UNCHANGED execVars
  BY <1>6 DEF execVars, TypeOK, ExactlyOnePlace, NoDuplicateInQueue, NoSharedJob,
       NotBothPlaces, AcceptedIsSomewhere, TaskDoneBalanced, PoolIntact,
       OnlyLiveWorkersHoldJobs, Busy
<1> QED
  BY <1>1, <1>2, <1>3, <1>4, <1>5, <1>6 DEF Next

\* Type correctness, every job in exactly one place, the queue's count equal
\* to the jobs outstanding, no worker lost to a job, and no job held by a dead
\* task: all of it in every reachable state.
THEOREM ExecutorInvariant == SafeSpec => []ExecInv
BY ExecInvInit, ExecInvStep, PTL DEF SafeSpec

\* Every variable keeps its type; in particular the queue's count of
\* unfinished jobs never goes below zero, so task_done() never raises.
THEOREM ExecutorTypeOK == SafeSpec => []TypeOK
<1>1. ExecInv => TypeOK
  BY DEF ExecInv
<1> QED
  BY <1>1, ExecutorInvariant, PTL

\* The docstring's promise, for every configured size, zero included: the
\* work outstanding never exceeds the queue plus the workers.
THEOREM WorkIsBounded == SafeSpec => []BoundedWork
<1>1. ExecInv => BoundedWork
  <2> SUFFICES ASSUME ExecInv PROVE BoundedWork
    OBVIOUS
  <2>1. Len(queue) \in Nat /\ Len(queue) <= Maxsize
    BY LenProperties DEF ExecInv, TypeOK
  <2> QED
    BY <2>1, BusyBounded, SizesPositive DEF BoundedWork
<1> QED
  BY <1>1, ExecutorInvariant, PTL

\* No accepted job is lost, duplicated or shared, by any interleaving of
\* submissions, workers, failures, shutdowns and restarts.
THEOREM JobsStayInOnePlace == SafeSpec => []ExactlyOnePlace
<1>1. ExecInv => ExactlyOnePlace
  BY DEF ExecInv
<1> QED
  BY <1>1, ExecutorInvariant, PTL

\* The pool never loses a worker to a job that ends or fails.
THEOREM PoolStaysIntact == SafeSpec => []PoolIntact
<1>1. ExecInv => PoolIntact
  BY DEF ExecInv
<1> QED
  BY <1>1, ExecutorInvariant, PTL

\* task_done() is called once for every job that was put, never more: the
\* queue's own count is the jobs waiting plus the jobs in hand.
THEOREM TasksAreBalanced == SafeSpec => []TaskDoneBalanced
<1>1. ExecInv => TaskDoneBalanced
  BY DEF ExecInv
<1> QED
  BY <1>1, ExecutorInvariant, PTL

\* A task that has ended, however it ended, holds no job.
THEOREM OnlyLiveTasksHoldJobs == SafeSpec => []OnlyLiveWorkersHoldJobs
<1>1. ExecInv => OnlyLiveWorkersHoldJobs
  BY DEF ExecInv
<1> QED
  BY <1>1, ExecutorInvariant, PTL

-----------------------------------------------------------------------------
\* What no step does: the safety that AcceptedJobsEnd and StopCompletes rest on
\* besides fairness.

Over == {"dropped", "finished", "escaped", "abandoned"}

\* A job that is refused or over stays so: no worker begins it (again), whoever
\* is cancelled and however often the pool is restarted; and a job in hand is
\* let go of only when it is over.
THEOREM FatesAreFinal ==
  SafeSpec => [][\A j \in Jobs :
                   /\ fate[j] \in Over => fate'[j] = fate[j] /\ j \notin Range(job')
                   /\ j \in Range(job) => j \in Range(job') \/ fate'[j] \in Over]_execVars
<1>1. ExecInv /\ ExecInv' /\ [Next]_execVars
        => [\A j \in Jobs :
              /\ fate[j] \in Over => fate'[j] = fate[j] /\ j \notin Range(job')
              /\ j \in Range(job) => j \in Range(job') \/ fate'[j] \in Over]_execVars
  <2> SUFFICES ASSUME ExecInv, ExecInv', Next, NEW j \in Jobs
               PROVE  /\ fate[j] \in Over => fate'[j] = fate[j] /\ j \notin Range(job')
                      /\ j \in Range(job) => j \in Range(job') \/ fate'[j] \in Over
    OBVIOUS
  <2>0. /\ fate \in [Jobs -> Fates] /\ job \in [Workers -> Jobs \cup {NoJob}]
        /\ fate'[j] \in Over => j \notin Range(job')
        /\ j \in Range(job) => fate[j] = "accepted" /\ j \notin Range(queue)
        /\ fate'[j] = "accepted" => j \in Range(queue') \/ j \in Range(job')
    BY ExecutorAssumption
       DEF ExecInv, TypeOK, ExactlyOnePlace, AcceptedIsSomewhere, NotBothPlaces, Over, Range
  <2>1. ASSUME NEW w \in Workers, JobEnds(w) \/ JobCancelsItself(w) \/ WorkerCancelled(w),
               job[w] # NoJob
        PROVE  /\ fate[j] \in Over => fate'[j] = fate[j]
               /\ j = job[w] => fate'[j] \in Over
               /\ j # job[w] => fate'[j] = fate[j]
               /\ queue' = queue
    <3>1. job[w] \in Jobs /\ fate[job[w]] = "accepted"
      BY <2>1, BusyWorker
    <3> QED
      BY <2>0, <2>1, <3>1 DEF JobEnds, JobCancelsItself, WorkerCancelled, Release, Over
  <2>2. CASE Start \/ Stop \/ StopReturns
    BY <2>0, <2>2 DEF Start, Stop, StopReturns
  <2>3. ASSUME NEW i \in Jobs, Submit(i)
        PROVE  (fate[j] \in Over => fate'[j] = fate[j]) /\ job' = job
    BY <2>0, <2>3 DEF Submit, Accept, Drop, Over
  <2>4. ASSUME NEW w \in Workers, Take(w)
        PROVE  fate' = fate /\ (j \in Range(job) => j \in Range(job'))
    <3>1. ASSUME NEW v \in Workers, job[v] = j PROVE job'[v] = j
      BY <2>0, <2>4, <3>1, ExecutorAssumption DEF Take
    <3>2. DOMAIN job' = DOMAIN job /\ fate' = fate /\ DOMAIN job = Workers
      BY <2>0, <2>4 DEF Take
    <3> QED
      BY <3>1, <3>2 DEF Range
  <2>5. ASSUME NEW w \in Workers, JobEnds(w) \/ JobCancelsItself(w) \/ WorkerCancelled(w),
               job[w] = NoJob
        PROVE  fate' = fate /\ job' = job
    BY <2>5, ExecutorAssumption DEF JobEnds, JobCancelsItself, WorkerCancelled
  <2> QED
    BY <2>0, <2>1, <2>2, <2>3, <2>4, <2>5 DEF Next, WorkerStep, Over
<1> QED
  BY <1>1, ExecutorInvariant, PTL DEF SafeSpec

\* Job i waits somewhere before job j.
Before(i, j) ==
    \E m, n \in 1 .. Len(queue) : m < n /\ queue[m] = i /\ queue[n] = j

\* The queue is first in, first out: no job waiting is overtaken by one that
\* came later, and the jobs before it only ever leave.
THEOREM QueueKeepsOrder ==
  SafeSpec => [][\A i, j \in Jobs :
                   /\ Before(i, j) => Before(i, j)' \/ i \notin Range(queue')
                   /\ Before(i, j)' /\ j \in Range(queue) => Before(i, j)]_execVars
<1>1. ExecInv /\ [Next]_execVars
        => [\A i, j \in Jobs :
              /\ Before(i, j) => Before(i, j)' \/ i \notin Range(queue')
              /\ Before(i, j)' /\ j \in Range(queue) => Before(i, j)]_execVars
  <2> SUFFICES ASSUME ExecInv, Next, NEW i \in Jobs, NEW j \in Jobs
               PROVE  /\ Before(i, j) => Before(i, j)' \/ i \notin Range(queue')
                      /\ Before(i, j)' /\ j \in Range(queue) => Before(i, j)
    OBVIOUS
  <2>0. /\ queue \in Seq(Jobs) /\ Len(queue) \in Nat
        /\ \A m, n \in 1 .. Len(queue) : queue[m] = queue[n] => m = n
        /\ DOMAIN queue = 1 .. Len(queue)
    BY LenProperties
       DEF ExecInv, TypeOK, ExactlyOnePlace, NoDuplicateInQueue, IsInjective
  <2>1. CASE queue' = queue
    BY <2>1 DEF Before
  <2>2. ASSUME NEW k \in Jobs, Accept(k)
        PROVE  /\ Before(i, j) => Before(i, j)'
               /\ Before(i, j)' /\ j \in Range(queue) => Before(i, j)
    <3>1. /\ Len(queue') = Len(queue) + 1
          /\ \A m \in 1 .. Len(queue) : queue'[m] = queue[m]
          /\ queue'[Len(queue) + 1] = k
      BY <2>0, <2>2, AppendProperties DEF Accept
    <3>2. k \notin Range(queue)
      BY <2>2 DEF Accept, ExecInv, ExactlyOnePlace, AcceptedIsSomewhere
    <3>3. ASSUME Before(i, j) PROVE Before(i, j)'
      BY <2>0, <3>1, <3>3 DEF Before
    <3>4. ASSUME Before(i, j)', j \in Range(queue) PROVE Before(i, j)
      <4>1. PICK m, n \in 1 .. Len(queue') : m < n /\ queue'[m] = i /\ queue'[n] = j
        BY <3>4 DEF Before
      <4>2. n \in 1 .. Len(queue) /\ m \in 1 .. Len(queue)
        BY <2>0, <3>1, <3>2, <3>4, <4>1
      <4> QED
        BY <3>1, <4>1, <4>2 DEF Before
    <3> QED
      BY <3>3, <3>4
  <2>3. ASSUME NEW w \in Workers, Take(w)
        PROVE  /\ Before(i, j) => Before(i, j)' \/ i \notin Range(queue')
               /\ Before(i, j)' => Before(i, j)
    <3>1. /\ Len(queue') = Len(queue) - 1 /\ Len(queue) > 0
          /\ \A m \in 1 .. Len(queue) - 1 : queue'[m] = queue[m + 1]
          /\ Head(queue) = queue[1]
      BY <2>0, <2>3, HeadTailProperties, EmptySeq DEF Take
    <3>2. Range(queue') = Range(queue) \ {Head(queue)}
      BY <2>0, <2>3, TailRange DEF Take, ExecInv, ExactlyOnePlace, NoDuplicateInQueue
    <3>3. ASSUME Before(i, j), i \in Range(queue') PROVE Before(i, j)'
      <4>1. PICK m, n \in 1 .. Len(queue) : m < n /\ queue[m] = i /\ queue[n] = j
        BY <3>3 DEF Before
      <4>2. m # 1
        BY <3>1, <3>2, <3>3, <4>1
      <4>3. /\ m - 1 \in 1 .. Len(queue') /\ n - 1 \in 1 .. Len(queue')
            /\ m - 1 < n - 1 /\ queue'[m - 1] = i /\ queue'[n - 1] = j
        BY <2>0, <3>1, <4>1, <4>2
      <4> QED
        BY <4>3 DEF Before
    <3>4. ASSUME Before(i, j)' PROVE Before(i, j)
      <4>1. PICK m, n \in 1 .. Len(queue') : m < n /\ queue'[m] = i /\ queue'[n] = j
        BY <3>4 DEF Before
      <4>2. /\ m + 1 \in 1 .. Len(queue) /\ n + 1 \in 1 .. Len(queue)
            /\ m + 1 < n + 1 /\ queue[m + 1] = i /\ queue[n + 1] = j
        BY <2>0, <3>1, <4>1
      <4> QED
        BY <4>2 DEF Before
    <3> QED
      BY <3>3, <3>4
  <2>4. \/ queue' = queue
        \/ \E k \in Jobs : Accept(k)
        \/ \E w \in Workers : Take(w)
    BY DEF Next, Submit, WorkerStep, Start, Stop, StopReturns, Drop, JobEnds,
           JobCancelsItself, WorkerCancelled
  <2> QED
    BY <2>1, <2>2, <2>3, <2>4
<1> QED
  BY <1>1, ExecutorInvariant, PTL DEF SafeSpec

\* A pool told to stop winds down: it takes no job and revives no task, every
\* step of a worker is the end of a task, and stop() returns only when none is
\* left, with every job then in hand given up.
THEOREM StoppingWindsDown ==
  SafeSpec => [][stopping =>
                   /\ alive' \subseteq alive
                   /\ job' # job => alive' # alive
                   /\ \A w \in Workers : job'[w] \in {job[w], NoJob}
                   /\ ~stopping' => alive = {} /\ Busy = {} /\ ~started']_execVars
<1>1. ExecInv /\ [Next]_execVars
        => [stopping =>
              /\ alive' \subseteq alive
              /\ job' # job => alive' # alive
              /\ \A w \in Workers : job'[w] \in {job[w], NoJob}
              /\ ~stopping' => alive = {} /\ Busy = {} /\ ~started']_execVars
  <2> SUFFICES ASSUME ExecInv, Next, stopping
               PROVE  /\ alive' \subseteq alive
                      /\ job' # job => alive' # alive
                      /\ \A w \in Workers : job'[w] \in {job[w], NoJob}
                      /\ ~stopping' => alive = {} /\ Busy = {} /\ ~started'
    OBVIOUS
  <2>1. started /\ (\A w \in Busy : w \in alive) /\ job \in [Workers -> Jobs \cup {NoJob}]
    BY DEF ExecInv, OnlyLiveWorkersHoldJobs, TypeOK
  <2>2. StopReturns \/ (\E j \in Jobs : Submit(j)) \/ \E w \in Workers : WorkerCancelled(w)
    BY <2>1 DEF Next, WorkerStep, Start, Stop, Take, JobEnds, JobCancelsItself
  <2>3. CASE StopReturns
    BY <2>1, <2>3 DEF StopReturns
  <2>4. CASE \E j \in Jobs : Submit(j)
    BY <2>4 DEF Submit, Accept, Drop
  <2>5. CASE \E w \in Workers : WorkerCancelled(w)
    BY <2>1, <2>5 DEF WorkerCancelled, Release
  <2> QED
    BY <2>2, <2>3, <2>4, <2>5
<1> QED
  BY <1>1, ExecutorInvariant, PTL DEF SafeSpec

-----------------------------------------------------------------------------
\* The executor implements the safety part of BestEffortPool: under the mapping
\* of ShadowExecutor (StatusOf, Pool), its initial states are initial states of
\* the pool and each of its steps is a step of the pool or none.

\* What the mapping shows of a state.

\* A queue of distinct jobs holds as many jobs as it is long.
LEMMA DistinctQueueSize ==
  ASSUME NEW S, NEW s \in Seq(S), IsInjective(s)
  PROVE  Cardinality(Range(s)) = Len(s)
<1>1. Len(s) \in Nat /\ DOMAIN s = 1 .. Len(s)
  BY LenProperties
<1>2. s \in [DOMAIN s -> Range(s)]
  BY <1>1 DEF Range
<1>3. s \in Surjection(DOMAIN s, Range(s))
  BY <1>2 DEF Surjection, Range
<1>4. s \in Injection(DOMAIN s, Range(s))
  BY <1>2 DEF Injection, IsInjective
<1>5. IsFiniteSet(DOMAIN s) /\ Cardinality(DOMAIN s) = Len(s)
  BY <1>1, FS_Interval
<1> QED
  BY <1>3, <1>4, <1>5, FS_Surjection

\* The pool's Cardinality is the library's.
LEMMA SameCardinality == \A S : Pool!Cardinality(S) = Cardinality(S)
BY Zenon DEF Pool!Cardinality, Cardinality

Held == {job[w] : w \in Busy}

\* The mapped pool's waiting jobs are the queue's.
LEMMA WaitingIsQueue ==
  ASSUME ExecInv
  PROVE  Pool!Waiting = Range(queue) /\ Cardinality(Pool!Waiting) = Len(queue)
<1>1. Range(queue) \subseteq Jobs
  BY LenProperties, ElementOfSeq DEF ExecInv, TypeOK, Range
<1>2. \A j \in Jobs : StatusOf(j) = "waiting" <=> j \in Range(queue)
  BY DEF ExecInv, ExactlyOnePlace, AcceptedIsSomewhere, TypeOK, Fates, StatusOf, Seen
<1>3. Pool!Waiting = Range(queue)
  BY <1>1, <1>2 DEF Pool!Waiting
<1> QED
  BY <1>3, DistinctQueueSize DEF ExecInv, TypeOK, ExactlyOnePlace, NoDuplicateInQueue

\* Its running jobs are the busy workers', one each.
LEMMA RunningIsHeld ==
  ASSUME ExecInv
  PROVE  Pool!Running = Held /\ Cardinality(Pool!Running) = Cardinality(Busy)
<1>1. /\ job \in [Workers -> Jobs \cup {NoJob}]
      /\ DOMAIN job = Workers
      /\ Busy \subseteq Workers
  BY DEF ExecInv, TypeOK, Busy
<1>2. Held \subseteq Jobs
  BY <1>1 DEF Held, Busy
<1>3. \A j \in Jobs : j \in Range(job) <=> j \in Held
  BY <1>1, ExecutorAssumption DEF Range, Held, Busy
<1>4. \A j \in Held : j \notin Range(queue)
  BY <1>1 DEF ExecInv, ExactlyOnePlace, NotBothPlaces, Held
<1>5. \A j \in Jobs : StatusOf(j) = "running" <=> j \in Held
  BY <1>3, <1>4 DEF ExecInv, ExactlyOnePlace, AcceptedIsSomewhere, TypeOK, Fates, StatusOf, Seen
<1>6. Pool!Running = Held
  BY <1>2, <1>5 DEF Pool!Running
<1> DEFINE held == [w \in Busy |-> job[w]]
<1>7. held \in Surjection(Busy, Held)
  BY DEF Surjection, Held
<1>8. held \in Injection(Busy, Held)
  <2>1. \A v, w \in Busy : held[v] = held[w] => v = w
    BY <1>1 DEF ExecInv, ExactlyOnePlace, NoSharedJob, Busy
  <2> QED
    BY <2>1 DEF Injection, IsInjective, Held
<1> HIDE DEF held
<1> QED
  BY <1>6, <1>7, <1>8, BusyBounded, FS_Surjection

\* A step that changes one job's status, and no other's, is a move of the pool.
LEMMA OneMoves ==
  ASSUME NEW j \in Jobs, NEW from, NEW to,
         StatusOf(j) = from, StatusOf(j)' = to,
         \A i \in Jobs : i # j => StatusOf(i)' = StatusOf(i),
         (started /\ ~stopping)' = (started /\ ~stopping)
  PROVE  Pool!Move(j, from, to)
<1>1. [i \in Jobs |-> StatusOf(i)]' =
        [[i \in Jobs |-> StatusOf(i)] EXCEPT ![j] = to]
  OBVIOUS
<1> QED
  BY <1>1 DEF Pool!Move
-----------------------------------------------------------------------------
\* The steps.

\* The executor starts as a closed pool that no job was offered to.
LEMMA InitRefines == Init => Pool!Init
<1> SUFFICES ASSUME Init PROVE Pool!Init
  OBVIOUS
<1>1. \A j \in Jobs : StatusOf(j) = "unseen"
  BY DEF Init, StatusOf, Seen
<1>2. (started /\ ~stopping) = FALSE
  BY DEF Init
<1> QED
  BY <1>1, <1>2 DEF Pool!Init

\* put_nowait() succeeds exactly when fewer than Maxsize jobs wait.
LEMMA AcceptRefines ==
  ASSUME ExecInv, NEW j \in Jobs, Accept(j)
  PROVE  Pool!Accept(j)
<1> USE DEF Accept
<1>1. j \notin Range(queue) /\ Range(queue') = Range(queue) \cup {j}
  BY AppendRange DEF ExecInv, TypeOK, ExactlyOnePlace, AcceptedIsSomewhere
<1>2. \A i \in Jobs : fate'[i] = IF i = j THEN "accepted" ELSE fate[i]
  BY DEF ExecInv, TypeOK
<1>3. StatusOf(j) = "unseen" /\ StatusOf(j)' = "waiting"
  BY <1>1, <1>2 DEF StatusOf, Seen
<1>4. ASSUME NEW i \in Jobs, i # j PROVE StatusOf(i)' = StatusOf(i)
  BY <1>1, <1>2, <1>4 DEF StatusOf, Seen
<1>5. Pool!Move(j, "unseen", "waiting")
  BY <1>3, <1>4, OneMoves
<1>6. Len(queue) < Maxsize
  BY SizesPositive, LenProperties DEF QueueFull, ExecInv, TypeOK
<1> QED
  BY <1>5, <1>6, SameCardinality, WaitingIsQueue DEF Pool!Accept

\* A job is refused only when exactly Maxsize jobs wait.
LEMMA DropRefines ==
  ASSUME ExecInv, NEW j \in Jobs, Drop(j)
  PROVE  Pool!Refuse(j)
<1> USE DEF Drop
<1>1. \A i \in Jobs : fate'[i] = IF i = j THEN "dropped" ELSE fate[i]
  BY DEF ExecInv, TypeOK
<1>2. StatusOf(j) = "unseen" /\ StatusOf(j)' = "refused"
  BY <1>1 DEF StatusOf, Seen
<1>3. ASSUME NEW i \in Jobs, i # j PROVE StatusOf(i)' = StatusOf(i)
  BY <1>1, <1>3 DEF StatusOf, Seen
<1>4. Pool!Move(j, "unseen", "refused")
  BY <1>2, <1>3, OneMoves
<1>5. Len(queue) = Maxsize
  BY SizesPositive, LenProperties DEF QueueFull, ExecInv, TypeOK
<1> QED
  BY <1>4, <1>5, SameCardinality, WaitingIsQueue DEF Pool!Refuse

\* A live worker is one of an open pool, unless it was cancelled.
LEMMA LiveMeansOpen ==
  ASSUME ExecInv, NEW w \in alive
  PROVE  started
BY DEF ExecInv, OnlyLiveWorkersHoldJobs

\* A worker that is free to take a job leaves room for one more to run.
LEMMA TakeRefines ==
  ASSUME ExecInv, NEW w \in Workers, Take(w)
  PROVE  Pool!Begin(Head(queue))
<1> USE DEF Take
<1>0. PICK j \in Jobs : j = Head(queue)
  BY HeadTailProperties DEF ExecInv, TypeOK
<1>1. j \in Range(queue) /\ Range(queue') = Range(queue) \ {j}
  BY <1>0, TailRange DEF ExecInv, TypeOK, ExactlyOnePlace, NoDuplicateInQueue
<1>2. fate[j] = "accepted"
  BY <1>1 DEF ExecInv, ExactlyOnePlace, AcceptedIsSomewhere
<1>3. StatusOf(j) = "waiting" /\ StatusOf(j)' = "running"
  BY <1>1, <1>2 DEF StatusOf, Seen
<1>4. ASSUME NEW i \in Jobs, i # j PROVE StatusOf(i)' = StatusOf(i)
  BY <1>1, <1>4 DEF StatusOf, Seen
<1>5. Pool!Move(j, "waiting", "running")
  BY <1>3, <1>4, OneMoves
<1>6. Cardinality(Busy) < PoolSize
  <2>1. IsFiniteSet(Workers) /\ Cardinality(Workers) = PoolSize
    BY SizesPositive, FS_Interval DEF Workers
  <2>2. Busy \subseteq Workers /\ Busy # Workers
    BY DEF Busy
  <2> QED
    BY <2>1, <2>2, FS_Subset, FS_CardinalityType, BusyBounded, SizesPositive
<1>7. started /\ ~stopping
  BY LiveMeansOpen
<1> QED
  BY <1>0, <1>5, <1>6, <1>7, SameCardinality, RunningIsHeld DEF Pool!Begin

\* A job that a worker lets go of stops running, and no other job moves.
LEMMA ReleaseRefines ==
  ASSUME ExecInv, NEW w \in Workers, job[w] # NoJob,
         NEW f \in {"finished", "escaped", "abandoned"},
         Release(w, f), UNCHANGED <<queue, started, stopping>>
  PROVE  /\ job[w] \in Jobs
         /\ Pool!Move(job[w], "running",
                      IF f = "abandoned" THEN "abandoned" ELSE "finished")
<1>0. PICK j \in Jobs : j = job[w]
  BY BusyWorker
<1>1. fate[j] = "accepted" /\ j \notin Range(queue)
  BY <1>0, BusyWorker
<1>2. \A i \in Jobs : fate'[i] = IF i = j THEN f ELSE fate[i]
  BY <1>0 DEF ExecInv, TypeOK, Release
<1>3. StatusOf(j) = "running"
  BY <1>1 DEF StatusOf, Seen
<1>4. StatusOf(j)' = IF f = "abandoned" THEN "abandoned" ELSE "finished"
  BY <1>1, <1>2 DEF StatusOf, Seen
<1>5. ASSUME NEW i \in Jobs, i # j PROVE StatusOf(i)' = StatusOf(i)
  BY <1>2, <1>5 DEF StatusOf, Seen
<1> QED
  BY <1>0, <1>3, <1>4, <1>5, OneMoves

\* A cancelled worker abandons its job in a closed pool, or had none.
LEMMA CancelRefines ==
  ASSUME ExecInv, NEW w \in Workers, WorkerCancelled(w)
  PROVE  [Pool!Next]_Pool!poolVars
<1> USE DEF WorkerCancelled
<1>1. CASE job[w] = NoJob
  <2>1. \A i \in Jobs : StatusOf(i)' = StatusOf(i)
    BY <1>1 DEF StatusOf, Seen
  <2> QED
    BY <2>1 DEF Pool!poolVars
<1>2. CASE job[w] # NoJob
  <2>1. job[w] \in Jobs /\ Pool!Move(job[w], "running", "abandoned")
    BY <1>2, ReleaseRefines
  <2> QED
    BY <2>1 DEF Pool!Abandon, Pool!Next
<1> QED
  BY <1>1, <1>2

\* Every step of the executor is a step of the pool, or leaves it unchanged.
LEMMA StepRefines == ExecInv /\ [Next]_execVars => [Pool!Next]_Pool!poolVars
<1> SUFFICES ASSUME ExecInv, [Next]_execVars PROVE [Pool!Next]_Pool!poolVars
  OBVIOUS
<1>1. ASSUME Start \/ Stop \/ StopReturns \/ UNCHANGED execVars
      PROVE  \A i \in Jobs : StatusOf(i)' = StatusOf(i)
  BY <1>1 DEF Start, Stop, StopReturns, execVars, StatusOf, Seen
<1>2. CASE Start
  <2>1. Busy = {} /\ ~stopping
    BY <1>2 DEF Start, ExecInv, OnlyLiveWorkersHoldJobs
  <2>2. Pool!Running = {}
    BY <2>1, RunningIsHeld DEF Held
  <2>3. Pool!Open
    BY <1>1, <1>2, <2>1, <2>2 DEF Start, Pool!Open
  <2> QED
    BY <2>3 DEF Pool!Next
<1>3. CASE Stop
  <2>1. Pool!Close
    BY <1>1, <1>3 DEF Stop, Pool!Close
  <2> QED
    BY <2>1 DEF Pool!Next
<1>4. CASE StopReturns
  <2>1. (started /\ ~stopping)' = (started /\ ~stopping)
    BY <1>4 DEF StopReturns
  <2> QED
    BY <1>1, <1>4, <2>1 DEF Pool!poolVars
<1>5. ASSUME NEW j \in Jobs, Submit(j) PROVE Pool!Next
  BY <1>5, AcceptRefines, DropRefines DEF Submit, Pool!Next
<1>6. ASSUME NEW w \in Workers, WorkerStep(w) PROVE [Pool!Next]_Pool!poolVars
  <2>1. CASE Take(w)
    <3>1. Head(queue) \in Jobs
      BY <2>1, HeadTailProperties DEF Take, ExecInv, TypeOK
    <3> QED
      BY <2>1, <3>1, TakeRefines DEF Pool!Next
  <2>2. CASE JobEnds(w)
    <3>1. job[w] \in Jobs /\ Pool!Move(job[w], "running", "finished")
      BY <2>2, ReleaseRefines DEF JobEnds
    <3>2. started /\ ~stopping
      BY <2>2, LiveMeansOpen DEF JobEnds
    <3> QED
      BY <3>1, <3>2 DEF Pool!Finish, Pool!Next
  <2>3. CASE JobCancelsItself(w)
    <3>1. job[w] # NoJob
      BY <2>3, ExecutorAssumption DEF JobCancelsItself
    <3>2. job[w] \in Jobs /\ Pool!Move(job[w], "running", "finished")
      BY <2>3, <3>1, ReleaseRefines DEF JobCancelsItself
    <3>3. started /\ ~stopping
      BY <2>3, LiveMeansOpen DEF JobCancelsItself
    <3> QED
      BY <3>2, <3>3 DEF Pool!Finish, Pool!Next
  <2>4. CASE WorkerCancelled(w)
    BY <2>4, CancelRefines
  <2> QED
    BY <1>6, <2>1, <2>2, <2>3, <2>4 DEF WorkerStep
<1>7. CASE UNCHANGED execVars
  BY <1>1, <1>7 DEF execVars, Pool!poolVars
<1> QED
  BY <1>2, <1>3, <1>4, <1>5, <1>6, <1>7 DEF Next

-----------------------------------------------------------------------------

\* The executor is a best-effort pool: a job is refused only when the queue
\* is full, begins at most once and only in an open pool with room for it,
\* and is given up only by a pool that is closing.
THEOREM ExecutorRefinesPool == SafeSpec => Pool!SafePool
BY ExecutorInvariant, InitRefines, StepRefines, PTL DEF SafeSpec, Pool!SafePool
=============================================================================

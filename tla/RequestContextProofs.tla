------------------------ MODULE RequestContextProofs ------------------------
(***************************************************************************)
(* Theorems about RequestContext, for every set of requests and of client  *)
(* ids, queue size and number of workers.                                  *)
(***************************************************************************)
EXTENDS RequestContext, SequenceTheorems, TLAPS

ExecP == INSTANCE ShadowExecutorProofs WITH Jobs <- Requests, CancellableJobs <- {}

-----------------------------------------------------------------------------
\* The executor keeps the invariant proved of it alone.

LEMMA SameWorkers == Workers = ExecP!Workers
BY Zenon
   DEF Workers, Exec!Workers, ExecP!Workers, Exec!PoolSize, ExecP!PoolSize,
       Exec!AtLeastOne, ExecP!AtLeastOne

LEMMA SameInit == Exec!Init <=> ExecP!Init
BY Zenon
   DEF Exec!Init, ExecP!Init, Exec!Workers, ExecP!Workers, Exec!PoolSize, ExecP!PoolSize,
       Exec!AtLeastOne, ExecP!AtLeastOne

LEMMA SameTypeOK == Exec!TypeOK <=> ExecP!TypeOK
BY Zenon
   DEF Exec!TypeOK, ExecP!TypeOK, Exec!Workers, ExecP!Workers, Exec!Fates, ExecP!Fates,
       Exec!PoolSize, ExecP!PoolSize, Exec!AtLeastOne, ExecP!AtLeastOne

LEMMA SameNext == [Exec!Next]_execVars <=> [ExecP!Next]_ExecP!execVars
BY Zenon
   DEF execVars, ExecP!execVars, Exec!Next, ExecP!Next,
       Exec!Start, ExecP!Start, Exec!Stop, ExecP!Stop,
       Exec!StopReturns, ExecP!StopReturns, Exec!Submit, ExecP!Submit,
       Exec!Accept, ExecP!Accept, Exec!Drop, ExecP!Drop,
       Exec!QueueFull, ExecP!QueueFull, Exec!WorkerStep, ExecP!WorkerStep,
       Exec!Take, ExecP!Take, Exec!JobEnds, ExecP!JobEnds,
       Exec!JobCancelsItself, ExecP!JobCancelsItself,
       Exec!WorkerCancelled, ExecP!WorkerCancelled, Exec!Release, ExecP!Release,
       Exec!Workers, ExecP!Workers, Exec!Maxsize, ExecP!Maxsize,
       Exec!PoolSize, ExecP!PoolSize, Exec!AtLeastOne, ExecP!AtLeastOne

LEMMA OnlyExecutorSteps == [Next]_vars => [Exec!Next]_execVars
<1> SUFFICES ASSUME [Next]_vars PROVE [Exec!Next]_execVars
  OBVIOUS
<1>1. ASSUME NEW r \in Requests, RequestStep(r) PROVE [Exec!Next]_execVars
  BY <1>1 DEF RequestStep, Arrive, ArriveGarbled, Chat, Respond, RespondError, Leave, Raise,
              Exec!Next
<1>2. ASSUME NEW w \in Workers, WorkerStep(w) PROVE [Exec!Next]_execVars
  BY <1>2 DEF WorkerStep, TakeJob, RunEnds, RunCancelled, Exec!Next, Exec!WorkerStep, Workers
<1>3. CASE Lifespan \/ UNCHANGED vars
  BY <1>3 DEF Lifespan, vars, Exec!Next
<1> QED
  BY <1>1, <1>2, <1>3 DEF Next

ExecutorInv == ExecP!ExecInv

LEMMA ExecutorInvInit == Init => ExecutorInv
BY SameInit, ExecP!ExecInvInit, RequestContextAssumption
   DEF Init, ExecutorInv, ExecP!ExecutorAssumption

LEMMA ExecutorInvStep == ExecutorInv /\ [Next]_vars => ExecutorInv'
BY OnlyExecutorSteps, SameNext, ExecP!ExecInvStep, RequestContextAssumption
   DEF ExecutorInv, ExecP!ExecutorAssumption

LEMMA ExecutorTypes ==
  ASSUME ExecutorInv
  PROVE  /\ fate \in [Requests -> Exec!Fates]
         /\ job \in [Workers -> Requests \cup {NoJob}]
         /\ queue \in Seq(Requests)
BY SameWorkers DEF ExecutorInv, ExecP!ExecInv, ExecP!TypeOK, ExecP!Fates, Exec!Fates

LEMMA BusyWorkersJob ==
  ASSUME ExecutorInv, NEW w \in Workers, job[w] # NoJob
  PROVE  job[w] \in Requests /\ fate[job[w]] = "accepted"
BY ExecP!BusyWorker, RequestContextAssumption, SameWorkers
   DEF ExecutorInv, ExecP!ExecutorAssumption

\* The job a worker takes has been accepted.
LEMMA TakenJob ==
  ASSUME ExecutorInv, NEW w \in Workers, Exec!Take(w)
  PROVE  /\ Head(queue) \in Requests
         /\ fate[Head(queue)] = "accepted"
         /\ job[w] = NoJob
         /\ job' = [job EXCEPT ![w] = Head(queue)]
         /\ fate' = fate
<1>1. queue \in Seq(Requests) /\ queue # <<>>
  BY ExecutorTypes DEF Exec!Take
<1>2. Head(queue) \in Requests /\ Head(queue) \in ExecP!Range(queue)
  BY <1>1, ExecP!TailRange, RequestContextAssumption, HeadTailProperties
     DEF ExecP!ExecutorAssumption, ExecutorInv, ExecP!ExecInv, ExecP!ExactlyOnePlace,
         ExecP!NoDuplicateInQueue
<1>3. fate[Head(queue)] = "accepted"
  BY <1>2 DEF ExecutorInv, ExecP!ExecInv, ExecP!ExactlyOnePlace, ExecP!AcceptedIsSomewhere
<1> QED
  BY <1>2, <1>3, ExecutorTypes DEF Exec!Take

\* No step but a submission touches a job that has not been submitted, and
\* none makes a submitted job new.
LEMMA WorkersSubmitNothing ==
  ASSUME ExecutorInv, NEW w \in Workers, WorkerStep(w)
  PROVE  \A r \in Requests : fate'[r] = "new" <=> fate[r] = "new"
<1>1. CASE TakeJob(w)
  BY <1>1, TakenJob DEF TakeJob
<1>2. CASE RunEnds(w)
  <2>1. job[w] \in Requests /\ fate[job[w]] = "accepted"
    BY <1>2, BusyWorkersJob DEF RunEnds, Exec!JobEnds
  <2> QED
    BY <1>2, <2>1, ExecutorTypes DEF RunEnds, Exec!JobEnds, Exec!Release
<1>3. CASE RunCancelled(w)
  <2>1. job[w] # NoJob => job[w] \in Requests /\ fate[job[w]] = "accepted"
    BY BusyWorkersJob
  <2> QED
    BY <1>3, <2>1, ExecutorTypes DEF RunCancelled, Exec!WorkerCancelled, Exec!Release
<1> QED
  BY <1>1, <1>2, <1>3 DEF WorkerStep

-----------------------------------------------------------------------------
\* The inductive invariant.  A job binds the id of the context it was made in,
\* long after that context may be gone: what makes it the request's own is
\* that the request was bound when it was submitted and never binds again.

Types ==
    /\ at \in [Requests -> Served \cup {"new", "over"}]
    /\ {id, bound} \subseteq [Requests -> Ids]
    /\ {ctx, token} \subseteq [Requests \cup Workers -> Ids]
    /\ response \in [Requests -> [sent : BOOLEAN, header : Seq(Ids), body : Ids]]

RequestOK(r) ==
    /\ at[r] \in {"new", "inside"} => fate[r] = "new"
    /\ at[r] = "new" => response[r] = NoReply
    /\ fate[r] # "new" => bound[r] = id[r]
    /\ at[r] \in Served => ctx[r] = id[r]
    /\ at[r] = "over" => ctx[r] = token[r]
    /\ \A i \in 1 .. Len(response[r].header) : response[r].header[i] = id[r]
    /\ response[r].body \in {NoId, id[r]}

WorkerOK(w) ==
    /\ job[w] = NoJob => ctx[w] = NoId
    /\ job[w] # NoJob => ctx[w] = id[job[w]] /\ token[w] = NoId

ContextInv ==
    /\ ExecutorInv
    /\ Types
    /\ \A r \in Requests : RequestOK(r)
    /\ \A w \in Workers : WorkerOK(w)

\* Tasks of requests and tasks of workers are different tasks.
LEMMA TasksDiffer == \A r \in Requests : r \notin Workers
BY RequestContextAssumption DEF Workers, Exec!Workers, Exec!PoolSize, Exec!AtLeastOne

LEMMA ContextInvInit == Init => ContextInv
<1> SUFFICES ASSUME Init PROVE ContextInv
  OBVIOUS
<1>1. Types
  BY EmptySeq DEF Init, Types, Ids, Served, NoReply
<1>2. \A r \in Requests : RequestOK(r)
  BY DEF Init, Exec!Init, RequestOK, NoReply, Served
<1>3. \A w \in Workers : WorkerOK(w)
  BY DEF Init, Exec!Init, WorkerOK, Workers
<1> QED
  BY <1>1, <1>2, <1>3, ExecutorInvInit DEF ContextInv

LEMMA TypesStep == ContextInv /\ [Next]_vars => Types'
<1> SUFFICES ASSUME ContextInv, [Next]_vars PROVE Types'
  OBVIOUS
<1> USE DEF ContextInv, Types
<1>1. ASSUME NEW r \in Requests, Arrive(r) PROVE Types'
  <2>1. PICK incoming \in ClientIds \cup {NoId}, inherited \in Inherited :
          LET own == IF incoming # NoId THEN incoming ELSE r
          IN  /\ id' = [id EXCEPT ![r] = own]
              /\ token' = [token EXCEPT ![r] = inherited]
              /\ ctx' = [ctx EXCEPT ![r] = own]
    BY <1>1 DEF Arrive
  <2>2. inherited \in Ids
    BY DEF Inherited, Ids
  <2>3. (IF incoming # NoId THEN incoming ELSE r) \in Ids
    BY DEF Ids
  <2> QED
    BY <1>1, <2>1, <2>2, <2>3 DEF Arrive, Served
<1>2. ASSUME NEW r \in Requests, ArriveGarbled(r) PROVE Types'
  <2>1. Inherited \subseteq Ids /\ NoId \in Ids
    BY DEF Inherited, Ids
  <2>2. Reply(<<>>, NoId) \in [sent : BOOLEAN, header : Seq(Ids), body : Ids]
    BY <2>1, EmptySeq DEF Reply
  <2> QED
    BY <1>2, <2>1, <2>2 DEF ArriveGarbled
<1>3. ASSUME NEW r \in Requests, Chat(r) PROVE Types'
  BY <1>3 DEF Chat, Served
<1>4. ASSUME NEW r \in Requests, Respond(r) \/ RespondError(r) PROVE Types'
  <2>1. id[r] \in Ids /\ ctx[r] \in Ids /\ NoId \in Ids
    BY DEF Ids
  <2>2. <<id[r]>> \in Seq(Ids) /\ <<ctx[r], id[r]>> \in Seq(Ids)
    BY <2>1
  <2>3. {Reply(<<id[r]>>, NoId), Reply(<<ctx[r], id[r]>>, ctx[r])}
          \subseteq [sent : BOOLEAN, header : Seq(Ids), body : Ids]
    BY <2>1, <2>2 DEF Reply
  <2>4. response' \in [Requests -> [sent : BOOLEAN, header : Seq(Ids), body : Ids]]
    BY <1>4, <2>3 DEF Respond, RespondError
  <2>5. at' \in [Requests -> Served \cup {"new", "over"}] /\ UNCHANGED <<id, bound, ctx, token>>
    BY <1>4 DEF Respond, RespondError, Served
  <2> QED
    BY <2>4, <2>5
<1>5. ASSUME NEW r \in Requests, Leave(r) \/ Raise(r) PROVE Types'
  <2>1. Reply(<<>>, NoId) \in [sent : BOOLEAN, header : Seq(Ids), body : Ids]
    BY EmptySeq DEF Reply, Ids
  <2>2. ctx' \in [Requests \cup Workers -> Ids] /\ token' = token
    BY <1>5 DEF Leave, Raise, Unbind
  <2>3. response' \in [Requests -> [sent : BOOLEAN, header : Seq(Ids), body : Ids]]
    BY <1>5, <2>1 DEF Leave, Raise
  <2>4. at' \in [Requests -> Served \cup {"new", "over"}] /\ UNCHANGED <<id, bound>>
    BY <1>5 DEF Leave, Raise
  <2> QED
    BY <2>2, <2>3, <2>4
<1>6. ASSUME NEW w \in Workers, WorkerStep(w) PROVE Types'
  <2>1. UNCHANGED requestVars
    BY <1>6 DEF WorkerStep, TakeJob, RunEnds, RunCancelled
  <2>2. {ctx, token}' \subseteq [Requests \cup Workers -> Ids]
    <3>1. CASE TakeJob(w)
      BY <3>1, TakenJob DEF TakeJob, Bind
    <3>2. CASE RunEnds(w) \/ RunCancelled(w)
      BY <3>2 DEF RunEnds, RunCancelled, Unbind
    <3> QED
      BY <1>6, <3>1, <3>2 DEF WorkerStep
  <2> QED
    BY <2>1, <2>2 DEF requestVars
<1>7. CASE Lifespan \/ UNCHANGED vars
  BY <1>7 DEF Lifespan, requestVars, vars
<1> QED
  BY <1>1, <1>2, <1>3, <1>4, <1>5, <1>6, <1>7 DEF Next, RequestStep

\* A step of r's task, for r itself.
LEMMA RequestKeepsOwn ==
  ASSUME ContextInv, NEW r \in Requests, RequestStep(r)
  PROVE  RequestOK(r)'
<1> USE DEF ContextInv, Types, RequestOK
<1>0. RequestOK(r) /\ fate \in [Requests -> Exec!Fates]
  BY ExecutorTypes
<1>1. CASE Arrive(r)
  <2>1. /\ at'[r] = "inside" /\ ctx'[r] = id'[r]
        /\ at[r] = "new" /\ fate' = fate /\ response' = response
    BY <1>1 DEF Arrive, execVars
  <2> QED
    BY <1>0, <2>1 DEF NoReply, Served
<1>2. CASE ArriveGarbled(r)
  <2>1. /\ at'[r] = "over" /\ ctx'[r] = token'[r] /\ fate'[r] = "new"
        /\ response'[r] = Reply(<<>>, NoId)
    BY <1>0, <1>2 DEF ArriveGarbled, execVars
  <2> QED
    BY <2>1 DEF Reply, Served
<1>3. CASE Chat(r)
  <2>1. /\ at'[r] = "calling" /\ bound'[r] = id[r] /\ ctx'[r] = id[r] /\ id' = id
        /\ response' = response
    BY <1>0, <1>3 DEF Chat, Served
  <2> QED
    BY <1>0, <2>1 DEF Served
<1>4. CASE Respond(r) \/ RespondError(r)
  <2>1. /\ at'[r] = "responded" /\ ctx'[r] = id[r] /\ UNCHANGED <<id, bound, fate>>
        /\ response'[r] \in {Reply(<<id[r]>>, NoId), Reply(<<id[r], id[r]>>, id[r])}
    BY <1>0, <1>4 DEF Respond, RespondError, Served, execVars
  <2>2. /\ \A i \in 1 .. Len(response'[r].header) : response'[r].header[i] = id[r]
        /\ response'[r].body \in {NoId, id[r]}
    BY <2>1 DEF Reply
  <2> QED
    BY <1>0, <2>1, <2>2 DEF Served
<1>5. CASE Leave(r) \/ Raise(r)
  <2>1. /\ at'[r] = "over" /\ ctx'[r] = token'[r] /\ UNCHANGED <<id, bound, fate>>
        /\ response'[r] \in {response[r], Reply(<<>>, NoId)}
    BY <1>0, <1>5 DEF Leave, Raise, Unbind, execVars
  <2> QED
    BY <1>0, <2>1 DEF Reply, Served
<1> QED
  BY <1>1, <1>2, <1>3, <1>4, <1>5 DEF RequestStep

\* The same step, for everybody else.
LEMMA RequestLeavesOthers ==
  ASSUME ContextInv, NEW r \in Requests, RequestStep(r)
  PROVE  /\ \A q \in Requests \ {r} : RequestOK(q)'
         /\ \A w \in Workers : WorkerOK(w)'
<1> USE DEF ContextInv, Types
<1>1. ASSUME NEW t \in Requests \cup Workers, t # r
      PROVE  ctx'[t] = ctx[t] /\ token'[t] = token[t]
  BY <1>1 DEF RequestStep, Arrive, ArriveGarbled, Chat, Respond, RespondError, Leave, Raise,
              Unbind
<1>2. ASSUME NEW q \in Requests \ {r}
      PROVE  /\ at'[q] = at[q] /\ id'[q] = id[q] /\ bound'[q] = bound[q]
             /\ response'[q] = response[q]
  BY DEF RequestStep, Arrive, ArriveGarbled, Chat, Respond, RespondError, Leave, Raise
<1>3. job' = job /\ \A q \in Requests \ {r} : fate'[q] = fate[q]
  BY ExecutorTypes
     DEF RequestStep, Arrive, ArriveGarbled, Chat, Respond, RespondError, Leave, Raise,
         execVars, Exec!Submit, Exec!Accept, Exec!Drop
<1>4. ASSUME NEW q \in Requests \ {r} PROVE RequestOK(q)'
  <2>1. ctx'[q] = ctx[q] /\ token'[q] = token[q] /\ fate'[q] = fate[q]
    BY <1>1, <1>3
  <2>2. RequestOK(q)
    OBVIOUS
  <2> HIDE DEF ContextInv, Types
  <2> QED
    BY <1>2, <2>1, <2>2 DEF RequestOK
<1>5. ASSUME NEW w \in Workers PROVE WorkerOK(w)'
  <2>1. job[w] # NoJob => job[w] \in Requests /\ id'[job[w]] = id[job[w]]
    <3> SUFFICES ASSUME job[w] # NoJob
                 PROVE  job[w] \in Requests /\ id'[job[w]] = id[job[w]]
      OBVIOUS
    <3>1. job[w] \in Requests /\ fate[job[w]] = "accepted"
      BY BusyWorkersJob
    <3>2. id' = id \/ (at[r] = "new" /\ job[w] # r)
      BY <3>1 DEF RequestOK, RequestStep, Arrive, ArriveGarbled, Chat, Respond, RespondError,
                  Leave, Raise
    <3> QED
      BY <1>2, <3>1, <3>2
  <2>2. w # r
    BY TasksDiffer
  <2> QED
    BY <1>1, <1>3, <2>1, <2>2 DEF WorkerOK
<1> QED
  BY <1>4, <1>5

\* A step of a worker.
LEMMA WorkerKeeps ==
  ASSUME ContextInv, NEW w \in Workers, WorkerStep(w)
  PROVE  (\A r \in Requests : RequestOK(r)') /\ (\A v \in Workers : WorkerOK(v)')
<1> USE DEF ContextInv, Types
<1>1. ASSUME NEW t \in Requests \cup Workers, t # w
      PROVE  ctx'[t] = ctx[t] /\ token'[t] = token[t]
  BY <1>1 DEF WorkerStep, TakeJob, RunEnds, RunCancelled, Bind, Unbind
<1>2. UNCHANGED <<at, id, bound, response>>
  BY DEF WorkerStep, TakeJob, RunEnds, RunCancelled, requestVars
<1>3. ASSUME NEW r \in Requests PROVE RequestOK(r)'
  <2>1. r # w /\ (fate'[r] = "new" <=> fate[r] = "new")
    BY TasksDiffer, WorkersSubmitNothing
  <2> QED
    BY <1>1, <1>2, <2>1 DEF RequestOK
<1>4. ASSUME NEW v \in Workers, v # w PROVE WorkerOK(v)'
  <2>1. job'[v] = job[v]
    BY <1>4, ExecutorTypes, TakenJob
       DEF WorkerStep, TakeJob, RunEnds, RunCancelled, Exec!JobEnds, Exec!WorkerCancelled,
           Exec!Release
  <2> QED
    BY <1>1, <1>2, <1>4, <2>1 DEF WorkerOK
<1>5. WorkerOK(w)'
  <2>1. CASE TakeJob(w)
    <3>1. /\ Head(queue) \in Requests /\ fate[Head(queue)] = "accepted" /\ job[w] = NoJob
          /\ job'[w] = Head(queue)
      BY <2>1, TakenJob, ExecutorTypes DEF TakeJob
    <3>2. ctx'[w] = id[Head(queue)] /\ token'[w] = NoId
      BY <2>1, <3>1 DEF TakeJob, Bind, RequestOK, WorkerOK
    <3>3. Head(queue) # NoJob
      BY <3>1, RequestContextAssumption
    <3> QED
      BY <1>2, <3>1, <3>2, <3>3 DEF WorkerOK
  <2>2. CASE RunEnds(w)
    <3>1. job[w] # NoJob /\ job'[w] = NoJob /\ ctx'[w] = token[w]
      BY <2>2, ExecutorTypes DEF RunEnds, Exec!JobEnds, Exec!Release, Unbind
    <3> QED
      BY <3>1 DEF WorkerOK
  <2>3. CASE RunCancelled(w)
    <3>1. CASE job[w] # NoJob
      <4>1. job'[w] = NoJob /\ ctx'[w] = token[w]
        BY <2>3, <3>1, ExecutorTypes DEF RunCancelled, Exec!WorkerCancelled, Exec!Release,
                                         Unbind
      <4> QED
        BY <3>1, <4>1 DEF WorkerOK
    <3>2. CASE job[w] = NoJob
      <4>1. job'[w] = NoJob /\ ctx' = ctx
        BY <2>3, <3>2, ExecutorTypes DEF RunCancelled, Exec!WorkerCancelled
      <4> QED
        BY <3>2, <4>1 DEF WorkerOK
    <3> QED
      BY <3>1, <3>2
  <2> QED
    BY <2>1, <2>2, <2>3 DEF WorkerStep
<1> QED
  BY <1>3, <1>4, <1>5

LEMMA ContextInvStep == ContextInv /\ [Next]_vars => ContextInv'
<1> SUFFICES ASSUME ContextInv, [Next]_vars PROVE ContextInv'
  OBVIOUS
<1>1. ExecutorInv' /\ Types'
  BY ExecutorInvStep, TypesStep DEF ContextInv
<1>2. ASSUME NEW r \in Requests, RequestStep(r) PROVE ContextInv'
  <2>1. RequestOK(r)'
    BY <1>2, RequestKeepsOwn
  <2>2. (\A q \in Requests \ {r} : RequestOK(q)') /\ (\A w \in Workers : WorkerOK(w)')
    BY <1>2, RequestLeavesOthers
  <2> QED
    BY <1>1, <2>1, <2>2 DEF ContextInv
<1>3. ASSUME NEW w \in Workers, WorkerStep(w) PROVE ContextInv'
  BY <1>1, <1>3, WorkerKeeps DEF ContextInv
<1>4. CASE Lifespan \/ UNCHANGED vars
  <2>1. UNCHANGED <<at, id, bound, response, ctx, token, job, fate>>
    BY <1>4 DEF Lifespan, Exec!Start, Exec!Stop, Exec!StopReturns, requestVars, execVars, vars
  <2> QED
    BY <1>1, <2>1 DEF ContextInv, RequestOK, WorkerOK
<1> QED
  BY <1>2, <1>3, <1>4 DEF Next

THEOREM ContextInvariant == Spec => []ContextInv
BY ContextInvInit, ContextInvStep, PTL DEF Spec

-----------------------------------------------------------------------------
\* The theorems.

\* Every variable keeps its type.
THEOREM ContextTypeOK == Spec => []TypeOK
<1>1. ContextInv => TypeOK
  BY SameTypeOK DEF ContextInv, Types, TypeOK, ExecutorInv, ExecP!ExecInv
<1> QED
  BY <1>1, ContextInvariant, PTL

\* Whatever is logged for a request, in its own task or in a worker's, names
\* that request.
THEOREM LogsNameTheirRequest == Spec => []LogsAreCorrelated
<1>1. ContextInv => LogsAreCorrelated
  BY DEF ContextInv, RequestOK, WorkerOK, LogsAreCorrelated
<1> QED
  BY <1>1, ContextInvariant, PTL

\* No response names another request than its own.
THEOREM ResponsesNameTheirRequest == Spec => []ResponsesAreCorrelated
<1>1. ContextInv => ResponsesAreCorrelated
  BY DEF ContextInv, RequestOK, ResponsesAreCorrelated
<1> QED
  BY <1>1, ContextInvariant, PTL

\* No request leaves its id behind.
THEOREM RequestsRestoreTheContext == Spec => []ContextIsRestored
<1>1. ContextInv => ContextIsRestored
  BY DEF ContextInv, RequestOK, ContextIsRestored
<1> QED
  BY <1>1, ContextInvariant, PTL

-----------------------------------------------------------------------------
\* The ids travel with the jobs of the same executor: handlers and workers do
\* to it what it was specified for, and nothing else.
THEOREM ContextRefinesExecutor == Spec => ExecP!SafeSpec
<1>1. Init => ExecP!Init
  BY SameInit DEF Init
<1>2. [Next]_vars => [ExecP!Next]_ExecP!execVars
  BY OnlyExecutorSteps, SameNext
<1> QED
  BY <1>1, <1>2, PTL DEF Spec, ExecP!SafeSpec

\* What a request was bound under is settled before its job can be taken: from
\* the submission on neither its id nor the id its job closed over changes.
THEOREM IdsAreSettledBySubmission ==
  Spec => [][\A r \in Requests :
               fate[r] # "new" => id'[r] = id[r] /\ bound'[r] = bound[r]]_vars
<1>1. ContextInv /\ [Next]_vars
        => [\A r \in Requests :
              fate[r] # "new" => id'[r] = id[r] /\ bound'[r] = bound[r]]_vars
  <2> SUFFICES ASSUME ContextInv, [Next]_vars, NEW r \in Requests, fate[r] # "new"
               PROVE  id'[r] = id[r] /\ bound'[r] = bound[r]
    OBVIOUS
  <2>1. at[r] \notin {"new", "inside"}
    BY DEF ContextInv, RequestOK
  <2>2. ASSUME NEW q \in Requests, RequestStep(q)
        PROVE  id'[r] = id[r] /\ bound'[r] = bound[r]
    BY <2>1, <2>2
       DEF RequestStep, Arrive, ArriveGarbled, Chat, Respond, RespondError, Leave, Raise,
           ContextInv, Types
  <2>3. ASSUME (\E w \in Workers : WorkerStep(w)) \/ Lifespan \/ UNCHANGED vars
        PROVE  id' = id /\ bound' = bound
    BY <2>3 DEF WorkerStep, TakeJob, RunEnds, RunCancelled, Lifespan, requestVars, vars
  <2> QED
    BY <2>2, <2>3 DEF Next
<1> QED
  BY <1>1, ContextInvariant, PTL DEF Spec
=============================================================================

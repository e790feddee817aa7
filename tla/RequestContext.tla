---------------------------- MODULE RequestContext ----------------------------
(***************************************************************************)
(* The request id on its way through the service: the middleware that      *)
(* binds it and echoes it (app/utils/logging_middleware.py), the handler   *)
(* that hands it to a shadow job, the worker that binds it again           *)
(* (app/services/shadow_pipeline.py), and the error handlers around them.  *)
(*                                                                         *)
(* ctx is request_id_ctx in the context of each task: of the one that      *)
(* serves a request and of each worker.  Every log record carries the ctx  *)
(* of the task that writes it (RequestIdFilter, which overrides a          *)
(* request_id among the caller's extras).                                  *)
(*                                                                         *)
(* The middlewares, from outside: the server's own error handler, the      *)
(* request context, the exception handlers, the router.                    *)
(***************************************************************************)
EXTENDS Naturals, Sequences, FiniteSets

CONSTANTS
    Requests,     \* the requests; each makes one job at most
    NoJob,        \* what a worker without a job holds
    QueueSize, NumWorkers,
    ClientIds,    \* the ids that clients may send
    NoId          \* "-"

ASSUME RequestContextAssumption ==
    /\ QueueSize \in Nat
    /\ NumWorkers \in Nat
    /\ NoJob \notin Requests
    /\ NoId \notin Requests \cup ClientIds
    /\ Requests \cap Nat = {}

VARIABLES
    queue, unfinished, alive, job, started, stopping, fate,  \* the executor's
    at,        \* where each request is
    id,        \* request_id of the middleware's call
    ctx,       \* request_id_ctx of each task
    token,     \* what the last set() of each task's ctx found there
    bound,     \* request_id of the handler, which its job closes over
    response   \* has it started, the ids in its header, the id in its body

execVars == <<queue, unfinished, alive, job, started, stopping, fate>>
requestVars == <<at, id, bound, response>>
vars == <<execVars, requestVars, ctx, token>>

Exec == INSTANCE ShadowExecutor WITH Jobs <- Requests, CancellableJobs <- {}

Workers == Exec!Workers

\* A generated id is as unique as its request, which stands for it.
Ids == Requests \cup ClientIds \cup {NoId}

Served == {"inside", "calling", "responded"}

NoReply == [sent |-> FALSE, header |-> <<>>, body |-> NoId]
Reply(header, body) == [sent |-> TRUE, header |-> header, body |-> body]

Init ==
    /\ Exec!Init
    /\ at = [r \in Requests |-> "new"]
    /\ id = [r \in Requests |-> NoId]
    /\ ctx = [t \in Requests \cup Workers |-> NoId]
    /\ token = [t \in Requests \cup Workers |-> NoId]
    /\ bound = [r \in Requests |-> NoId]
    /\ response = [r \in Requests |-> NoReply]

\* ctx.set() in task t
Bind(t, value) ==
    /\ token' = [token EXCEPT ![t] = ctx[t]]
    /\ ctx' = [ctx EXCEPT ![t] = value]

\* ctx.reset(token) in task t
Unbind(t) == ctx' = [ctx EXCEPT ![t] = token[t]] /\ UNCHANGED token

-----------------------------------------------------------------------------
\* A request.  The server creates its task; with pipelined requests it does
\* so while it sends the answer of another, and the task inherits that one's
\* context.

Inherited == {NoId} \cup {ctx[q] : q \in {p \in Requests : at[p] = "responded"}}

\* (Variant: an id that is already bound is kept.)
Arrive_KeepsInherited(r) ==
    /\ at[r] = "new"
    /\ \E incoming \in ClientIds \cup {NoId}, inherited \in Inherited :
        LET own == IF incoming # NoId THEN incoming ELSE r
        IN  /\ id' = [id EXCEPT ![r] = own]
            /\ token' = [token EXCEPT ![r] = inherited]
            /\ ctx' = [ctx EXCEPT ![r] = IF inherited = NoId THEN own ELSE inherited]
    /\ at' = [at EXCEPT ![r] = "inside"]
    /\ UNCHANGED <<execVars, bound, response>>

\* The middleware takes the id of the header or generates one, and binds it.
Arrive(r) ==
    /\ at[r] = "new"
    /\ \E incoming \in ClientIds \cup {NoId}, inherited \in Inherited :
        LET own == IF incoming # NoId THEN incoming ELSE r
        IN  /\ id' = [id EXCEPT ![r] = own]
            /\ token' = [token EXCEPT ![r] = inherited]
            /\ ctx' = [ctx EXCEPT ![r] = own]
    /\ at' = [at EXCEPT ![r] = "inside"]
    /\ UNCHANGED <<execVars, bound, response>>

\* The header cannot be decoded: the middleware raises before it binds an id,
\* and the server's error handler answers.
ArriveGarbled(r) ==
    /\ at[r] = "new"
    /\ at' = [at EXCEPT ![r] = "over"]
    /\ response' = [response EXCEPT ![r] = Reply(<<>>, NoId)]
    /\ \E inherited \in Inherited :
        /\ ctx' = [ctx EXCEPT ![r] = inherited]
        /\ token' = [token EXCEPT ![r] = inherited]
    /\ UNCHANGED <<execVars, id, bound>>

\* The chat handler up to its call of the primary, mirrored or not.
Chat(r) ==
    /\ at[r] = "inside"
    /\ at' = [at EXCEPT ![r] = "calling"]
    /\ bound' = [bound EXCEPT ![r] = ctx[r]]
    /\ Exec!Submit(r) \/ UNCHANGED execVars
    /\ UNCHANGED <<id, response, ctx, token>>

\* A response goes out through the middleware's send_wrapper, which adds the
\* header: the handler's, another route's, or that of an HTTP exception.
Respond(r) ==
    /\ at[r] \in {"inside", "calling"}
    /\ at' = [at EXCEPT ![r] = "responded"]
    /\ response' = [response EXCEPT ![r] = Reply(<<id[r]>>, NoId)]
    /\ UNCHANGED <<execVars, id, bound, ctx, token>>

\* A PrimaryLLMError: its handler reads ctx for the envelope and for a header
\* of its own, and the middleware adds one more.
RespondError(r) ==
    /\ at[r] = "calling"
    /\ at' = [at EXCEPT ![r] = "responded"]
    /\ response' = [response EXCEPT ![r] = Reply(<<ctx[r], id[r]>>, ctx[r])]
    /\ UNCHANGED <<execVars, id, bound, ctx, token>>

\* The application returns: the middleware's finally clause.
Leave(r) ==
    /\ at[r] = "responded"
    /\ at' = [at EXCEPT ![r] = "over"]
    /\ Unbind(r)
    /\ UNCHANGED <<execVars, id, bound, response>>

\* (Variant: the context is reset after the try statement.)
Raise_NoFinally(r) ==
    /\ at[r] \in Served
    /\ at' = [at EXCEPT ![r] = "over"]
    /\ UNCHANGED <<execVars, id, bound, response, ctx, token>>

\* Any other exception, or the cancellation of the task: the finally clause,
\* and then, for an exception before the response, the server's error handler.
Raise(r) ==
    /\ at[r] \in Served
    /\ at' = [at EXCEPT ![r] = "over"]
    /\ \/ UNCHANGED response
       \/ /\ ~response[r].sent
          /\ response' = [response EXCEPT ![r] = Reply(<<>>, NoId)]
    /\ Unbind(r)
    /\ UNCHANGED <<execVars, id, bound>>

-----------------------------------------------------------------------------
\* The workers, which the lifespan creates outside any request.

Lifespan ==
    /\ Exec!Start \/ Exec!Stop \/ Exec!StopReturns
    /\ UNCHANGED <<requestVars, ctx, token>>

\* (Variant: the job reads the id when it runs.)
TakeJob_ReadsContext(w) ==
    /\ Exec!Take(w)
    /\ Bind(w, ctx[w])
    /\ UNCHANGED requestVars

\* The worker takes a job, and run() binds the id it was given.
TakeJob(w) ==
    /\ Exec!Take(w)
    /\ Bind(w, bound[Head(queue)])
    /\ UNCHANGED requestVars

\* (Variant: only a run that returns resets the context.)
RunCancelled_NoFinally(w) ==
    /\ Exec!WorkerCancelled(w)
    /\ UNCHANGED <<requestVars, ctx, token>>

\* run() returns, its finally clause included.
RunEnds(w) ==
    /\ Exec!JobEnds(w)
    /\ Unbind(w)
    /\ UNCHANGED requestVars

\* The worker is cancelled, inside a run or without one.
RunCancelled(w) ==
    /\ Exec!WorkerCancelled(w)
    /\ IF job[w] # NoJob THEN Unbind(w) ELSE UNCHANGED <<ctx, token>>
    /\ UNCHANGED requestVars

-----------------------------------------------------------------------------

RequestStep(r) ==
    \/ Arrive(r)
    \/ ArriveGarbled(r)
    \/ Chat(r)
    \/ Respond(r)
    \/ RespondError(r)
    \/ Leave(r)
    \/ Raise(r)

WorkerStep(w) == TakeJob(w) \/ RunEnds(w) \/ RunCancelled(w)

Next ==
    \/ \E r \in Requests : RequestStep(r)
    \/ \E w \in Workers : WorkerStep(w)
    \/ Lifespan

Spec == Init /\ [][Next]_vars

-----------------------------------------------------------------------------
\* The properties.

\* Every variable has its type.
TypeOK ==
    /\ Exec!TypeOK
    /\ at \in [Requests -> Served \cup {"new", "over"}]
    /\ {id, bound} \subseteq [Requests -> Ids]
    /\ {ctx, token} \subseteq [Requests \cup Workers -> Ids]
    /\ response \in [Requests -> [sent : BOOLEAN, header : Seq(Ids), body : Ids]]

\* Every log record is of the request it names: a task that works for a
\* request, be it the request's own or a worker's long after the request is
\* over, has that request's id in its context, and a worker with nothing to
\* do has none, whatever the task inherited and however the last run ended.
LogsAreCorrelated ==
    /\ \A r \in Requests : at[r] \in Served => ctx[r] = id[r]
    /\ \A w \in Workers :
          ctx[w] = IF job[w] = NoJob THEN NoId ELSE id[job[w]]

\* No response carries the id of another request, in its header or in the
\* error envelope, also when the ids of two requests overlap in one task.
ResponsesAreCorrelated ==
    \A r \in Requests :
        /\ \A i \in 1 .. Len(response[r].header) : response[r].header[i] = id[r]
        /\ response[r].body \in {NoId, id[r]}

\* A request leaves its task's context as it found it, on every way out; what
\* the server logs or starts next in that task is not taken for the request's.
ContextIsRestored ==
    \A r \in Requests : at[r] = "over" => ctx[r] = token[r]

-----------------------------------------------------------------------------
\* What the documentation says and the code does not do.

\* chat.py leaves the header to the middleware "to avoid a duplicated header".
HeaderIsNotDuplicated == \A r \in Requests : Len(response[r].header) <= 1
=============================================================================

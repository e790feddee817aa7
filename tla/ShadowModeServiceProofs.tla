----------------------- MODULE ShadowModeServiceProofs -----------------------
(***************************************************************************)
(* Theorems about what ShadowMode counts and keeps and what its clients    *)
(* see, for every set of requests, queue size, number of workers, set of   *)
(* bodies and set of settings: the metrics add up, and then the types, the *)
(* traces, the jobs for a running pool, and the proxy.                     *)
(***************************************************************************)
EXTENDS ShadowModeProofs

-----------------------------------------------------------------------------
\* Facts about the operators.

LEMMA OneMore ==
  ASSUME NEW A, IsFiniteSet(A), NEW x, x \notin A
  PROVE  /\ Cardinality(A) \in Nat
         /\ Cardinality(A \cup {x}) = Cardinality(A) + 1
BY FS_AddElement, FS_CardinalityType

LEMMA AtMostOneMore ==
  ASSUME NEW A, IsFiniteSet(A), NEW x
  PROVE  /\ IsFiniteSet(A \cup {x})
         /\ Cardinality(A \cup {x}) \in Nat
         /\ Cardinality(A \cup {x}) <= Cardinality(A) + 1
<1>1. Cardinality(A) \in Nat
  BY FS_CardinalityType
<1>2. /\ IsFiniteSet(A \cup {x})
      /\ Cardinality(A \cup {x}) = IF x \in A THEN Cardinality(A) ELSE Cardinality(A) + 1
  BY FS_AddElement
<1> QED
  BY <1>1, <1>2

\* A sum of four numbers, each of them increased.
LEMMA FourIncreased ==
  ASSUME NEW a \in Nat, NEW b \in Nat, NEW c \in Nat, NEW d \in Nat,
         NEW i \in {0, 1}, NEW j \in {0, 1}, NEW k \in {0, 1}, NEW l \in {0, 1}
  PROVE  (a + i) + (b + j) + (c + k) + (d + l) = (a + b + c + d) + (i + j + k + l)
OBVIOUS

LEMMA OneLess ==
  ASSUME NEW A, IsFiniteSet(A), NEW x \in A
  PROVE  /\ Cardinality(A) \in Nat
         /\ Cardinality(A \ {x}) = Cardinality(A) - 1
BY FS_RemoveElement, FS_CardinalityType

\* A match is a match of two valid responses.
LEMMA MatchesAreValid ==
  ASSUME NEW p, NEW c, Evaluate(p, c).exact_match
  PROVE  Evaluate(p, c).json_valid
BY DEF Evaluate, Result

CountersOK == metrics \in [Counters -> Nat]

\* What an increment does to each counter.
LEMMA CountedValue ==
  ASSUME CountersOK, NEW ks, metrics' = Counted(ks)
  PROVE  /\ CountersOK'
         /\ \A k \in Counters : metrics'[k] = metrics[k] + (IF k \in ks THEN 1 ELSE 0)
BY DEF CountersOK, Counted

\* Every step counts something or leaves the counters alone.
LEMMA CountersStep == CountersOK /\ [Next]_vars => CountersOK'
<1> SUFFICES ASSUME CountersOK, [Next]_vars PROVE CountersOK'
  OBVIOUS
<1>1. ASSUME NEW r \in Requests, RequestStep(r) PROVE CountersOK'
  <2>1. metrics' = metrics \/ \E ks : metrics' = Counted(ks)
    BY <1>1 DEF RequestStep, ClientSends, Reject, Handle, PrimaryStep, PrimaryReturns,
                PrimaryFails, PrimaryRaises
  <2> QED
    BY <2>1, CountedValue DEF CountersOK
<1>2. ASSUME NEW w \in Workers, WorkerStep(w) PROVE CountersOK'
  <2>1. metrics' = metrics \/ \E ks : metrics' = Counted(ks)
    BY <1>2 DEF WorkerStep, TakeJob, RunStep, SkipCandidate, CandidateTimesOut,
                CandidateFails, CandidateEnds, CandidateReturns, PrimaryArrives, TraceEnds,
                Conclude, WorkerCancelled
  <2> QED
    BY <2>1, CountedValue DEF CountersOK
<1>3. CASE LifespanStep \/ (\E p \in Percentages : PutConfig(p)) \/ UNCHANGED vars
  BY <1>3 DEF LifespanStep, Startup, Shutdown, StopReturns, CloseDb, CloseClient, Close,
              PutConfig, vars, CountersOK
<1> QED
  BY <1>1, <1>2, <1>3 DEF Next

-----------------------------------------------------------------------------
\* The requests that were ever sent are finitely many, in every state.

Sent == {r \in Requests : handler[r] # "idle"}
Mirrored == {r \in Requests : future[r] # "none"}

LEMMA SentStep == FutureInv /\ IsFiniteSet(Sent) /\ [Next]_vars => IsFiniteSet(Sent')
<1> SUFFICES ASSUME FutureInv, IsFiniteSet(Sent), [Next]_vars PROVE IsFiniteSet(Sent')
  OBVIOUS
<1>1. ASSUME NEW r \in Requests, RequestStep(r) PROVE IsFiniteSet(Sent')
  <2>1. \E h : handler' = [handler EXCEPT ![r] = h]
    BY <1>1 DEF RequestStep, ClientSends, Reject, Handle, PrimaryStep, PrimaryReturns,
                PrimaryFails, PrimaryRaises
  <2>2. Sent' \subseteq Sent \cup {r}
    BY <2>1 DEF Sent, FutureInv
  <2>3. IsFiniteSet(Sent \cup {r})
    BY FS_AddElement
  <2> QED
    BY <2>2, <2>3, FS_Subset
<1>2. ASSUME NEW w \in Workers, WorkerStep(w) PROVE IsFiniteSet(Sent')
  BY <1>2, WorkersLeaveLifespan DEF Sent
<1>3. CASE LifespanStep \/ (\E p \in Percentages : PutConfig(p)) \/ UNCHANGED vars
  BY <1>3 DEF LifespanStep, Startup, Shutdown, StopReturns, CloseDb, CloseClient, Close,
              PutConfig, vars, requestVars, Sent
<1> QED
  BY <1>1, <1>2, <1>3 DEF Next

\* So are the requests whose handlers have got anywhere, the mirrored ones and
\* the runs.
LEMMA Finite ==
  ASSUME Placed, IsFiniteSet(Sent)
  PROVE  /\ \A S \in SUBSET (HandlerStates \ {"idle"}) : IsFiniteSet(Handlers(S))
         /\ IsFiniteSet(Mirrored)
         /\ \A s \in Stages \ {"none"} : IsFiniteSet(At(s))
<1>1. \A S \in SUBSET (HandlerStates \ {"idle"}) : Handlers(S) \subseteq Sent
  BY DEF Handlers, Sent
<1>2. Mirrored \subseteq Sent
  BY DEF Mirrored, Sent, Placed, FutureInv
<1>3. \A s \in Stages \ {"none"} : At(s) \subseteq Mirrored
  BY DEF At, Mirrored, Placed, StageInv
<1> QED
  BY <1>1, <1>2, <1>3, FS_Subset

-----------------------------------------------------------------------------
\* The primary path.

PrimaryCounters == {"total_requests", "primary_success", "primary_failures"}

\* A worker's step counts nothing on the primary path.
LEMMA WorkersCountShadow ==
  ASSUME CountersOK, NEW w \in Workers, WorkerStep(w)
  PROVE  \A k \in PrimaryCounters : metrics'[k] = metrics[k]
<1>1. \/ metrics' = metrics
      \/ \E ks \in SUBSET (Counters \ PrimaryCounters) : metrics' = Counted(ks)
  <2>1. CASE SkipCandidate(w) \/ CandidateTimesOut(w) \/ CandidateFails(w)
    BY <2>1 DEF SkipCandidate, CandidateTimesOut, CandidateFails, CandidateEnds, Counters,
                PrimaryCounters
  <2>2. ASSUME NEW p, NEW c, NEW ks \in {{}, {"candidate_success"}}, Conclude(w, p, c, ks)
        PROVE  \E js \in SUBSET (Counters \ PrimaryCounters) : metrics' = Counted(js)
    BY <2>2 DEF Conclude, When, Counters, PrimaryCounters
  <2>3. CASE CandidateReturns(w)
    <3>1. \/ \E body : Conclude(w, primaryRaw[job[w]], body, {"candidate_success"})
          \/ metrics' = Counted({"candidate_success"})
      BY <2>3 DEF CandidateReturns
    <3> QED
      BY <2>2, <3>1 DEF Counters, PrimaryCounters
  <2>4. CASE PrimaryArrives(w)
    <3>1. \/ Conclude(w, primaryRaw[job[w]], candidateRaw[job[w]], {})
          \/ metrics' = metrics
      BY <2>4 DEF PrimaryArrives
    <3> QED
      BY <2>2, <3>1
  <2>5. CASE TakeJob(w) \/ TraceEnds(w) \/ WorkerCancelled(w)
    BY <2>5 DEF TakeJob, TraceEnds, WorkerCancelled
  <2> QED
    BY <2>1, <2>3, <2>4, <2>5 DEF WorkerStep, RunStep
<1> QED
  BY <1>1, CountedValue DEF CountersOK, Counters, PrimaryCounters

\* A counter of the requests whose handlers are in S keeps count when one
\* handler moves, if the step counts it just when the handler enters S.
LEMMA CounterFollows ==
  ASSUME Placed, CountersOK, IsFiniteSet(Sent),
         NEW S \in SUBSET (HandlerStates \ {"idle"}),
         NEW k \in Counters, metrics[k] = Cardinality(Handlers(S)),
         NEW r \in Requests, NEW h, handler' = [handler EXCEPT ![r] = h],
         handler[r] \in S => h \in S,
         NEW ks, metrics' = Counted(ks), k \in ks <=> h \in S /\ handler[r] \notin S
  PROVE  metrics'[k] = Cardinality(Handlers(S)')
<1>1. IsFiniteSet(Handlers(S))
  BY Finite
<1>2. metrics'[k] = metrics[k] + (IF k \in ks THEN 1 ELSE 0)
  BY CountedValue
<1>3. metrics[k] \in Nat /\ handler \in [Requests -> HandlerStates]
  BY DEF CountersOK, Placed, FutureInv
<1>4. CASE h \in S /\ handler[r] \notin S
  <2>1. r \notin Handlers(S) /\ Handlers(S)' = Handlers(S) \cup {r}
    BY <1>3, <1>4 DEF Handlers
  <2> QED
    BY <1>1, <1>2, <1>3, <1>4, <2>1, OneMore
<1>5. CASE ~(h \in S /\ handler[r] \notin S)
  <2>1. Handlers(S)' = Handlers(S)
    BY <1>3, <1>5 DEF Handlers
  <2> QED
    BY <1>2, <1>3, <1>5, <2>1
<1> QED
  BY <1>4, <1>5

\* The three counters, and the states of the handlers they count.
Returned == {"answered", "unrendered"}
Failed == {"failed"}
Received == {"calling", "answered", "unrendered", "failed", "crashed"}

PrimaryAdds ==
    /\ metrics["primary_success"] = Cardinality(Handlers(Returned))
    /\ metrics["primary_failures"] = Cardinality(Handlers(Failed))
    /\ metrics["total_requests"] = Cardinality(Handlers(Received))

LEMMA SameRequestLedger == RequestLedger <=> PrimaryAdds
BY DEF RequestLedger, PrimaryAdds, Returned, Failed, Received

\* One handler moves.
LEMMA HandlerMoves ==
  ASSUME Placed, CountersOK, IsFiniteSet(Sent), PrimaryAdds,
         NEW r \in Requests, NEW h, handler' = [handler EXCEPT ![r] = h],
         NEW ks, metrics' = Counted(ks),
         handler[r] \in Returned => h \in Returned,
         handler[r] \in Failed => h \in Failed,
         handler[r] \in Received => h \in Received,
         "primary_success" \in ks <=> h \in Returned /\ handler[r] \notin Returned,
         "primary_failures" \in ks <=> h \in Failed /\ handler[r] \notin Failed,
         "total_requests" \in ks <=> h \in Received /\ handler[r] \notin Received
  PROVE  PrimaryAdds'
<1>1. /\ Returned \in SUBSET (HandlerStates \ {"idle"})
      /\ Failed \in SUBSET (HandlerStates \ {"idle"})
      /\ Received \in SUBSET (HandlerStates \ {"idle"})
  BY DEF Returned, Failed, Received, HandlerStates
<1>2. {"primary_success", "primary_failures", "total_requests"} \subseteq Counters
  BY DEF Counters
<1>3. metrics'["primary_success"] = Cardinality(Handlers(Returned)')
  BY <1>1, <1>2, CounterFollows DEF PrimaryAdds
<1>4. metrics'["primary_failures"] = Cardinality(Handlers(Failed)')
  BY <1>1, <1>2, CounterFollows DEF PrimaryAdds
<1>5. metrics'["total_requests"] = Cardinality(Handlers(Received)')
  BY <1>1, <1>2, CounterFollows DEF PrimaryAdds
<1> QED
  BY <1>3, <1>4, <1>5 DEF PrimaryAdds, Handlers, Returned, Failed, Received

LEMMA CountsNothing ==
  ASSUME CountersOK, metrics' = metrics
  PROVE  \E ks : metrics' = Counted(ks) /\ \A k \in PrimaryCounters : k \notin ks
<1>1. metrics' = Counted({})
  BY DEF CountersOK, Counted
<1> QED
  BY <1>1

LEMMA RequestLedgerStep ==
  ASSUME Placed, CountersOK, IsFiniteSet(Sent), PrimaryAdds, [Next]_vars
  PROVE  PrimaryAdds'
<1> USE DEF Returned, Failed, Received
<1>1. ASSUME NEW r \in Requests, Handle(r) PROVE PrimaryAdds'
  <2>1. PICK h \in {"calling", "failed"} :
           /\ h = "calling" <=> settings.primary
           /\ handler[r] = "received"
           /\ handler' = [handler EXCEPT ![r] = h]
    BY <1>1 DEF Handle
  <2>2. PICK ks : /\ metrics' = Counted(ks)
                  /\ "total_requests" \in ks
                  /\ "primary_success" \notin ks
                  /\ "primary_failures" \in ks <=> ~settings.primary
    BY <1>1 DEF Handle, When
  <2> QED
    BY <2>1, <2>2, HandlerMoves
<1>2. ASSUME NEW r \in Requests, PrimaryStep(r) PROVE PrimaryAdds'
  <2>1. handler[r] = "calling"
    BY <1>2 DEF PrimaryStep, PrimaryReturns, PrimaryFails, PrimaryRaises
  <2>2. CASE PrimaryReturns(r)
    <3>1. PICK h \in Returned : handler' = [handler EXCEPT ![r] = h]
      BY <2>2 DEF PrimaryReturns
    <3>2. metrics' = Counted({"primary_success"})
      BY <2>2 DEF PrimaryReturns
    <3> QED
      BY <2>1, <3>1, <3>2, HandlerMoves
  <2>3. CASE PrimaryFails(r)
    <3>1. /\ handler' = [handler EXCEPT ![r] = "failed"]
          /\ metrics' = Counted({"primary_failures"})
      BY <2>3 DEF PrimaryFails
    <3> QED
      BY <2>1, <3>1, HandlerMoves
  <2>4. CASE PrimaryRaises(r)
    <3>1. PICK h \in {"crashed"} :
             handler' = [handler EXCEPT ![r] = h] /\ metrics' = metrics
      BY <2>4 DEF PrimaryRaises
    <3>2. PICK ks : metrics' = Counted(ks) /\ \A k \in PrimaryCounters : k \notin ks
      BY <3>1, CountsNothing
    <3> QED
      BY <2>1, <3>1, <3>2, HandlerMoves DEF PrimaryCounters
  <2> QED
    BY <1>2, <2>2, <2>3, <2>4 DEF PrimaryStep
<1>3. ASSUME NEW r \in Requests, ClientSends(r) \/ Reject(r) PROVE PrimaryAdds'
  <2>1. PICK h \in {"received", "rejected"} :
           handler[r] \in {"idle", "received"} /\ handler' = [handler EXCEPT ![r] = h]
    BY <1>3 DEF ClientSends, Reject
  <2>2. PICK ks : metrics' = Counted(ks) /\ \A k \in PrimaryCounters : k \notin ks
    BY <1>3, CountsNothing DEF ClientSends, Reject
  <2> QED
    BY <2>1, <2>2, HandlerMoves DEF PrimaryCounters
<1>4. ASSUME handler' = handler, \A k \in PrimaryCounters : metrics'[k] = metrics[k]
      PROVE  PrimaryAdds'
  BY <1>4 DEF PrimaryAdds, Handlers, PrimaryCounters
<1>5. ASSUME NEW w \in Workers, WorkerStep(w) PROVE PrimaryAdds'
  BY <1>4, <1>5, WorkersLeaveLifespan, WorkersCountShadow
<1>6. CASE LifespanStep \/ (\E p \in Percentages : PutConfig(p)) \/ UNCHANGED vars
  BY <1>4, <1>6 DEF LifespanStep, Startup, Shutdown, StopReturns, CloseDb, CloseClient,
                    Close, PutConfig, vars, requestVars
<1> QED
  BY <1>1, <1>2, <1>3, <1>5, <1>6 DEF Next, RequestStep

-----------------------------------------------------------------------------
\* The shadow path.

\* Moving one run from a stage to another.
LEMMA StageMoves ==
  ASSUME StageInv, NEW r \in Requests, NEW t, stage' = [stage EXCEPT ![r] = t], NEW s
  PROVE  At(s)' = IF s = t THEN At(s) \cup {r} ELSE At(s) \ {r}
BY DEF StageInv, At

\* What an evaluation counts: itself, its success if the candidate has just
\* answered, and never both a match and a parse failure.
EvaluationCounts(ks, fresh) ==
    /\ ks \cap {"shadow_dropped", "candidate_failures", "candidate_timeouts"} = {}
    /\ "candidate_success" \in ks <=> "candidate_success" \in fresh
    /\ "evaluation_runs" \in ks
    /\ ~({"exact_matches", "json_parse_failures"} \subseteq ks)

\* What a step of a run counts, by the stage it leaves and the one it enters.
RunCounts(r, s, t, ks) ==
    /\ stage[r] = s
    /\ stage' = [stage EXCEPT ![r] = t]
    /\ metrics' = Counted(ks)
    /\ \/ /\ s = "candidate" /\ t = "over"
          /\ ks \in {{"shadow_dropped"}, {"candidate_failures"}, {"candidate_timeouts"}}
       \/ s = "candidate" /\ t = "primary" /\ ks = {"candidate_success"}
       \/ s = "candidate" /\ t \in {"saving", "over"} /\ EvaluationCounts(ks, {"candidate_success"})
       \/ s = "primary" /\ t \in {"saving", "over"} /\ EvaluationCounts(ks, {})
       \/ s = "saving" /\ t = "over" /\ ks = {}

LEMMA ConcludeCounts ==
  ASSUME NEW w, NEW p, NEW c, NEW fresh \in {{}, {"candidate_success"}},
         Conclude(w, p, c, fresh)
  PROVE  \E ks : \E t \in {"saving", "over"} :
            /\ metrics' = Counted(ks)
            /\ EvaluationCounts(ks, fresh)
            /\ stage' = [stage EXCEPT ![job[w]] = t]
<1> DEFINE e == Evaluate(p, c)
           ks == fresh \cup {"evaluation_runs"}
                   \cup When(e.exact_match, "exact_matches")
                   \cup When(~e.json_valid, "json_parse_failures")
<1>1. metrics' = Counted(ks)
  BY DEF Conclude
<1>2. EvaluationCounts(ks, fresh)
  <2>1. e.exact_match => e.json_valid
    BY MatchesAreValid
  <2> HIDE DEF e
  <2>2. "exact_matches" \in ks => e.exact_match
    BY DEF When
  <2>3. "json_parse_failures" \in ks => ~e.json_valid
    BY DEF When
  <2>4. "candidate_success" \in ks <=> "candidate_success" \in fresh
    BY DEF When
  <2>5. /\ "evaluation_runs" \in ks
        /\ ks \cap {"shadow_dropped", "candidate_failures", "candidate_timeouts"} = {}
    BY DEF When
  <2> QED
    BY <2>1, <2>2, <2>3, <2>4, <2>5 DEF EvaluationCounts
<1>3. \E t \in {"saving", "over"} : stage' = [stage EXCEPT ![job[w]] = t]
  BY DEF Conclude, RunEnds
<1> HIDE DEF ks
<1> QED
  BY <1>1, <1>2, <1>3

LEMMA RunStepCounts ==
  ASSUME Placed, CountersOK, NEW w \in Workers, RunStep(w)
  PROVE  \E s, t, ks : RunCounts(job[w], s, t, ks)
<1>1. CASE SkipCandidate(w) \/ CandidateTimesOut(w) \/ CandidateFails(w)
  <2>1. PICK k \in {"shadow_dropped", "candidate_failures", "candidate_timeouts"} :
           metrics' = Counted({k})
    BY <1>1 DEF SkipCandidate, CandidateTimesOut, CandidateFails, CandidateEnds
  <2>2. stage[job[w]] = "candidate" /\ stage' = [stage EXCEPT ![job[w]] = "over"]
    BY <1>1 DEF SkipCandidate, CandidateTimesOut, CandidateFails, CandidateEnds, RunsAt,
                RunEnds
  <2> QED
    BY <2>1, <2>2 DEF RunCounts
<1>2. CASE CandidateReturns(w)
  <2>1. RunsAt(w, "candidate") /\ stage[job[w]] = "candidate"
    BY <1>2 DEF CandidateReturns, RunsAt
  <2>2. future[job[w]] \in {"pending", "resolved"}
    BY <2>1, RunningRun
  <2>3. CASE future[job[w]] = "pending"
    <3>1. /\ metrics' = Counted({"candidate_success"})
          /\ stage' = [stage EXCEPT ![job[w]] = "primary"]
      BY <1>2, <2>3 DEF CandidateReturns
    <3> QED
      BY <2>1, <3>1 DEF RunCounts
  <2>4. CASE future[job[w]] = "resolved"
    <3>1. PICK body : Conclude(w, primaryRaw[job[w]], body, {"candidate_success"})
      BY <1>2, <2>4 DEF CandidateReturns
    <3>2. \E ks : \E t \in {"saving", "over"} :
             /\ metrics' = Counted(ks)
             /\ EvaluationCounts(ks, {"candidate_success"})
             /\ stage' = [stage EXCEPT ![job[w]] = t]
      BY <3>1, ConcludeCounts
    <3> QED
      BY <2>1, <3>2 DEF RunCounts
  <2> QED
    BY <2>2, <2>3, <2>4
<1>3. CASE PrimaryArrives(w)
  <2>1. RunsAt(w, "primary") /\ stage[job[w]] = "primary" /\ future[job[w]] # "pending"
    BY <1>3 DEF PrimaryArrives, RunsAt
  <2>2. future[job[w]] = "resolved"
    BY <2>1, RunningRun
  <2>3. Conclude(w, primaryRaw[job[w]], candidateRaw[job[w]], {})
    BY <1>3, <2>2 DEF PrimaryArrives
  <2>4. \E ks : \E t \in {"saving", "over"} :
             /\ metrics' = Counted(ks)
             /\ EvaluationCounts(ks, {})
             /\ stage' = [stage EXCEPT ![job[w]] = t]
    BY <2>3, ConcludeCounts
  <2> QED
    BY <2>1, <2>4 DEF RunCounts
<1>4. CASE TraceEnds(w)
  <2>1. /\ stage[job[w]] = "saving"
        /\ stage' = [stage EXCEPT ![job[w]] = "over"]
        /\ metrics' = metrics
    BY <1>4 DEF TraceEnds, RunsAt, RunEnds
  <2>2. metrics = Counted({})
    BY DEF CountersOK, Counted
  <2> QED
    BY <2>1, <2>2 DEF RunCounts
<1> QED
  BY <1>1, <1>2, <1>3, <1>4 DEF RunStep

CandidateCounters ==
    {"shadow_dropped", "candidate_success", "candidate_failures", "candidate_timeouts"}

EvaluationCounters ==
    {"candidate_success", "evaluation_runs", "exact_matches", "json_parse_failures"}

ShadowCounters == CandidateCounters \cup EvaluationCounters

\* The two ledgers, with the counters as a function's values.
ShadowAdds ==
    Cardinality(Mirrored) =
        metrics["shadow_dropped"] + metrics["candidate_success"]
          + metrics["candidate_failures"] + metrics["candidate_timeouts"]
          + Len(queue) + Cardinality(At("candidate"))

EvaluationsAdd ==
    /\ metrics["candidate_success"] =
          metrics["evaluation_runs"] + Cardinality(At("primary"))
    /\ metrics["exact_matches"] + metrics["json_parse_failures"]
          <= metrics["evaluation_runs"]

LEMMA SameLedgers == (ShadowLedger <=> ShadowAdds) /\ (EvaluationLedger <=> EvaluationsAdd)
BY DEF ShadowLedger, ShadowAdds, EvaluationLedger, EvaluationsAdd, Mirrored

\* Every number in the ledgers is one.
LEMMA Numbers ==
  ASSUME Placed, CountersOK, IsFiniteSet(Sent)
  PROVE  /\ \A k \in ShadowCounters : k \in Counters /\ metrics[k] \in Nat
         /\ Len(queue) \in Nat
         /\ IsFiniteSet(Mirrored) /\ Cardinality(Mirrored) \in Nat
         /\ IsFiniteSet(At("candidate")) /\ Cardinality(At("candidate")) \in Nat
         /\ IsFiniteSet(At("primary")) /\ Cardinality(At("primary")) \in Nat
<1>1. \A k \in ShadowCounters : k \in Counters /\ metrics[k] \in Nat
  BY DEF CountersOK, Counters, ShadowCounters, CandidateCounters, EvaluationCounters
<1>2. Len(queue) \in Nat
  BY LenProperties DEF Placed, ExecutorInv, ExecP!ExecInv, ExecP!TypeOK
<1>3. /\ IsFiniteSet(Mirrored)
      /\ IsFiniteSet(At("candidate"))
      /\ IsFiniteSet(At("primary"))
  BY Finite DEF Stages
<1> QED
  BY <1>1, <1>2, <1>3, FS_CardinalityType

\* The handler adds a mirrored request to the queue or to the refused ones.
LEMMA HandleAdds ==
  ASSUME Placed, CountersOK, IsFiniteSet(Sent), ShadowAdds, EvaluationsAdd,
         NEW r \in Requests, Handle(r)
  PROVE  ShadowAdds' /\ EvaluationsAdd'
<1>0. /\ \A k \in ShadowCounters : k \in Counters /\ metrics[k] \in Nat
      /\ Len(queue) \in Nat
      /\ IsFiniteSet(Mirrored) /\ Cardinality(Mirrored) \in Nat
      /\ Cardinality(At("candidate")) \in Nat
  BY Numbers
<1>1. PICK mirror \in BOOLEAN :
        /\ IF mirror THEN Exec!Submit(r) ELSE UNCHANGED execVars
        /\ metrics' = Counted({"total_requests"}
                        \cup When(mirror /\ Exec!QueueFull, "shadow_dropped")
                        \cup When(~settings.primary, "primary_failures"))
        /\ future' = [future EXCEPT ![r] =
                        IF ~mirror THEN "none"
                        ELSE IF settings.primary THEN "pending" ELSE "resolved"]
  BY <1>0 DEF Handle
<1>2. PICK ks : /\ metrics' = Counted(ks)
                /\ "shadow_dropped" \in ks <=> mirror /\ Exec!QueueFull
                /\ \A k \in ShadowCounters \ {"shadow_dropped"} : k \notin ks
  BY <1>1 DEF When, ShadowCounters, CandidateCounters, EvaluationCounters
<1>3. /\ metrics'["shadow_dropped"] =
            metrics["shadow_dropped"] + (IF mirror /\ Exec!QueueFull THEN 1 ELSE 0)
      /\ \A k \in ShadowCounters \ {"shadow_dropped"} : metrics'[k] = metrics[k]
  BY <1>0, <1>2, CountedValue DEF ShadowCounters, CandidateCounters
<1>4. At("candidate")' = At("candidate") /\ At("primary")' = At("primary")
  BY DEF Handle, shadowVars, At
<1>5. EvaluationsAdd'
  BY <1>3, <1>4 DEF EvaluationsAdd, ShadowCounters, EvaluationCounters
<1>6. r \notin Mirrored /\ future \in [Requests -> Futures]
  BY DEF Handle, Placed, FutureInv, Mirrored
<1>7. CASE mirror
  <2>1. Mirrored' = Mirrored \cup {r}
    BY <1>1, <1>6, <1>7 DEF Mirrored
  <2>2. Cardinality(Mirrored') = Cardinality(Mirrored) + 1
    BY <1>0, <1>6, <2>1, OneMore
  <2>3. \/ ~Exec!QueueFull /\ Len(queue') = Len(queue) + 1
        \/ Exec!QueueFull /\ queue' = queue
    BY <1>1, <1>7, SubmitEffect DEF Placed
  <2>4. /\ metrics'["candidate_success"] = metrics["candidate_success"]
        /\ metrics'["candidate_failures"] = metrics["candidate_failures"]
        /\ metrics'["candidate_timeouts"] = metrics["candidate_timeouts"]
    BY <1>3 DEF ShadowCounters, CandidateCounters
  <2>5. /\ metrics["shadow_dropped"] \in Nat
        /\ metrics["candidate_success"] \in Nat
        /\ metrics["candidate_failures"] \in Nat
        /\ metrics["candidate_timeouts"] \in Nat
    BY <1>0 DEF ShadowCounters, CandidateCounters
  <2>6. metrics'["shadow_dropped"] + Len(queue') = metrics["shadow_dropped"] + Len(queue) + 1
    BY <1>0, <1>3, <1>7, <2>3, <2>5
  <2>7. metrics'["shadow_dropped"] \in Nat /\ Len(queue') \in Nat
    BY <1>0, <1>3, <2>3, <2>5
  <2>8. ShadowAdds'
    <3> DEFINE others == metrics["candidate_success"] + metrics["candidate_failures"]
                           + metrics["candidate_timeouts"]
    <3>1. others \in Nat /\ others' = others
      BY <2>4, <2>5
    <3>2. Cardinality(Mirrored) =
             metrics["shadow_dropped"] + others + Len(queue) + Cardinality(At("candidate"))
      BY <1>0, <2>5 DEF ShadowAdds
    <3>3. Len(queue) \in Nat /\ Cardinality(At("candidate")) \in Nat
      BY <1>0
    <3> HIDE DEF others
    <3>4. Cardinality(Mirrored') = metrics'["shadow_dropped"] + others' + Len(queue')
                                     + Cardinality(At("candidate")')
      <4>1. metrics["shadow_dropped"] \in Nat
        BY <2>5
      <4>2. Cardinality(Mirrored') =
               metrics["shadow_dropped"] + Len(queue) + 1 + others
                 + Cardinality(At("candidate"))
        BY <2>2, <3>1, <3>2, <3>3, <4>1
      <4>3. Cardinality(Mirrored') =
               metrics'["shadow_dropped"] + Len(queue') + others
                 + Cardinality(At("candidate"))
        BY <2>6, <4>2
      <4> QED
        BY <1>4, <2>7, <3>1, <3>3, <4>3
    <3> QED
      BY <2>4, <2>5, <2>7, <3>4 DEF others, ShadowAdds
  <2> QED
    BY <1>5, <2>8
<1>8. CASE ~mirror
  <2>1. Mirrored' = Mirrored /\ queue' = queue
    BY <1>1, <1>6, <1>8 DEF Mirrored, execVars
  <2> QED
    BY <1>0, <1>3, <1>4, <1>5, <1>8, <2>1 DEF ShadowAdds, ShadowCounters, CandidateCounters
<1> QED
  BY <1>7, <1>8

\* A worker's step moves a request from one side of a ledger to the other.
LEMMA WorkerAdds ==
  ASSUME Placed, CountersOK, IsFiniteSet(Sent), ShadowAdds, EvaluationsAdd,
         NEW w \in Workers, WorkerStep(w)
  PROVE  ShadowAdds' /\ EvaluationsAdd'
<1>0. /\ \A k \in ShadowCounters : k \in Counters /\ metrics[k] \in Nat
      /\ Len(queue) \in Nat
      /\ Cardinality(Mirrored) \in Nat
      /\ IsFiniteSet(At("candidate")) /\ Cardinality(At("candidate")) \in Nat
      /\ IsFiniteSet(At("primary")) /\ Cardinality(At("primary")) \in Nat
      /\ StageInv
  BY Numbers DEF Placed
<1>1. Mirrored' = Mirrored
  BY WorkersLeaveLifespan DEF Mirrored
<1>2. CASE TakeJob(w)
  <2>1. PICK r \in Requests : r = Head(queue) /\ r \in Queued
    BY <1>2, TakeEffect DEF TakeJob, Placed
  <2>2. /\ Len(queue') = Len(queue) - 1
        /\ stage' = [stage EXCEPT ![r] = "candidate"]
        /\ metrics' = metrics
    BY <1>2, <2>1, TakeEffect DEF TakeJob, Placed
  <2>3. stage[r] = "none"
    BY <1>0, <2>1 DEF StageInv
  <2>4. r \notin At("candidate") /\ r \notin At("primary")
    BY <2>3 DEF At
  <2>5. /\ At("candidate")' = At("candidate") \cup {r}
        /\ At("primary")' = At("primary") \ {r}
    BY <1>0, <2>2, StageMoves
  <2>6. /\ Cardinality(At("candidate")') = Cardinality(At("candidate")) + 1
        /\ At("primary")' = At("primary")
    BY <1>0, <2>4, <2>5, OneMore
  <2>7. EvaluationsAdd'
    BY <2>2, <2>6 DEF EvaluationsAdd
  <2>8. Cardinality(Mirrored) =
           metrics["shadow_dropped"] + metrics["candidate_success"]
             + metrics["candidate_failures"] + metrics["candidate_timeouts"]
             + Len(queue') + Cardinality(At("candidate")')
    <3>1. Len(queue) + Cardinality(At("candidate")) = Len(queue') + Cardinality(At("candidate")')
      BY <1>0, <2>2, <2>6
    <3>2. Len(queue') \in Int
      BY <1>0, <2>2
    <3> QED
      BY <1>0, <2>2, <2>6, <3>1, <3>2 DEF ShadowAdds, ShadowCounters, CandidateCounters
  <2> QED
    BY <1>1, <2>2, <2>7, <2>8 DEF ShadowAdds
<1>3. CASE RunStep(w)
  <2>1. PICK r \in Requests : r = job[w]
    BY <1>3, RunStepEffect
  <2>2. queue' = queue
    BY <1>3, RunStepEffect, RunEndsEffect DEF RunGoesOn, execVars
  <2>3. PICK s, t, ks : RunCounts(r, s, t, ks)
    BY <1>3, <2>1, RunStepCounts
  <2>4. stage[r] = s /\ stage' = [stage EXCEPT ![r] = t] /\ metrics' = Counted(ks)
    BY <2>3 DEF RunCounts
  <2>5. \A k \in ShadowCounters :
           metrics'[k] = metrics[k] + (IF k \in ks THEN 1 ELSE 0)
    BY <1>0, <2>4, CountedValue
  <2>6. r \in At(s) /\ \A z : z # s => r \notin At(z)
    BY <2>4 DEF At
  <2> DEFINE leaves(z) == IF s = z THEN 1 ELSE 0
             enters(z) == IF t = z THEN 1 ELSE 0
             one(k) == IF k \in ks THEN 1 ELSE 0
  <2>7. Cardinality(At("candidate")') = Cardinality(At("candidate")) - leaves("candidate")
    <3>1. t # "candidate"
      BY <2>3 DEF RunCounts
    <3>2. At("candidate")' = At("candidate") \ {r}
      BY <1>0, <2>4, <3>1, StageMoves
    <3>3. CASE s = "candidate"
      BY <1>0, <2>6, <3>2, <3>3, OneLess
    <3>4. CASE s # "candidate"
      <4>1. At("candidate")' = At("candidate")
        BY <2>6, <3>2, <3>4
      <4> QED
        BY <1>0, <3>4, <4>1
    <3> QED
      BY <3>3, <3>4
  <2>8. Cardinality(At("primary")') =
           Cardinality(At("primary")) + enters("primary") - leaves("primary")
    <3>1. ~(s = "primary" /\ t = "primary")
      BY <2>3 DEF RunCounts
    <3>2. CASE t = "primary"
      <4>1. At("primary")' = At("primary") \cup {r}
        BY <1>0, <2>4, <3>2, StageMoves
      <4>2. r \notin At("primary")
        BY <2>6, <3>1, <3>2
      <4>3. Cardinality(At("primary")') = Cardinality(At("primary")) + 1
        BY <1>0, <4>1, <4>2, OneMore
      <4>4. enters("primary") = 1 /\ leaves("primary") = 0
        BY <3>1, <3>2
      <4> QED
        BY <1>0, <4>3, <4>4
    <3>3. CASE s = "primary"
      <4>1. At("primary")' = At("primary") \ {r}
        BY <1>0, <2>4, <3>1, <3>3, StageMoves
      <4> QED
        BY <1>0, <2>6, <3>1, <3>3, <4>1, OneLess
    <3>4. CASE s # "primary" /\ t # "primary"
      <4>1. At("primary")' = At("primary") \ {r}
        BY <1>0, <2>4, <3>4, StageMoves
      <4>2. r \notin At("primary")
        BY <2>6, <3>4
      <4> QED
        BY <1>0, <3>4, <4>1, <4>2
    <3> QED
      BY <3>2, <3>3, <3>4
  <2>9. \A k \in ShadowCounters : /\ metrics[k] \in Nat
                                   /\ one(k) \in {0, 1}
                                   /\ metrics'[k] = metrics[k] + one(k)
    BY <1>0, <2>5
  <2>10. ShadowAdds'
    <3>1. one("shadow_dropped") + one("candidate_success") + one("candidate_failures")
            + one("candidate_timeouts") = leaves("candidate")
      BY <2>3 DEF RunCounts, EvaluationCounts
    <3>a. leaves("candidate") \in {0, 1}
      OBVIOUS
    <3> HIDE DEF one, leaves
    <3>2. Cardinality(Mirrored) =
             metrics["shadow_dropped"] + metrics["candidate_success"]
               + metrics["candidate_failures"] + metrics["candidate_timeouts"]
               + Len(queue) + Cardinality(At("candidate"))
      BY DEF ShadowAdds
    <3>3. Cardinality(Mirrored) =
             metrics'["shadow_dropped"] + metrics'["candidate_success"]
               + metrics'["candidate_failures"] + metrics'["candidate_timeouts"]
               + Len(queue) + Cardinality(At("candidate")')
      <4>1. \A k \in CandidateCounters : /\ metrics[k] \in Nat
                                         /\ one(k) \in {0, 1}
                                         /\ metrics'[k] = metrics[k] + one(k)
        BY <2>9 DEF ShadowCounters
      <4>2. /\ metrics'["shadow_dropped"] =
                  metrics["shadow_dropped"] + one("shadow_dropped")
            /\ metrics'["candidate_success"] =
                  metrics["candidate_success"] + one("candidate_success")
            /\ metrics'["candidate_failures"] =
                  metrics["candidate_failures"] + one("candidate_failures")
            /\ metrics'["candidate_timeouts"] =
                  metrics["candidate_timeouts"] + one("candidate_timeouts")
        BY <4>1 DEF CandidateCounters
      <4>3. /\ metrics["shadow_dropped"] \in Nat
            /\ metrics["candidate_success"] \in Nat
            /\ metrics["candidate_failures"] \in Nat
            /\ metrics["candidate_timeouts"] \in Nat
            /\ one("shadow_dropped") \in {0, 1}
            /\ one("candidate_success") \in {0, 1}
            /\ one("candidate_failures") \in {0, 1}
            /\ one("candidate_timeouts") \in {0, 1}
        BY <4>1 DEF CandidateCounters
      <4>4. Len(queue) \in Nat /\ Cardinality(At("candidate")) \in Nat
        BY <1>0
      <4> DEFINE before == metrics["shadow_dropped"] + metrics["candidate_success"]
                             + metrics["candidate_failures"] + metrics["candidate_timeouts"]
                 after == metrics'["shadow_dropped"] + metrics'["candidate_success"]
                            + metrics'["candidate_failures"] + metrics'["candidate_timeouts"]
      <4>5. after = before + leaves("candidate")
        BY <3>1, <4>2, <4>3, FourIncreased
      <4>6. before \in Nat
        BY <4>3
      <4>7. Cardinality(Mirrored) = before + Len(queue) + Cardinality(At("candidate"))
        BY <3>2
      <4> HIDE DEF before, after
      <4>8. Cardinality(Mirrored) = after + Len(queue) + Cardinality(At("candidate")')
        BY <2>7, <3>a, <4>4, <4>5, <4>6, <4>7
      <4> QED
        BY <4>8 DEF after
    <3> QED
      BY <1>1, <2>2, <3>3 DEF ShadowAdds
  <2>11. EvaluationsAdd'
    <3>1. one("candidate_success") - one("evaluation_runs") =
             enters("primary") - leaves("primary")
      BY <2>3 DEF RunCounts, EvaluationCounts
    <3>a. leaves("primary") \in {0, 1} /\ enters("primary") \in {0, 1}
      OBVIOUS
    <3>2. one("exact_matches") + one("json_parse_failures") <= one("evaluation_runs")
      BY <2>3 DEF RunCounts, EvaluationCounts
    <3> HIDE DEF one, leaves, enters
    <3>3. \A k \in EvaluationCounters : /\ metrics[k] \in Nat
                                         /\ one(k) \in {0, 1}
                                         /\ metrics'[k] = metrics[k] + one(k)
      BY <2>9 DEF ShadowCounters
    <3>4. metrics'["candidate_success"] =
             metrics'["evaluation_runs"] + Cardinality(At("primary")')
      <4>1. /\ metrics'["candidate_success"] =
                  metrics["candidate_success"] + one("candidate_success")
            /\ metrics'["evaluation_runs"] =
                  metrics["evaluation_runs"] + one("evaluation_runs")
            /\ metrics["candidate_success"] \in Nat /\ metrics["evaluation_runs"] \in Nat
            /\ one("candidate_success") \in {0, 1} /\ one("evaluation_runs") \in {0, 1}
        BY <3>3 DEF EvaluationCounters
      <4>2. metrics["candidate_success"] =
               metrics["evaluation_runs"] + Cardinality(At("primary"))
        BY DEF EvaluationsAdd
      <4>3. Cardinality(At("primary")) \in Nat
        BY <1>0
      <4> QED
        BY <2>8, <3>1, <3>a, <4>1, <4>2, <4>3
    <3>5. metrics'["exact_matches"] + metrics'["json_parse_failures"]
             <= metrics'["evaluation_runs"]
      BY <3>2, <3>3 DEF EvaluationsAdd, EvaluationCounters
    <3> QED
      BY <3>4, <3>5 DEF EvaluationsAdd
  <2> QED
    BY <2>10, <2>11
<1>4. CASE WorkerCancelled(w)
  <2>1. UNCHANGED <<stage, metrics, queue>>
    BY <1>4 DEF WorkerCancelled, Exec!WorkerCancelled
  <2> QED
    BY <1>1, <2>1 DEF ShadowAdds, EvaluationsAdd, At
<1> QED
  BY <1>2, <1>3, <1>4 DEF WorkerStep

\* No other step of the service is one of the shadow path.
LEMMA OthersLeaveLedgers ==
  ASSUME Placed, CountersOK, ShadowAdds, EvaluationsAdd,
         \/ \E r \in Requests : ClientSends(r) \/ Reject(r) \/ PrimaryStep(r)
         \/ \E p \in Percentages : PutConfig(p)
         \/ LifespanStep
         \/ UNCHANGED vars
  PROVE  ShadowAdds' /\ EvaluationsAdd'
<1>1. \/ metrics' = metrics
      \/ \E k \in PrimaryCounters : metrics' = Counted({k})
  BY DEF ClientSends, Reject, PrimaryStep, PrimaryReturns, PrimaryFails, PrimaryRaises,
         PutConfig, LifespanStep, Startup, Shutdown, StopReturns, CloseDb, CloseClient,
         Close, vars, PrimaryCounters
<1>2. \A k \in ShadowCounters : metrics'[k] = metrics[k]
  BY <1>1, CountedValue
     DEF CountersOK, ShadowCounters, CandidateCounters, EvaluationCounters, PrimaryCounters,
         Counters
<1>3. UNCHANGED <<queue, stage>>
  BY DEF ClientSends, Reject, PrimaryStep, PrimaryReturns, PrimaryFails, PrimaryRaises,
         PutConfig, LifespanStep, Startup, Shutdown, StopReturns, CloseDb, CloseClient,
         Close, vars, execVars, shadowVars, Exec!Start, Exec!Stop, Exec!StopReturns
<1>4. \A q \in Requests : future'[q] = "none" <=> future[q] = "none"
  BY DEF ClientSends, Reject, PrimaryStep, PrimaryReturns, PrimaryFails, PrimaryRaises,
         PutConfig, LifespanStep, Startup, Shutdown, StopReturns, CloseDb, CloseClient,
         Close, vars, requestVars, Settle, Awaited, Placed, FutureInv
<1>5. Mirrored' = Mirrored /\ At("candidate")' = At("candidate") /\ At("primary")' = At("primary")
  BY <1>3, <1>4 DEF Mirrored, At
<1> QED
  BY <1>2, <1>3, <1>5
     DEF ShadowAdds, EvaluationsAdd, ShadowCounters, CandidateCounters, EvaluationCounters

-----------------------------------------------------------------------------
\* The inductive invariant of the metrics.

LedgerInv ==
    /\ Placed
    /\ CountersOK
    /\ IsFiniteSet(Sent)
    /\ RequestLedger
    /\ ShadowLedger
    /\ EvaluationLedger

LEMMA LedgerInvInit == Init => LedgerInv
<1> SUFFICES ASSUME Init PROVE LedgerInv
  OBVIOUS
<1>1. Placed /\ CountersOK
  BY PlacedInit DEF Init, CountersOK
<1>2. /\ Sent = {} /\ Mirrored = {}
      /\ \A s \in {"candidate", "primary"} : At(s) = {}
      /\ Handlers(Returned) = {} /\ Handlers(Failed) = {} /\ Handlers(Received) = {}
  BY DEF Init, Sent, Mirrored, At, Handlers, Returned, Failed, Received
<1>3. Len(queue) = 0
  BY EmptySeq DEF Init, Exec!Init
<1>4. \A k \in Counters : metrics[k] = 0
  BY DEF Init
<1>5. RequestLedger
  <2>1. PrimaryAdds
    BY <1>2, <1>4, FS_EmptySet DEF PrimaryAdds, Counters
  <2> QED
    BY <2>1, SameRequestLedger
<1>6. /\ Cardinality(Mirrored) = 0 /\ Cardinality(At("candidate")) = 0
      /\ Cardinality(At("primary")) = 0
  BY <1>2, FS_EmptySet
<1>7. /\ metrics["shadow_dropped"] = 0 /\ metrics["candidate_timeouts"] = 0
      /\ metrics["candidate_failures"] = 0 /\ metrics["candidate_success"] = 0
      /\ metrics["json_parse_failures"] = 0 /\ metrics["exact_matches"] = 0
      /\ metrics["evaluation_runs"] = 0
  BY <1>4 DEF Counters
<1>8. ShadowAdds
  BY <1>3, <1>6, <1>7 DEF ShadowAdds, ShadowCounters, CandidateCounters
<1>9. EvaluationsAdd
  BY <1>6, <1>7 DEF EvaluationsAdd, EvaluationCounters
<1> QED
  BY <1>1, <1>2, <1>5, <1>8, <1>9, SameLedgers, FS_EmptySet DEF LedgerInv

LEMMA LedgerInvStep == LedgerInv /\ [Next]_vars => LedgerInv'
<1> SUFFICES ASSUME LedgerInv, [Next]_vars PROVE LedgerInv'
  OBVIOUS
<1> USE DEF LedgerInv
<1>1. Placed' /\ CountersOK' /\ IsFiniteSet(Sent')
  BY PlacedStep, CountersStep, SentStep DEF Placed
<1>0. RequestLedger'
  <2>1. PrimaryAdds'
    BY SameRequestLedger, RequestLedgerStep
  <2> QED
    BY <2>1 DEF RequestLedger, PrimaryAdds, Handlers, Returned, Failed, Received
<1>2. ShadowAdds /\ EvaluationsAdd
  BY SameLedgers
<1>3. ShadowAdds' /\ EvaluationsAdd'
  BY <1>2, HandleAdds, WorkerAdds, OthersLeaveLedgers DEF Next, RequestStep
<1>4. ShadowLedger' /\ EvaluationLedger'
  BY <1>3, SameLedgers
     DEF ShadowLedger, ShadowAdds, EvaluationLedger, EvaluationsAdd, Mirrored
<1> QED
  BY <1>0, <1>1, <1>4

\* The metrics add up in every reachable state.
THEOREM LedgerInvariant == SafeSpec => []LedgerInv
BY LedgerInvInit, LedgerInvStep, PTL DEF SafeSpec

\* Every request counted is accounted for on the primary path.
THEOREM RequestsAddUp == SafeSpec => []RequestLedger
<1>1. LedgerInv => RequestLedger
  BY DEF LedgerInv
<1> QED
  BY <1>1, LedgerInvariant, PTL

\* Every mirrored request is accounted for on the shadow path.
THEOREM ShadowsAddUp == SafeSpec => []ShadowLedger
<1>1. LedgerInv => ShadowLedger
  BY DEF LedgerInv
<1> QED
  BY <1>1, LedgerInvariant, PTL

\* Every candidate response is evaluated once.
THEOREM EvaluationsAddUp == SafeSpec => []EvaluationLedger
<1>1. LedgerInv => EvaluationLedger
  BY DEF LedgerInv
<1> QED
  BY <1>1, LedgerInvariant, PTL

-----------------------------------------------------------------------------
\* What the service keeps.

\* The variables no other invariant speaks of keep their types.
DataOK ==
    /\ settings \in [candidate : BOOLEAN, primary : BOOLEAN, percentage : 0 .. 100]
    /\ primaryRaw \in [Requests -> Bodies \cup {NoResponse}]
    /\ candidateRaw \in [Requests -> Bodies \cup {NoResponse}]
    /\ rows \in [Requests -> Nat]

\* What one step does to the row and the response of the candidate of each
\* request: only the run of its job changes them.
LEMMA WorkerData ==
  ASSUME DataOK, Placed, NEW w \in Workers, WorkerStep(w)
  PROVE  \/ UNCHANGED <<candidateRaw, rows>>
         \/ /\ RunsAt(w, "candidate")
            /\ \E body \in Bodies : candidateRaw' = [candidateRaw EXCEPT ![job[w]] = body]
            /\ UNCHANGED rows
         \/ /\ w \in alive
            /\ job[w] # NoJob
            /\ stage[job[w]] = "saving"
            /\ \E kept \in {0, 1} : rows' = [rows EXCEPT ![job[w]] = @ + kept]
            /\ UNCHANGED candidateRaw
<1>1. CASE TakeJob(w) \/ SkipCandidate(w) \/ CandidateTimesOut(w) \/ CandidateFails(w)
             \/ PrimaryArrives(w)
  BY <1>1 DEF TakeJob, SkipCandidate, CandidateTimesOut, CandidateFails, CandidateEnds,
              PrimaryArrives
<1>2. CASE CandidateReturns(w)
  BY <1>2 DEF CandidateReturns
<1>3. CASE TraceEnds(w)
  BY <1>3 DEF TraceEnds, MayKeepRow, RunsAt
<1>4. CASE WorkerCancelled(w)
  BY <1>4 DEF WorkerCancelled, MayKeepRow, Exec!WorkerCancelled
<1> QED
  BY <1>1, <1>2, <1>3, <1>4 DEF WorkerStep, RunStep

LEMMA DataOKStep == DataOK /\ Placed /\ [Next]_vars => DataOK'
<1> SUFFICES ASSUME DataOK, Placed, [Next]_vars PROVE DataOK'
  OBVIOUS
<1> USE DEF DataOK
<1>1. ASSUME NEW r \in Requests, RequestStep(r) PROVE DataOK'
  <2>1. UNCHANGED <<settings, candidateRaw, rows>>
    BY <1>1, RequestsLeaveTasks
  <2>2. primaryRaw' = primaryRaw
          \/ \E body \in Bodies : primaryRaw' = [primaryRaw EXCEPT ![r] = body]
    BY <1>1 DEF RequestStep, ClientSends, Handle, Reject, PrimaryStep, PrimaryReturns,
                PrimaryFails, PrimaryRaises, requestVars
  <2> QED
    BY <2>1, <2>2
<1>2. ASSUME NEW p \in Percentages, PutConfig(p) PROVE DataOK'
  <2>1. Clamped(p) \in 0 .. 100
    BY ShadowModeAssumption DEF Clamped
  <2> QED
    BY <1>2, <2>1 DEF PutConfig, requestVars, shadowVars
<1>3. ASSUME NEW w \in Workers, WorkerStep(w) PROVE DataOK'
  <2>1. UNCHANGED <<settings, primaryRaw>>
    BY <1>3, WorkersLeaveLifespan
  <2>2. candidateRaw' \in [Requests -> Bodies \cup {NoResponse}] /\ rows' \in [Requests -> Nat]
    BY <1>3, WorkerData
  <2> QED
    BY <2>1, <2>2
<1>4. CASE LifespanStep
  BY <1>4 DEF LifespanStep, Startup, Shutdown, StopReturns, CloseDb, CloseClient, Close,
              requestVars, shadowVars
<1>5. CASE UNCHANGED vars
  BY <1>5 DEF vars, requestVars, shadowVars
<1> QED
  BY <1>1, <1>2, <1>3, <1>4, <1>5 DEF Next

-----------------------------------------------------------------------------
\* The traces.

\* A run that saves has two responses that diverge and a primary that has
\* settled; its row, once there, is the only one, and if the run has not ended
\* it was abandoned.
TraceInv ==
    \A r \in Requests :
        /\ rows[r] \in {0, 1}
        /\ stage[r] = "saving" \/ rows[r] = 1
              => /\ future[r] = "resolved"
                 /\ Diverges(Evaluate(primaryRaw[r], candidateRaw[r]))
        /\ rows[r] = 1 => \/ stage[r] = "over"
                          \/ stage[r] = "saving" /\ fate[r] = "abandoned"

LEMMA TraceInvInit == Init => TraceInv
BY DEF Init, TraceInv

\* A step that leaves r's run and its row alone, and its future once resolved,
\* with the two responses.
LEMMA TraceUnchanged ==
  ASSUME TraceInv, NEW r \in Requests,
         rows'[r] = rows[r], stage'[r] = stage[r], candidateRaw'[r] = candidateRaw[r],
         fate[r] = "abandoned" => fate'[r] = "abandoned",
         future[r] = "resolved" => future'[r] = "resolved" /\ primaryRaw'[r] = primaryRaw[r]
  PROVE  /\ rows'[r] \in {0, 1}
         /\ stage'[r] = "saving" \/ rows'[r] = 1
              => /\ future'[r] = "resolved"
                 /\ Diverges(Evaluate(primaryRaw'[r], candidateRaw'[r]))
         /\ rows'[r] = 1 => \/ stage'[r] = "over"
                            \/ stage'[r] = "saving" /\ fate'[r] = "abandoned"
BY DEF TraceInv

\* A job that is over, or not yet submitted, is in no worker's hands.
LEMMA FateOfOthers ==
  ASSUME Placed, [Next]_vars, NEW r \in Requests, fate[r] = "abandoned"
  PROVE  fate'[r] = "abandoned"
<1>0. fate \in [Requests -> Exec!Fates]
  BY FateType DEF Placed
<1>1. StrictStep \/ UNCHANGED execVars
  BY OnlyStrictSteps
<1>2. ASSUME NEW q \in Requests, Exec!Submit(q) PROVE fate'[r] = "abandoned"
  BY <1>0, <1>2 DEF Exec!Submit, Exec!Accept, Exec!Drop
<1>3. ASSUME NEW w \in Workers, Exec!JobEnds(w) \/ Exec!WorkerCancelled(w)
      PROVE  fate'[r] = "abandoned"
  <2>1. job[w] # NoJob => job[w] \in Requests /\ fate[job[w]] = "accepted"
    BY BusyWorkersJob DEF Placed
  <2> QED
    BY <1>0, <1>3, <2>1 DEF Exec!JobEnds, Exec!WorkerCancelled, Exec!Release
<1>4. ASSUME NEW w \in Workers, Exec!Take(w) PROVE fate'[r] = "abandoned"
  BY <1>4 DEF Exec!Take
<1>5. CASE Exec!Start \/ Exec!Stop \/ Exec!StopReturns \/ UNCHANGED execVars
  BY <1>5 DEF Exec!Start, Exec!Stop, Exec!StopReturns, execVars
<1> QED
  BY <1>1, <1>2, <1>3, <1>4, <1>5 DEF StrictStep

\* The primary's response of a settled request is there to stay.
LEMMA SettledStays ==
  ASSUME Placed, DataOK, [Next]_vars, NEW q \in Requests, future[q] = "resolved"
  PROVE  future'[q] = "resolved" /\ primaryRaw'[q] = primaryRaw[q]
<1>1. future'[q] = "resolved"
  BY FuturesSettleOnce DEF Placed
<1>2. handler[q] # "calling"
  BY DEF Placed, FutureInv
<1>3. ASSUME NEW r \in Requests, RequestStep(r) PROVE primaryRaw'[q] = primaryRaw[q]
  <2>1. CASE PrimaryReturns(r)
    BY <1>2, <2>1 DEF PrimaryReturns, DataOK
  <2>2. CASE ClientSends(r) \/ Handle(r) \/ Reject(r) \/ PrimaryFails(r) \/ PrimaryRaises(r)
    BY <2>2 DEF ClientSends, Handle, Reject, PrimaryFails, PrimaryRaises
  <2> QED
    BY <1>3, <2>1, <2>2 DEF RequestStep, PrimaryStep
<1>4. ASSUME NEW w \in Workers, WorkerStep(w) PROVE primaryRaw'[q] = primaryRaw[q]
  BY <1>4, WorkersLeaveLifespan
<1>5. ASSUME LifespanStep \/ (\E p \in Percentages : PutConfig(p)) \/ UNCHANGED vars
      PROVE  primaryRaw'[q] = primaryRaw[q]
  BY <1>5 DEF LifespanStep, Startup, Shutdown, StopReturns, CloseDb, CloseClient, Close,
              PutConfig, requestVars, vars
<1> QED
  BY <1>1, <1>3, <1>4, <1>5 DEF Next

\* A step of a worker, as far as its own job's trace is concerned.
LEMMA TraceInvWorker ==
  ASSUME TraceInv, DataOK, Placed, NEW w \in Workers, WorkerStep(w)
  PROVE  TraceInv'
<1> DEFINE Kept(r) ==
      /\ rows'[r] \in {0, 1}
      /\ stage'[r] = "saving" \/ rows'[r] = 1
           => /\ future'[r] = "resolved"
              /\ Diverges(Evaluate(primaryRaw'[r], candidateRaw'[r]))
      /\ rows'[r] = 1 => \/ stage'[r] = "over"
                         \/ stage'[r] = "saving" /\ fate'[r] = "abandoned"
<1> SUFFICES ASSUME NEW r \in Requests PROVE Kept(r)
  BY DEF TraceInv
<1>0. /\ fate \in [Requests -> Exec!Fates]
      /\ stage \in [Requests -> Stages]
      /\ UNCHANGED <<future, primaryRaw>>
      /\ [Next]_vars
  BY FateType, WorkersLeaveLifespan DEF Placed, StageInv, Next
<1>1. fate[r] = "abandoned" => fate'[r] = "abandoned"
  BY <1>0, FateOfOthers
<1>2. CASE TakeJob(w)
  <2>1. Head(queue) \in Requests /\ Head(queue) \in Queued
    BY <1>2, TakeEffect DEF TakeJob, Placed
  <2>2. stage[Head(queue)] = "none"
    BY <2>1 DEF Placed, StageInv
  <2>3. UNCHANGED <<candidateRaw, rows>> /\ stage' = [stage EXCEPT ![Head(queue)] = "candidate"]
    BY <1>2 DEF TakeJob
  <2>4. CASE r = Head(queue)
    BY <1>0, <2>2, <2>3, <2>4 DEF TraceInv
  <2>5. CASE r # Head(queue)
    BY <1>0, <1>1, <2>3, <2>5, TraceUnchanged
  <2> QED
    BY <2>4, <2>5
<1>3. CASE RunStep(w)
  <2>1. /\ job[w] \in Requests /\ fate[job[w]] = "accepted"
        /\ \/ RunEnds(w)
           \/ \E s \in {"primary", "saving"} : RunGoesOn(job[w], s)
    BY <1>3, RunStepEffect
  <2>2. \E s \in Stages : stage' = [stage EXCEPT ![job[w]] = s]
    BY <2>1 DEF RunEnds, RunGoesOn, Stages
  <2>3. CASE r # job[w]
    <3>1. rows'[r] = rows[r] /\ candidateRaw'[r] = candidateRaw[r]
      BY <1>3, <2>3, WorkerData DEF WorkerStep, DataOK
    <3>2. stage'[r] = stage[r]
      BY <1>0, <2>2, <2>3
    <3> QED
      BY <1>0, <1>1, <3>1, <3>2, TraceUnchanged
  <2>4. CASE r = job[w]
    <3>1. rows[r] = 0
      BY <2>1, <2>4, <1>3, RunningRun
         DEF TraceInv, RunStep, SkipCandidate, CandidateTimesOut, CandidateFails,
             CandidateEnds, CandidateReturns, PrimaryArrives, TraceEnds
    <3>2. CASE TraceEnds(w)
      <4>1. /\ stage[r] = "saving" /\ stage' = [stage EXCEPT ![r] = "over"]
            /\ candidateRaw' = candidateRaw
            /\ \E kept \in {0, 1} : rows' = [rows EXCEPT ![r] = @ + kept]
        BY <2>4, <3>2 DEF TraceEnds, RunsAt, RunEnds, MayKeepRow
      <4>2. rows'[r] \in {0, 1} /\ stage'[r] = "over"
        BY <1>0, <3>1, <4>1 DEF DataOK
      <4> QED
        BY <1>0, <4>1, <4>2 DEF TraceInv
    <3>3. CASE SkipCandidate(w) \/ CandidateTimesOut(w) \/ CandidateFails(w)
      <4>1. rows' = rows /\ stage' = [stage EXCEPT ![r] = "over"]
        BY <2>4, <3>3 DEF SkipCandidate, CandidateTimesOut, CandidateFails, CandidateEnds,
                          RunEnds
      <4> QED
        BY <1>0, <3>1, <4>1
    <3>4. ASSUME NEW p, NEW c, NEW ks, Conclude(w, p, c, ks), rows' = rows,
                 future[r] = "resolved", primaryRaw[r] = p, candidateRaw'[r] = c
          PROVE  Kept(r)
      <4>1. CASE RunEnds(w)
        BY <1>0, <2>4, <3>1, <3>4, <4>1 DEF RunEnds
      <4>2. CASE RunGoesOn(job[w], "saving") /\ Diverges(Evaluate(p, c))
        BY <1>0, <2>4, <3>1, <3>4, <4>2 DEF RunGoesOn
      <4> QED
        BY <3>4, <4>1, <4>2, ConcludeEffect
    <3>5. CASE CandidateReturns(w)
      <4>1. PICK body \in Bodies :
              /\ candidateRaw' = [candidateRaw EXCEPT ![r] = body]
              /\ IF future[r] = "resolved"
                   THEN Conclude(w, primaryRaw[r], body, {"candidate_success"})
                   ELSE IF future[r] = "pending"
                          THEN stage' = [stage EXCEPT ![r] = "primary"]
                          ELSE UNCHANGED stage
        BY <2>4, <3>5 DEF CandidateReturns, RunEscapes
      <4>2. rows' = rows /\ candidateRaw'[r] = body /\ stage[r] = "candidate"
        BY <2>4, <3>5, <4>1 DEF CandidateReturns, DataOK, RunsAt
      <4> QED
        BY <1>0, <3>1, <3>4, <4>1, <4>2
    <3>6. CASE PrimaryArrives(w)
      <4>1. UNCHANGED <<rows, candidateRaw>>
        BY <3>6 DEF PrimaryArrives
      <4>2. future[r] = "resolved"
        BY <2>4, <3>6, RunningRun DEF PrimaryArrives
      <4>3. Conclude(w, primaryRaw[r], candidateRaw[r], {})
        BY <2>4, <3>6, <4>2 DEF PrimaryArrives
      <4> QED
        BY <3>4, <4>1, <4>2, <4>3
    <3> QED
      BY <1>3, <3>2, <3>3, <3>5, <3>6 DEF RunStep
  <2> QED
    BY <2>3, <2>4
<1>4. CASE WorkerCancelled(w)
  <2>1. stage' = stage /\ candidateRaw' = candidateRaw
    BY <1>4 DEF WorkerCancelled
  <2>2. CASE rows' = rows
    BY <1>0, <1>1, <2>1, <2>2, TraceUnchanged
  <2>3. CASE /\ job[w] # NoJob /\ stage[job[w]] = "saving"
             /\ \E kept \in {0, 1} : rows' = [rows EXCEPT ![job[w]] = @ + kept]
    <3>1. job[w] \in Requests /\ fate[job[w]] = "accepted"
      BY <2>3, BusyWorkersJob DEF Placed
    <3>2. CASE r # job[w]
      BY <1>0, <1>1, <2>1, <2>3, <3>2, TraceUnchanged DEF DataOK
    <3>3. CASE r = job[w]
      <4>1. rows[r] = 0
        BY <2>3, <3>1, <3>3 DEF TraceInv
      <4>2. fate'[r] = "abandoned"
        BY <1>0, <1>4, <2>3, <3>1, <3>3 DEF WorkerCancelled, Exec!WorkerCancelled, Exec!Release
      <4>3. rows'[r] \in {0, 1}
        BY <2>3, <3>3, <4>1 DEF DataOK
      <4> QED
        BY <1>0, <2>1, <2>3, <3>3, <4>2, <4>3 DEF TraceInv
    <3> QED
      BY <3>2, <3>3
  <2> QED
    BY <1>4, <2>2, <2>3 DEF WorkerCancelled, MayKeepRow
<1> QED
  BY <1>2, <1>3, <1>4 DEF WorkerStep

LEMMA TraceInvStep == TraceInv /\ DataOK /\ Placed /\ [Next]_vars => TraceInv'
<1> SUFFICES ASSUME TraceInv, DataOK, Placed, [Next]_vars PROVE TraceInv'
  OBVIOUS
<1>1. ASSUME NEW w \in Workers, WorkerStep(w) PROVE TraceInv'
  BY <1>1, TraceInvWorker
<1>2. ASSUME UNCHANGED <<stage, candidateRaw, rows>> PROVE TraceInv'
  <2>1. ASSUME NEW r \in Requests
        PROVE  /\ fate[r] = "abandoned" => fate'[r] = "abandoned"
               /\ future[r] = "resolved"
                    => future'[r] = "resolved" /\ primaryRaw'[r] = primaryRaw[r]
    BY FateOfOthers, SettledStays
  <2> QED
    BY <1>2, <2>1, TraceUnchanged DEF TraceInv
<1>3. ASSUME NEW r \in Requests, RequestStep(r) PROVE TraceInv'
  BY <1>2, <1>3, RequestsLeaveTasks
<1>4. CASE LifespanStep \/ (\E p \in Percentages : PutConfig(p)) \/ UNCHANGED vars
  BY <1>2, <1>4 DEF LifespanStep, Startup, Shutdown, StopReturns, CloseDb, CloseClient,
                    Close, PutConfig, shadowVars, vars
<1> QED
  BY <1>1, <1>3, <1>4 DEF Next

-----------------------------------------------------------------------------
\* Types and traces: the invariants above, together.

ServiceInv == Placed /\ CountersOK /\ DataOK /\ TraceInv

LEMMA ServiceInvInit == Init => ServiceInv
<1> SUFFICES ASSUME Init PROVE ServiceInv
  OBVIOUS
<1>1. DataOK
  BY ShadowModeAssumption DEF Init, DataOK
<1>2. CountersOK
  BY DEF Init, CountersOK
<1> QED
  BY <1>1, <1>2, PlacedInit, TraceInvInit DEF ServiceInv

LEMMA ServiceInvStep == ServiceInv /\ [Next]_vars => ServiceInv'
BY PlacedStep, CountersStep, DataOKStep, TraceInvStep DEF ServiceInv

THEOREM ServiceInvariant == SafeSpec => []ServiceInv
BY ServiceInvInit, ServiceInvStep, PTL DEF SafeSpec

\* Every variable of the service keeps its type.
THEOREM ServiceTypeOK == SafeSpec => []TypeOK
<1>1. ServiceInv => TypeOK
  <2> SUFFICES ASSUME ServiceInv PROVE TypeOK
    OBVIOUS
  <2>1. Exec!TypeOK
    BY SameTypeOK DEF ServiceInv, Placed, ExecutorInv, ExecP!ExecInv
  <2> QED
    BY <2>1 DEF TypeOK, ServiceInv, Placed, LifespanInv, FutureInv, StageInv, CountersOK,
                DataOK
<1> QED
  BY <1>1, ServiceInvariant, PTL

-----------------------------------------------------------------------------
\* Matches and traces are of different evaluations.

\* The runs whose evaluation was a divergence that is kept, or may yet be.
Diverging == {r \in Requests : stage[r] = "saving" \/ rows[r] = 1}

MatchedOrKept ==
    metrics["exact_matches"] + Cardinality(Diverging) <= metrics["evaluation_runs"]

LEMMA DivergingFinite ==
  ASSUME ServiceInv, IsFiniteSet(Sent)
  PROVE  IsFiniteSet(Diverging) /\ Cardinality(Diverging) \in Nat
<1>1. Diverging \subseteq Sent
  BY DEF Diverging, Sent, ServiceInv, TraceInv, Placed, FutureInv
<1> QED
  BY <1>1, FS_Subset, FS_CardinalityType

\* A step that evaluates nothing and starts to save nothing.
LEMMA NoMoreKept ==
  ASSUME ServiceInv, IsFiniteSet(Sent), MatchedOrKept, Diverging' \subseteq Diverging,
         metrics'["exact_matches"] = metrics["exact_matches"],
         metrics'["evaluation_runs"] = metrics["evaluation_runs"]
  PROVE  MatchedOrKept'
<1>1. /\ IsFiniteSet(Diverging)
      /\ Cardinality(Diverging) \in Nat
  BY DivergingFinite
<1>2. Cardinality(Diverging') <= Cardinality(Diverging) /\ Cardinality(Diverging') \in Nat
  BY <1>1, FS_Subset, FS_CardinalityType
<1>3. metrics["exact_matches"] \in Nat /\ metrics["evaluation_runs"] \in Nat
  BY DEF ServiceInv, CountersOK, Counters
<1> QED
  BY <1>1, <1>2, <1>3 DEF MatchedOrKept

\* An evaluation is counted as a match, or its run may go on to keep a trace.
LEMMA ConcludeMatchesOrKeeps ==
  ASSUME ServiceInv, IsFiniteSet(Sent), MatchedOrKept, rows' = rows,
         NEW w \in Workers, job[w] \in Requests,
         NEW p, NEW c, NEW ks \in {{}, {"candidate_success"}}, Conclude(w, p, c, ks)
  PROVE  MatchedOrKept'
<1> DEFINE e == Evaluate(p, c)
           counted == ks \cup {"evaluation_runs"}
                         \cup When(e.exact_match, "exact_matches")
                         \cup When(~e.json_valid, "json_parse_failures")
<1>0. /\ IsFiniteSet(Diverging) /\ Cardinality(Diverging) \in Nat
      /\ stage \in [Requests -> Stages]
  BY DivergingFinite DEF ServiceInv, Placed, StageInv
<1>1. e.exact_match => ~Diverges(e)
  BY DEF Evaluate, Result, Diverges
<1> HIDE DEF e
<1>2. /\ metrics' = Counted(counted)
      /\ "evaluation_runs" \in counted
      /\ "exact_matches" \in counted <=> e.exact_match
  BY DEF Conclude, e, When
<1> HIDE DEF counted
<1>3. /\ metrics["exact_matches"] \in Nat /\ metrics["evaluation_runs"] \in Nat
      /\ metrics'["evaluation_runs"] = metrics["evaluation_runs"] + 1
      /\ metrics'["exact_matches"] =
            metrics["exact_matches"] + (IF e.exact_match THEN 1 ELSE 0)
  BY <1>2, CountedValue DEF ServiceInv, CountersOK, Counters
<1>4. CASE Diverges(e)
  <2>1. stage' = [stage EXCEPT ![job[w]] = "saving"]
    BY <1>4 DEF Conclude, e
  <2>2. Diverging' \subseteq Diverging \cup {job[w]}
    BY <1>0, <2>1 DEF Diverging
  <2>3. /\ IsFiniteSet(Diverging \cup {job[w]})
        /\ Cardinality(Diverging \cup {job[w]}) \in Nat
        /\ Cardinality(Diverging \cup {job[w]}) <= Cardinality(Diverging) + 1
    BY <1>0, AtMostOneMore
  <2>4. /\ Cardinality(Diverging') <= Cardinality(Diverging \cup {job[w]})
        /\ Cardinality(Diverging') \in Nat
    BY <2>2, <2>3, FS_Subset, FS_CardinalityType
  <2> QED
    BY <1>0, <1>1, <1>3, <1>4, <2>3, <2>4 DEF MatchedOrKept
<1>5. CASE ~Diverges(e)
  <2>1. stage' = [stage EXCEPT ![job[w]] = "over"]
    BY <1>5 DEF Conclude, RunEnds, e
  <2>2. Diverging' \subseteq Diverging
    BY <1>0, <2>1 DEF Diverging
  <2>3. Cardinality(Diverging') <= Cardinality(Diverging) /\ Cardinality(Diverging') \in Nat
    BY <1>0, <2>2, FS_Subset, FS_CardinalityType
  <2> QED
    BY <1>0, <1>3, <2>3 DEF MatchedOrKept
<1> QED
  BY <1>4, <1>5

LEMMA MatchedOrKeptWorker ==
  ASSUME ServiceInv, IsFiniteSet(Sent), MatchedOrKept, NEW w \in Workers, WorkerStep(w)
  PROVE  MatchedOrKept'
<1>0. stage \in [Requests -> Stages] /\ Placed /\ DataOK /\ CountersOK
  BY DEF ServiceInv, Placed, StageInv
<1> DEFINE Same == /\ metrics'["exact_matches"] = metrics["exact_matches"]
                   /\ metrics'["evaluation_runs"] = metrics["evaluation_runs"]
<1>1. ASSUME NEW s \in {"candidate", "primary", "over"}, NEW r \in Requests,
             stage' = [stage EXCEPT ![r] = s], rows' = rows, Same
      PROVE  MatchedOrKept'
  <2>1. Diverging' \subseteq Diverging
    BY <1>0, <1>1 DEF Diverging
  <2> QED
    BY <1>1, <2>1, NoMoreKept
<1>2. ASSUME NEW ks, metrics' = Counted(ks), "exact_matches" \notin ks,
             "evaluation_runs" \notin ks
      PROVE  Same
  BY <1>0, <1>2, CountedValue DEF CountersOK, Counters
<1>3. CASE TakeJob(w)
  <2>1. Head(queue) \in Requests
    BY <1>0, <1>3, TakeEffect DEF TakeJob, Placed
  <2> QED
    BY <1>1, <1>3, <2>1 DEF TakeJob
<1>4. CASE SkipCandidate(w) \/ CandidateTimesOut(w) \/ CandidateFails(w)
  <2>1. PICK k \in {"shadow_dropped", "candidate_timeouts", "candidate_failures"} :
           metrics' = Counted({k})
    BY <1>4 DEF SkipCandidate, CandidateTimesOut, CandidateFails, CandidateEnds
  <2>2. /\ stage' = [stage EXCEPT ![job[w]] = "over"]
        /\ rows' = rows
        /\ job[w] \in Requests
    BY <1>0, <1>4, RunStepEffect
       DEF SkipCandidate, CandidateTimesOut, CandidateFails, CandidateEnds, RunEnds, RunStep
  <2>3. Same
    BY <1>2, <2>1
  <2> QED
    BY <1>1, <2>2, <2>3
<1>5. CASE CandidateReturns(w)
  <2>1. RunsAt(w, "candidate") /\ rows' = rows
    BY <1>5 DEF CandidateReturns
  <2>2. job[w] \in Requests /\ future[job[w]] \in {"pending", "resolved"}
    BY <1>0, <2>1, RunningRun
  <2>3. CASE future[job[w]] = "resolved"
    <3>1. PICK body \in Bodies :
             Conclude(w, primaryRaw[job[w]], body, {"candidate_success"})
      BY <1>5, <2>3 DEF CandidateReturns
    <3> QED
      BY <2>1, <2>2, <3>1, ConcludeMatchesOrKeeps
  <2>4. CASE future[job[w]] = "pending"
    <3>1. /\ metrics' = Counted({"candidate_success"})
          /\ stage' = [stage EXCEPT ![job[w]] = "primary"]
      BY <1>5, <2>4 DEF CandidateReturns
    <3>2. Same
      BY <1>2, <3>1
    <3> QED
      BY <1>1, <2>1, <2>2, <3>1, <3>2
  <2> QED
    BY <2>2, <2>3, <2>4
<1>6. CASE PrimaryArrives(w)
  <2>1. RunsAt(w, "primary") /\ future[job[w]] # "pending" /\ rows' = rows
    BY <1>6 DEF PrimaryArrives
  <2>2. job[w] \in Requests /\ future[job[w]] = "resolved"
    BY <1>0, <2>1, RunningRun
  <2>3. Conclude(w, primaryRaw[job[w]], candidateRaw[job[w]], {})
    BY <1>6, <2>2 DEF PrimaryArrives
  <2> QED
    BY <2>1, <2>2, <2>3, ConcludeMatchesOrKeeps
<1>7. CASE TraceEnds(w)
  <2>1. /\ stage[job[w]] = "saving" /\ job[w] \in Requests
        /\ stage' = [stage EXCEPT ![job[w]] = "over"]
        /\ \A r \in Requests : r # job[w] => rows'[r] = rows[r]
        /\ metrics' = metrics
    BY <1>0, <1>7, RunningRun DEF TraceEnds, RunsAt, RunEnds, MayKeepRow, DataOK
  <2>2. Diverging' \subseteq Diverging
    BY <1>0, <2>1 DEF Diverging
  <2> QED
    BY <2>1, <2>2, NoMoreKept
<1>8. CASE WorkerCancelled(w)
  <2>1. /\ stage' = stage /\ metrics' = metrics
        /\ \A r \in Requests : stage[r] # "saving" => rows'[r] = rows[r]
    BY <1>0, <1>8 DEF WorkerCancelled, MayKeepRow, DataOK
  <2>2. Diverging' \subseteq Diverging
    BY <2>1 DEF Diverging
  <2> QED
    BY <2>1, <2>2, NoMoreKept
<1> QED
  BY <1>3, <1>4, <1>5, <1>6, <1>7, <1>8 DEF WorkerStep, RunStep

LEMMA MatchedOrKeptStep ==
  ASSUME ServiceInv, IsFiniteSet(Sent), MatchedOrKept, [Next]_vars
  PROVE  MatchedOrKept'
<1>1. ASSUME NEW w \in Workers, WorkerStep(w) PROVE MatchedOrKept'
  BY <1>1, MatchedOrKeptWorker
<1>2. ASSUME UNCHANGED <<stage, rows>>,
             \/ metrics' = metrics
             \/ \E ks \in SUBSET (PrimaryCounters \cup {"shadow_dropped"}) :
                   metrics' = Counted(ks)
      PROVE  MatchedOrKept'
  <2>1. \A k \in {"exact_matches", "evaluation_runs"} : metrics'[k] = metrics[k]
    BY <1>2, CountedValue DEF ServiceInv, CountersOK, Counters, PrimaryCounters
  <2>2. Diverging' = Diverging
    BY <1>2 DEF Diverging
  <2> QED
    BY <2>1, <2>2, NoMoreKept
<1>3. ASSUME NEW r \in Requests, RequestStep(r) PROVE MatchedOrKept'
  <2>1. UNCHANGED <<stage, rows>>
    BY <1>3, RequestsLeaveTasks
  <2>2. \/ metrics' = metrics
        \/ \E ks \in SUBSET (PrimaryCounters \cup {"shadow_dropped"}) :
              metrics' = Counted(ks)
    BY <1>3 DEF RequestStep, ClientSends, Handle, Reject, PrimaryStep, PrimaryReturns,
                PrimaryFails, PrimaryRaises, When, PrimaryCounters
  <2> QED
    BY <1>2, <2>1, <2>2
<1>4. CASE LifespanStep \/ (\E p \in Percentages : PutConfig(p)) \/ UNCHANGED vars
  BY <1>2, <1>4 DEF LifespanStep, Startup, Shutdown, StopReturns, CloseDb, CloseClient,
                    Close, PutConfig, vars, shadowVars
<1> QED
  BY <1>1, <1>3, <1>4 DEF Next

LEMMA MatchedOrKeptInit == Init => MatchedOrKept
<1> SUFFICES ASSUME Init PROVE MatchedOrKept
  OBVIOUS
<1>1. Diverging = {}
  BY DEF Init, Diverging
<1>2. metrics["exact_matches"] = 0 /\ metrics["evaluation_runs"] = 0
  BY DEF Init, Counters
<1> QED
  BY <1>1, <1>2, FS_EmptySet DEF MatchedOrKept

\* Every trace is of a request whose two responses diverge, no request has
\* two, whatever the shutdown cut short, and no match is kept as a trace.
THEOREM TracesRecordDivergences == SafeSpec => []TracesAreDivergences
<1>1. ServiceInv /\ MatchedOrKept /\ LedgerInv => TracesAreDivergences
  <2> SUFFICES ASSUME ServiceInv, MatchedOrKept, LedgerInv PROVE TracesAreDivergences
    OBVIOUS
  <2>1. {r \in Requests : rows[r] > 0} \subseteq Diverging
    BY DEF Diverging, ServiceInv, TraceInv
  <2>2. IsFiniteSet(Diverging) /\ Cardinality(Diverging) \in Nat
    BY DivergingFinite DEF LedgerInv
  <2>3. /\ Cardinality({r \in Requests : rows[r] > 0}) <= Cardinality(Diverging)
        /\ Cardinality({r \in Requests : rows[r] > 0}) \in Nat
    BY <2>1, <2>2, FS_Subset, FS_CardinalityType
  <2>4. metrics["exact_matches"] \in Nat /\ metrics["evaluation_runs"] \in Nat
    BY DEF ServiceInv, CountersOK, Counters
  <2>5. metrics["exact_matches"] + Cardinality({r \in Requests : rows[r] > 0})
          <= metrics["evaluation_runs"]
    BY <2>2, <2>3, <2>4 DEF MatchedOrKept
  <2>6. \A r \in Requests :
          rows[r] > 0 => /\ rows[r] = 1
                         /\ future[r] = "resolved"
                         /\ Diverges(Evaluate(primaryRaw[r], candidateRaw[r]))
    BY DEF ServiceInv, TraceInv
  <2> QED
    BY <2>5, <2>6 DEF TracesAreDivergences
<1>2. ServiceInv /\ LedgerInv /\ MatchedOrKept /\ [Next]_vars => MatchedOrKept'
  BY MatchedOrKeptStep DEF LedgerInv
<1> QED
  BY <1>1, <1>2, MatchedOrKeptInit, ServiceInvariant, LedgerInvariant, PTL DEF SafeSpec

-----------------------------------------------------------------------------
\* Jobs and the life of the pool.

\* No request has been sent to a service that is starting, and a server that
\* drains leaves no handler at work once the shutdown has begun.
DrainInv ==
    /\ phase = "starting" => \A r \in Requests : handler[r] = "idle"
    /\ DrainsRequests /\ phase \notin {"starting", "up"} => Unserved = {}

LEMMA DrainInvInit == Init => DrainInv
BY DEF Init, DrainInv

LEMMA DrainInvStep == Placed /\ DrainInv /\ [Next]_vars => DrainInv'
<1> SUFFICES ASSUME Placed, DrainInv, [Next]_vars PROVE DrainInv'
  OBVIOUS
<1> USE DEF DrainInv, Unserved
<1>1. ASSUME NEW r \in Requests, RequestStep(r) PROVE DrainInv'
  <2>1. phase' = phase
    BY <1>1, RequestsLeaveTasks
  <2>2. CASE ClientSends(r)
    BY <2>1, <2>2 DEF ClientSends, Serving
  <2>3. CASE Handle(r) \/ Reject(r) \/ PrimaryStep(r)
    <3>1. handler[r] \in {"received", "calling"}
      BY <2>3 DEF Handle, Reject, PrimaryStep, PrimaryReturns, PrimaryFails, PrimaryRaises
    <3>2. phase # "starting" /\ (DrainsRequests => phase = "up")
      BY <3>1
    <3> QED
      BY <2>1, <3>2
  <2> QED
    BY <1>1, <2>2, <2>3 DEF RequestStep
<1>2. ASSUME NEW w \in Workers, WorkerStep(w) PROVE DrainInv'
  BY <1>2, WorkersLeaveLifespan
<1>3. CASE Startup
  BY <1>3 DEF Startup, requestVars
<1>4. CASE Shutdown
  BY <1>4 DEF Shutdown
<1>5. CASE StopReturns
  <2>1. phase = "stopping"
    BY <1>5 DEF StopReturns, Exec!StopReturns, Placed, LifespanInv
  <2> QED
    BY <1>5, <2>1 DEF StopReturns, requestVars
<1>6. CASE CloseDb \/ CloseClient
  BY <1>6 DEF CloseDb, CloseClient, Close, requestVars
<1>7. CASE (\E p \in Percentages : PutConfig(p)) \/ UNCHANGED vars
  BY <1>7 DEF PutConfig, requestVars, vars
<1> QED
  BY <1>1, <1>2, <1>3, <1>4, <1>5, <1>6, <1>7 DEF Next, LifespanStep

\* A job is accepted by the handler that submits it, and by nobody else.
LEMMA OnlyHandlersSubmit ==
  ASSUME Placed, [Next]_vars, NEW r \in Requests, fate[r] = "new", fate'[r] = "accepted"
  PROVE  handler[r] = "received"
<1>0. fate \in [Requests -> Exec!Fates]
  BY FateType DEF Placed
<1>1. ASSUME NEW q \in Requests, RequestStep(q) PROVE handler[r] = "received"
  <2>1. CASE Handle(q)
    <3>1. Exec!Submit(q) \/ UNCHANGED execVars
      BY <2>1 DEF Handle
    <3>2. q = r
      BY <1>0, <3>1 DEF Exec!Submit, Exec!Accept, Exec!Drop, execVars
    <3> QED
      BY <2>1, <3>2 DEF Handle
  <2>2. CASE ClientSends(q) \/ Reject(q) \/ PrimaryStep(q)
    BY <2>2 DEF ClientSends, Reject, PrimaryStep, PrimaryReturns, PrimaryFails,
                PrimaryRaises, execVars
  <2> QED
    BY <1>1, <2>1, <2>2 DEF RequestStep
<1>2. ASSUME NEW w \in Workers, WorkerStep(w) PROVE FALSE
  <2>1. CASE TakeJob(w)
    BY <2>1 DEF TakeJob, Exec!Take
  <2>2. CASE RunStep(w)
    <3>1. /\ job[w] \in Requests /\ fate[job[w]] = "accepted"
          /\ \/ RunEnds(w)
             \/ \E s \in {"primary", "saving"} : RunGoesOn(job[w], s)
      BY <2>2, RunStepEffect
    <3> QED
      BY <1>0, <3>1 DEF RunEnds, RunGoesOn, Exec!JobEnds, Exec!Release, execVars
  <2>3. CASE WorkerCancelled(w)
    <3>1. job[w] # NoJob => job[w] \in Requests /\ fate[job[w]] = "accepted"
      BY BusyWorkersJob DEF Placed
    <3> QED
      BY <1>0, <2>3, <3>1 DEF WorkerCancelled, Exec!WorkerCancelled, Exec!Release
  <2> QED
    BY <1>2, <2>1, <2>2, <2>3 DEF WorkerStep
<1>3. ~LifespanStep /\ ~(\E p \in Percentages : PutConfig(p)) /\ ~UNCHANGED vars
  BY DEF LifespanStep, Startup, Shutdown, StopReturns, CloseDb, CloseClient, Close,
         PutConfig, Exec!Start, Exec!Stop, Exec!StopReturns, execVars, vars
<1> QED
  BY <1>1, <1>2, <1>3 DEF Next

\* submit() needs no look at _started on a server that drains: it accepts
\* jobs only for a pool that is up.
THEOREM AcceptedJobsReachThePool == SafeSpec => JobsReachARunningPool
<1>1. Placed /\ DrainInv /\ [Next]_vars
        => [\A r \in Requests :
              DrainsRequests /\ fate[r] = "new" /\ fate'[r] = "accepted"
                  => phase = "up"]_vars
  <2> SUFFICES ASSUME Placed, DrainInv, [Next]_vars, NEW r \in Requests,
                      DrainsRequests, fate[r] = "new", fate'[r] = "accepted"
               PROVE  phase = "up"
    OBVIOUS
  <2>1. handler[r] = "received"
    BY OnlyHandlersSubmit
  <2> QED
    BY <2>1 DEF DrainInv, Unserved
<1> QED
  BY <1>1, DrainInvInit, DrainInvStep, RequestsArePlaced, PTL DEF SafeSpec, JobsReachARunningPool

-----------------------------------------------------------------------------
\* The proxy.

\* What a client sees of its request.
Exchanges == [r \in Requests |-> ExchangeOf(r)]
Replies == [r \in Requests |->
              IF handler[r] = "answered" THEN primaryRaw[r] ELSE NoResponse]

\* A step that leaves the handlers alone leaves every client waiting or served
\* as it was: the response of a request that is answered is never replaced.
LEMMA ClientsUndisturbed ==
  ASSUME Placed, DataOK, [Next]_vars, handler' = handler
  PROVE  Exchanges' = Exchanges /\ Replies' = Replies
<1>1. \A r \in Requests : handler[r] = "answered" => primaryRaw'[r] = primaryRaw[r]
  <2> SUFFICES ASSUME NEW q \in Requests, handler[q] = "answered"
               PROVE  primaryRaw'[q] = primaryRaw[q]
    OBVIOUS
  <2>1. ASSUME NEW r \in Requests, RequestStep(r) PROVE primaryRaw' = primaryRaw
    <3>1. ~PrimaryReturns(r)
      BY DEF PrimaryReturns, Placed, FutureInv
    <3> QED
      BY <2>1, <3>1 DEF RequestStep, ClientSends, Handle, Reject, PrimaryStep, PrimaryFails,
                        PrimaryRaises
  <2>2. ASSUME NEW w \in Workers, WorkerStep(w) PROVE primaryRaw' = primaryRaw
    BY <2>2, WorkersLeaveLifespan
  <2>3. ASSUME LifespanStep \/ (\E p \in Percentages : PutConfig(p)) \/ UNCHANGED vars
        PROVE  primaryRaw' = primaryRaw
    BY <2>3 DEF LifespanStep, Startup, Shutdown, StopReturns, CloseDb, CloseClient, Close,
                PutConfig, requestVars, vars
  <2> QED
    BY <2>1, <2>2, <2>3 DEF Next
<1> QED
  BY <1>1 DEF Exchanges, Replies, ExchangeOf

LEMMA ProxyInit == Init => Proxy!Init
BY DEF Init, Proxy!Init, ExchangeOf

\* What a step of r's handler is to its client.
LEMMA ProxyRequest ==
  ASSUME Placed, DataOK, NEW r \in Requests, RequestStep(r)
  PROVE  [Proxy!Next]_Proxy!proxyVars
<1> DEFINE Moves(from, to) ==
      /\ Exchanges[r] = from
      /\ Exchanges' = [Exchanges EXCEPT ![r] = to]
<1>0. [Next]_vars
  BY DEF Next
<1>1. CASE ClientSends(r)
  <2>1. Moves("unsent", "inflight") /\ Replies' = Replies
    BY <1>1 DEF ClientSends, Placed, FutureInv, Exchanges, Replies, ExchangeOf
  <2> QED
    BY <2>1 DEF Proxy!Next, Proxy!Send, Proxy!proxyVars, Exchanges, Replies
<1>2. ASSUME NEW h \in {"failed", "crashed", "unrendered", "rejected"},
             handler[r] \in {"received", "calling"}, handler' = [handler EXCEPT ![r] = h],
             \A q \in Requests : q # r => primaryRaw'[q] = primaryRaw[q]
      PROVE  [Proxy!Next]_Proxy!proxyVars
  <2>1. Moves("inflight", "failed") /\ Replies' = Replies
    BY <1>2 DEF Placed, FutureInv, Exchanges, Replies, ExchangeOf
  <2> QED
    BY <2>1 DEF Proxy!Next, Proxy!Fail, Proxy!proxyVars, Exchanges, Replies
<1>3. CASE Handle(r)
  <2>1. CASE settings.primary
    <3>1. handler[r] = "received" /\ handler' = [handler EXCEPT ![r] = "calling"]
      BY <1>3, <2>1 DEF Handle
    <3>2. Exchanges' = Exchanges /\ Replies' = Replies
      BY <1>3, <3>1 DEF Handle, Placed, FutureInv, Exchanges, Replies, ExchangeOf
    <3> QED
      BY <3>2 DEF Proxy!proxyVars, Exchanges, Replies
  <2>2. CASE ~settings.primary
    BY <1>2, <1>3, <2>2 DEF Handle
  <2> QED
    BY <2>1, <2>2
<1>4. CASE Reject(r) \/ PrimaryFails(r) \/ PrimaryRaises(r)
  BY <1>2, <1>4 DEF Reject, PrimaryFails, PrimaryRaises
<1>5. CASE PrimaryReturns(r)
  <2>1. PICK body \in Bodies :
          /\ primaryRaw' = [primaryRaw EXCEPT ![r] = body]
          /\ handler' = [handler EXCEPT ![r] =
                            IF Renders(body) THEN "answered" ELSE "unrendered"]
    BY <1>5 DEF PrimaryReturns
  <2>2. handler[r] = "calling"
    BY <1>5 DEF PrimaryReturns
  <2>3. CASE ~Renders(body)
    BY <1>2, <2>1, <2>2, <2>3 DEF DataOK
  <2>4. CASE Renders(body)
    <3>1. Moves("inflight", "answered")
      BY <2>1, <2>2, <2>4 DEF Placed, FutureInv, Exchanges, ExchangeOf
    <3>2. Replies' = [Replies EXCEPT ![r] = body]
      BY <2>1, <2>2, <2>4 DEF Placed, FutureInv, DataOK, Replies
    <3> QED
      BY <3>1, <3>2 DEF Proxy!Next, Proxy!Answer, Exchanges, Replies
  <2> QED
    BY <2>3, <2>4
<1> QED
  BY <1>1, <1>3, <1>4, <1>5 DEF RequestStep, PrimaryStep

LEMMA ProxyStep == Placed /\ DataOK /\ [Next]_vars => [Proxy!Next]_Proxy!proxyVars
<1> SUFFICES ASSUME Placed, DataOK, [Next]_vars PROVE [Proxy!Next]_Proxy!proxyVars
  OBVIOUS
<1>1. ASSUME NEW r \in Requests, RequestStep(r) PROVE [Proxy!Next]_Proxy!proxyVars
  BY <1>1, ProxyRequest
<1>2. ASSUME handler' = handler PROVE [Proxy!Next]_Proxy!proxyVars
  BY <1>2, ClientsUndisturbed DEF Proxy!proxyVars, Exchanges, Replies
<1>3. ASSUME NEW w \in Workers, WorkerStep(w) PROVE [Proxy!Next]_Proxy!proxyVars
  BY <1>2, <1>3, WorkersLeaveLifespan
<1>4. CASE LifespanStep \/ (\E p \in Percentages : PutConfig(p)) \/ UNCHANGED vars
  BY <1>2, <1>4 DEF LifespanStep, Startup, Shutdown, StopReturns, CloseDb, CloseClient,
                    Close, PutConfig, requestVars, vars
<1> QED
  BY <1>1, <1>3, <1>4 DEF Next

\* Shadow mode is invisible: what clients see of the service is a proxy of
\* the primary that sends each of them one answer of the primary's or one
\* error, however the candidate, the workers and the shutdown behave.
THEOREM ServiceRefinesProxy == SafeSpec => Proxy!SafeProxy
<1>1. ServiceInv => Placed /\ DataOK
  BY DEF ServiceInv
<1> QED
  BY <1>1, ProxyInit, ProxyStep, ServiceInvariant, PTL DEF SafeSpec, Proxy!SafeProxy

-----------------------------------------------------------------------------
\* What a shutdown leaves of the shadow path.

\* The counters of the pipeline, but for the drops, which handlers count too.
PipelineCounters ==
    {"candidate_success", "candidate_failures", "candidate_timeouts",
     "evaluation_runs", "exact_matches", "json_parse_failures"}

LEMMA OtherCountersMove ==
  ASSUME CountersOK, NEW ks, metrics' = Counted(ks), ks \cap PipelineCounters = {}
  PROVE  \A k \in PipelineCounters : metrics'[k] = metrics[k]
<1>1. PipelineCounters \subseteq Counters
  BY DEF PipelineCounters, Counters
<1>2. \A k \in PipelineCounters : metrics'[k] = metrics[k] + 0 /\ metrics[k] \in Nat
  BY <1>1, CountedValue DEF CountersOK
<1> QED
  BY <1>2

\* Once a shutdown has begun the shadow path stands still, but for a row that
\* the database's thread may still keep: no run begins, goes on or asks the
\* candidate, nothing is evaluated or counted for one, and the service does
\* not come up again, whatever the handlers it still has do.
THEOREM ShutdownStopsShadowWork ==
  SafeSpec =>
    [][phase \notin {"starting", "up"} =>
         /\ phase' \notin {"starting", "up"}
         /\ stage' = stage /\ candidateRaw' = candidateRaw
         /\ \A k \in PipelineCounters : metrics'[k] = metrics[k]]_vars
<1> DEFINE Down == phase \notin {"starting", "up"}
           Still == /\ phase' \notin {"starting", "up"}
                    /\ stage' = stage /\ candidateRaw' = candidateRaw
                    /\ \A k \in PipelineCounters : metrics'[k] = metrics[k]
<1>1. Placed /\ CountersOK /\ [Next]_vars => [Down => Still]_vars
  <2> SUFFICES ASSUME Placed, CountersOK, Next, Down PROVE Still
    OBVIOUS
  <2>1. ASSUME NEW r \in Requests, RequestStep(r) PROVE Still
    <3>1. UNCHANGED <<phase, shadowVars>>
      BY <2>1 DEF RequestStep, ClientSends, Handle, Reject, PrimaryStep, PrimaryReturns,
                  PrimaryFails, PrimaryRaises
    <3>2. \/ metrics' = metrics
          \/ \E ks : metrics' = Counted(ks) /\ ks \cap PipelineCounters = {}
      <4>1. CASE ClientSends(r) \/ Reject(r) \/ PrimaryRaises(r)
        BY <4>1 DEF ClientSends, Reject, PrimaryRaises
      <4>2. CASE PrimaryReturns(r) \/ PrimaryFails(r)
        <5>1. \E k \in {"primary_success", "primary_failures"} : metrics' = Counted({k})
          BY <4>2 DEF PrimaryReturns, PrimaryFails
        <5> QED
          BY <5>1 DEF PipelineCounters
      <4>3. CASE Handle(r)
        <5>1. PICK mirror \in BOOLEAN :
                metrics' = Counted({"total_requests"}
                             \cup When(mirror /\ Exec!QueueFull, "shadow_dropped")
                             \cup When(~settings.primary, "primary_failures"))
          BY <4>3 DEF Handle
        <5>2. ({"total_requests"}
                 \cup When(mirror /\ Exec!QueueFull, "shadow_dropped")
                 \cup When(~settings.primary, "primary_failures")) \cap PipelineCounters = {}
          BY DEF When, PipelineCounters
        <5> QED
          BY <5>1, <5>2
      <4> QED
        BY <2>1, <4>1, <4>2, <4>3 DEF RequestStep, PrimaryStep
    <3> QED
      BY <3>1, <3>2, OtherCountersMove DEF shadowVars
  <2>2. ASSUME NEW w \in Workers, WorkerStep(w) PROVE Still
    <3>1. ~RunStep(w)
      BY <2>2, RunStepEffect
    <3>2. ~TakeJob(w)
      BY DEF TakeJob, Exec!Take, Placed, LifespanInv, Phases
    <3>3. WorkerCancelled(w)
      BY <2>2, <3>1, <3>2 DEF WorkerStep
    <3> QED
      BY <3>3 DEF WorkerCancelled
  <2>3. CASE LifespanStep
    BY <2>3 DEF LifespanStep, Startup, Shutdown, StopReturns, CloseDb, CloseClient, Close,
                shadowVars
  <2>4. CASE \E p \in Percentages : PutConfig(p)
    BY <2>4 DEF PutConfig, shadowVars
  <2> QED
    BY <2>1, <2>2, <2>3, <2>4 DEF Next
<1>2. ServiceInv => Placed /\ CountersOK
  BY DEF ServiceInv
<1> QED
  BY <1>1, <1>2, ServiceInvariant, PTL DEF SafeSpec
=============================================================================

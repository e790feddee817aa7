----------------------- MODULE TraceRepositoryProofs ------------------------
(***************************************************************************)
(* Proofs about the trace repository: what is acknowledged is durable, the *)
(* lock keeps writers apart, and the repository is a trace store (but for  *)
(* the liveness).                                                          *)
(***************************************************************************)
EXTENDS TraceRepository, Integers, TLAPS

\* Before stop(), the thread has at most one call, that of the lock's holder.
ThreadServesHolder ==
    connection = "open" =>
        /\ thread # <<>> => /\ Len(thread) = 1
                            /\ lock \in Traces /\ Head(thread).trace = lock
        /\ \A t \in Traces :
              /\ save[t] = "inserting" => thread # <<>> /\ Head(thread).call = "insert"
              /\ save[t] = "committing" => thread # <<>> /\ Head(thread).call = "commit"
              /\ save[t] \in {"inserted", "committed", "raising"} => thread = <<>>

\* Where the row of a save is that has handed it to the database.
RowInv ==
    connection = "open" =>
        \A t \in Traces :
            /\ save[t] \in {"inserted", "committing"} => t \in open
            /\ save[t] = "committed" => t \in table /\ t \notin open

\* An INSERT in the thread belongs to a save that waits for it, or waited
\* when it was cancelled; the connection's close comes from close().
StrayCalls ==
    \A i \in 1 .. Len(thread) :
        /\ thread[i].call = "insert" =>
              save[thread[i].trace] \in {"inserting", "cancelled"}
        /\ thread[i].call = "close" => connection \in {"closing", "closed"}

\* Until close() is called there is one call at most, and from then on no save.
AtMostOneCall ==
    IF connection \in {"open", "stopping"}
      THEN Len(thread) <= 1
      ELSE \A t \in Traces : save[t] \notin Active

Unconnected == connection = "none" => thread = <<>> /\ lock = NoTrace /\ open = {}

RepositoryInv ==
    /\ TypeOK
    /\ ThreadServesHolder
    /\ RowInv
    /\ StrayCalls
    /\ AtMostOneCall
    /\ Unconnected
    /\ SerialWrites
    /\ PersistedIsDurable

-----------------------------------------------------------------------------
\* What the thread and the lock's holder look like to a step.

\* Handing a call over keeps the calls there were.
LEMMA HandOverSeq ==
    ASSUME NEW call, NEW t, [call |-> call, trace |-> t] \in Calls,
           thread \in Seq(Calls), HandOver(call, t)
    PROVE  /\ thread' \in Seq(Calls)
           /\ Len(thread') = Len(thread) + 1
           /\ \A i \in 1 .. Len(thread) : thread'[i] = thread[i]
           /\ thread'[Len(thread')] = [call |-> call, trace |-> t]
           /\ thread = <<>> => Len(thread') = 1 /\ Head(thread') = [call |-> call, trace |-> t]
BY DEF HandOver

\* Running a call leaves the others.
LEMMA RunsSeq ==
    ASSUME NEW call, thread \in Seq(Calls), Runs(call)
    PROVE  /\ thread # <<>>
           /\ Head(thread) = thread[1] /\ Head(thread) \in Calls
           /\ Head(thread).call = call
           /\ 1 \in 1 .. Len(thread)
           /\ thread' \in Seq(Calls)
           /\ Len(thread') = Len(thread) - 1
           /\ \A i \in 1 .. Len(thread') : thread'[i] = thread[i + 1] /\ i + 1 \in 1 .. Len(thread)
           /\ Len(thread) = 1 => thread' = <<>>
BY DEF Runs

USE DEF Active, Holding, Over, Connections

LEMMA RepositoryInit == Init => RepositoryInv
BY RepositoryAssumption
   DEF Init, RepositoryInv, TypeOK, ThreadServesHolder, RowInv, StrayCalls,
       AtMostOneCall, Unconnected, SerialWrites, PersistedIsDurable

\* A save takes the lock.
LEMMA InsertStep ==
    ASSUME RepositoryInv, connection = "open", NEW t \in Traces,
           save[t] \in {"new", "waiting"}, lock = NoTrace, Insert(t),
           UNCHANGED <<connection, open, table>>
    PROVE  RepositoryInv'
<1> USE DEF RepositoryInv, Insert
<1>1. [call |-> "insert", trace |-> t] \in Calls
  BY DEF Calls
<1>2. thread = <<>>
  BY RepositoryAssumption DEF ThreadServesHolder, TypeOK, Calls
<1>3. /\ thread' \in Seq(Calls) /\ Len(thread') = 1
      /\ Head(thread') = [call |-> "insert", trace |-> t]
      /\ thread'[1] = [call |-> "insert", trace |-> t]
  BY <1>1, <1>2, HandOverSeq DEF TypeOK
<1>4. TypeOK'
  BY <1>3, RepositoryAssumption DEF TypeOK
<1>5. ThreadServesHolder'
  BY <1>2, <1>3, RepositoryAssumption DEF ThreadServesHolder, TypeOK
<1>6. RowInv' /\ AtMostOneCall' /\ Unconnected' /\ PersistedIsDurable'
  BY <1>3 DEF RowInv, TypeOK, AtMostOneCall, Unconnected, PersistedIsDurable
<1>7. StrayCalls'
  BY <1>3 DEF StrayCalls, TypeOK
<1>8. SerialWrites'
  BY RepositoryAssumption DEF SerialWrites, TypeOK
<1> QED
  BY <1>4, <1>5, <1>6, <1>7, <1>8

LEMMA RepositoryStep == RepositoryInv /\ [Next]_vars => RepositoryInv'
<1> SUFFICES ASSUME RepositoryInv, [Next]_vars PROVE RepositoryInv'
  OBVIOUS
<1> USE DEF RepositoryInv
<1>1. CASE Initialize
  BY <1>1, RepositoryAssumption
     DEF Initialize, TypeOK, ThreadServesHolder, RowInv, StrayCalls, AtMostOneCall, Unconnected,
         SerialWrites, PersistedIsDurable
<1>2. CASE Stop
  BY <1>2
     DEF Stop, TypeOK, ThreadServesHolder, RowInv, StrayCalls, AtMostOneCall, Unconnected,
         SerialWrites, PersistedIsDurable
<1>3. CASE Close
  <2>1. [call |-> "close", trace |-> NoTrace] \in Calls
    BY DEF Calls
  <2>2. TypeOK' /\ StrayCalls'
    BY <1>3, <2>1, HandOverSeq DEF Close, TypeOK, StrayCalls
  <2> QED
    BY <1>3, <2>2
       DEF Close, ThreadServesHolder, RowInv, AtMostOneCall, Unconnected, SerialWrites, PersistedIsDurable
<1>4. CASE Crash
  <2>1. TypeOK'
    BY <1>4, RepositoryAssumption DEF Crash, TypeOK
  <2>2. StrayCalls'
    BY <1>4 DEF Crash, StrayCalls
  <2> QED
    BY <1>4, <2>1, <2>2
       DEF Crash, TypeOK, ThreadServesHolder, RowInv, AtMostOneCall, Unconnected, SerialWrites,
           PersistedIsDurable
<1>5. ASSUME NEW t \in Traces, Skip(t) PROVE RepositoryInv'
  <2>1. TypeOK'
    BY <1>5 DEF Skip, TypeOK
  <2>2. StrayCalls'
    BY <1>5 DEF Skip, StrayCalls, TypeOK
  <2> QED
    BY <1>5, <2>1, <2>2
       DEF Skip, TypeOK, ThreadServesHolder, RowInv, AtMostOneCall, Unconnected, SerialWrites,
           PersistedIsDurable
<1>6. ASSUME NEW t \in Traces, Save(t) PROVE RepositoryInv'
  <2>1. CASE save' = [save EXCEPT ![t] = "failed"] /\ UNCHANGED <<lock, thread>>
    <3>1. TypeOK'
      BY <1>6, <2>1 DEF Save, TypeOK
    <3>2. StrayCalls'
      BY <1>6, <2>1 DEF Save, StrayCalls, TypeOK
    <3> QED
      BY <1>6, <2>1, <3>1, <3>2
         DEF Save, TypeOK, ThreadServesHolder, RowInv, AtMostOneCall, Unconnected, SerialWrites,
             PersistedIsDurable
  <2>2. CASE lock = NoTrace /\ Insert(t)
    BY <1>6, <2>2, InsertStep DEF Save
  <2>3. CASE save' = [save EXCEPT ![t] = "waiting"] /\ UNCHANGED <<lock, thread>>
    <3>1. TypeOK'
      BY <1>6, <2>3 DEF Save, TypeOK
    <3>2. StrayCalls'
      BY <1>6, <2>3 DEF Save, StrayCalls, TypeOK
    <3> QED
      BY <1>6, <2>3, <3>1, <3>2
         DEF Save, TypeOK, ThreadServesHolder, RowInv, AtMostOneCall, Unconnected, SerialWrites,
             PersistedIsDurable
  <2> QED
    BY <1>6, <2>1, <2>2, <2>3 DEF Save
<1>7. ASSUME NEW t \in Traces, Acquire(t) PROVE RepositoryInv'
  BY <1>7, InsertStep DEF Acquire
<1>8. ASSUME NEW t \in Traces, Inserted(t) PROVE RepositoryInv'
  <2>1. [call |-> "commit", trace |-> t] \in Calls
    BY DEF Calls
  <2>2. thread = <<>> /\ lock = t
    BY <1>8 DEF Inserted, ThreadServesHolder, TypeOK
  <2>3. /\ thread' \in Seq(Calls) /\ Len(thread') = 1
        /\ Head(thread') = [call |-> "commit", trace |-> t]
        /\ thread'[1] = [call |-> "commit", trace |-> t]
    BY <1>8, <2>1, <2>2, HandOverSeq DEF Inserted, TypeOK
  <2>4. TypeOK'
    BY <1>8, <2>3 DEF Inserted, TypeOK
  <2>5. ThreadServesHolder'
    BY <1>8, <2>2, <2>3 DEF Inserted, ThreadServesHolder, TypeOK
  <2>6. StrayCalls'
    BY <2>3 DEF StrayCalls
  <2> QED
    BY <1>8, <2>2, <2>3, <2>4, <2>5, <2>6
       DEF Inserted, TypeOK, RowInv, AtMostOneCall, Unconnected, SerialWrites, PersistedIsDurable
<1>9. ASSUME NEW t \in Traces, Committed(t) \/ Raised(t) PROVE RepositoryInv'
  <2>1. /\ connection = "open" /\ lock' = NoTrace
        /\ UNCHANGED <<connection, thread, open, table>>
        /\ \/ save[t] = "committed" /\ save' = [save EXCEPT ![t] = "persisted"]
           \/ save[t] = "raising" /\ save' = [save EXCEPT ![t] = "failed"]
    BY <1>9 DEF Committed, Raised, Returns
  <2>2. thread = <<>> /\ lock = t
    BY <2>1 DEF ThreadServesHolder, TypeOK
  <2>3. TypeOK'
    BY <2>1, <2>2, RepositoryAssumption DEF TypeOK
  <2>4. ThreadServesHolder' /\ StrayCalls'
    BY <2>1, <2>2 DEF ThreadServesHolder, StrayCalls, TypeOK
  <2>5. RowInv' /\ AtMostOneCall' /\ Unconnected'
    BY <2>1 DEF RowInv, AtMostOneCall, Unconnected, TypeOK
  <2>6. SerialWrites' /\ PersistedIsDurable'
    BY <2>1, <2>2 DEF SerialWrites, PersistedIsDurable, RowInv, TypeOK
  <2> QED
    BY <2>3, <2>4, <2>5, <2>6
<1>10. ASSUME NEW t \in Traces, Cancelled(t) PROVE RepositoryInv'
  <2>1. TypeOK'
    BY <1>10, RepositoryAssumption DEF Cancelled, TypeOK
  <2>2. StrayCalls'
    BY <1>10 DEF Cancelled, StrayCalls, TypeOK
  <2>3. SerialWrites' /\ PersistedIsDurable'
    BY <1>10 DEF Cancelled, SerialWrites, PersistedIsDurable, TypeOK
  <2> QED
    BY <1>10, <2>1, <2>2, <2>3
       DEF Cancelled, ThreadServesHolder, RowInv, AtMostOneCall, Unconnected
<1>11. CASE RunInsert \/ RunCommit
  <2> DEFINE t == Head(thread).trace
  <2>1. PICK call \in {"insert", "commit"} :
          /\ Runs(call)
          /\ UNCHANGED <<connection, lock>>
          /\ call = "insert" => RunInsert
          /\ call = "commit" => RunCommit
    BY <1>11 DEF RunInsert, RunCommit
  <2>2. /\ thread # <<>> /\ Head(thread) = thread[1] /\ Head(thread) \in Calls
        /\ Head(thread).call = call /\ 1 \in 1 .. Len(thread)
        /\ thread' \in Seq(Calls) /\ Len(thread') = Len(thread) - 1
        /\ \A i \in 1 .. Len(thread') : thread'[i] = thread[i + 1] /\ i + 1 \in 1 .. Len(thread)
        /\ Len(thread) = 1 => thread' = <<>>
    BY <2>1, RunsSeq DEF TypeOK
  <2>3. t \in Traces
    BY <2>2 DEF Calls
  <2>4. PICK to \in {"inserted", "committed", "raising"} :
          LET from == IF call = "insert" THEN "inserting" ELSE "committing"
          IN  /\ save' = [save EXCEPT ![t] = IF @ = from THEN to ELSE @]
              /\ to = "inserted" => call = "insert" /\ open' = open \cup {t} /\ table' = table
              /\ to = "committed" => call = "commit" /\ open' = {} /\ table' = table \cup open
              /\ to = "raising" => open' \in {open, {}} /\ table' = table
    BY <2>1 DEF RunInsert, RunCommit, Fails, Answer
  <2>5. TypeOK'
    BY <2>1, <2>2, <2>3, <2>4 DEF TypeOK
  <2>6. connection = "open" =>
          /\ thread' = <<>> /\ lock = t
          /\ save[t] = IF call = "insert" THEN "inserting" ELSE "committing"
    BY <2>2, <2>3, RepositoryAssumption DEF ThreadServesHolder, TypeOK
  <2>7. ThreadServesHolder'
    BY <2>1, <2>3, <2>4, <2>6 DEF ThreadServesHolder, TypeOK
  <2>8. RowInv'
    BY <2>1, <2>3, <2>4, <2>6 DEF RowInv, TypeOK
  <2>9. StrayCalls'
    <3> SUFFICES ASSUME NEW i \in 1 .. Len(thread')
                 PROVE  /\ thread'[i].call = "insert" =>
                             save'[thread'[i].trace] \in {"inserting", "cancelled"}
                        /\ thread'[i].call = "close" => connection' \in {"closing", "closed"}
      BY DEF StrayCalls
    <3>1. /\ i + 1 \in 1 .. Len(thread) /\ thread'[i] = thread[i + 1]
          /\ thread[i + 1] \in Calls
      BY <2>2 DEF TypeOK
    <3>2. /\ thread'[i].call = "insert" =>
               /\ thread'[i].trace \in Traces
               /\ save[thread'[i].trace] \in {"inserting", "cancelled"}
          /\ thread'[i].call = "close" => connection \in {"closing", "closed"}
      BY <3>1 DEF StrayCalls, Calls
    <3>3. \A u \in Traces : save[u] \notin Active
      BY <2>2, <3>1 DEF AtMostOneCall, TypeOK
    <3> QED
      BY <2>1, <2>3, <2>4, <3>1, <3>2, <3>3 DEF TypeOK
  <2>10. Unconnected'
    BY <2>1, <2>2 DEF Unconnected
  <2>11. SerialWrites'
    BY <2>1, <2>2, <2>3, <2>4 DEF SerialWrites, StrayCalls, TypeOK
  <2>12. PersistedIsDurable'
    BY <2>3, <2>4 DEF PersistedIsDurable, TypeOK
  <2>13. AtMostOneCall'
    BY <2>1, <2>2, <2>3, <2>4 DEF AtMostOneCall, TypeOK
  <2> QED
    BY <2>5, <2>7, <2>8, <2>9, <2>10, <2>11, <2>12, <2>13
<1>12. CASE RunClose
  <2>1. connection' = "closed" /\ open' = {} /\ UNCHANGED <<save, lock, table>>
    BY <1>12 DEF RunClose
  <2>2. /\ thread' \in Seq(Calls) /\ Len(thread') = Len(thread) - 1
        /\ \A i \in 1 .. Len(thread') : thread'[i] = thread[i + 1] /\ i + 1 \in 1 .. Len(thread)
    BY <1>12, RunsSeq DEF RunClose, TypeOK
  <2>3. TypeOK' /\ StrayCalls'
    BY <2>1, <2>2 DEF TypeOK, StrayCalls
  <2>4. \A t \in Traces : save[t] \notin Active
    BY <1>12, RunsSeq DEF RunClose, StrayCalls, AtMostOneCall, TypeOK
  <2> QED
    BY <2>1, <2>3, <2>4
       DEF ThreadServesHolder, RowInv, AtMostOneCall, Unconnected, SerialWrites, PersistedIsDurable
<1>13. CASE UNCHANGED vars
  BY <1>13
     DEF vars, TypeOK, ThreadServesHolder, RowInv, StrayCalls, AtMostOneCall, Unconnected,
         SerialWrites, PersistedIsDurable
<1> QED
  BY <1>1, <1>2, <1>3, <1>4, <1>5, <1>6, <1>7, <1>8, <1>9, <1>10, <1>11, <1>12, <1>13
     DEF Next, SaveStep, ThreadStep

-----------------------------------------------------------------------------
\* The repository's inductive invariant holds in every reachable state.
THEOREM RepositoryInvariant == SafeSpec => []RepositoryInv
BY RepositoryInit, RepositoryStep, PTL DEF SafeSpec

\* Every variable keeps its type, and the lock has one holder at most.
THEOREM RepositoryTypeOK == SafeSpec => []TypeOK
<1>1. RepositoryInv => TypeOK
  BY DEF RepositoryInv
<1> QED
  BY <1>1, RepositoryInvariant, PTL

\* A trace reported as persisted is in the file, across failures of other
\* saves, shutdowns and crashes.
THEOREM AcknowledgedIsDurable == SafeSpec => []PersistedIsDurable
<1>1. RepositoryInv => PersistedIsDurable
  BY DEF RepositoryInv
<1> QED
  BY <1>1, RepositoryInvariant, PTL

\* The lock keeps writers apart.
THEOREM WritersAreSerial == SafeSpec => []SerialWrites
<1>1. RepositoryInv => SerialWrites
  BY DEF RepositoryInv
<1> QED
  BY <1>1, RepositoryInvariant, PTL

-----------------------------------------------------------------------------
\* The repository as a trace store.

\* The store's variable, as the repository has it.
req == [t \in Traces |-> RequestOf(save[t])]

LEMMA RefinementInit == Init => Store!Init
BY DEF Init, Store!Init, RequestOf

\* A step that moves one save along without settling it.
LEMMA StoreStutters ==
    ASSUME NEW t \in Traces, NEW s, save' = [save EXCEPT ![t] = s], TypeOK,
           RequestOf(s) = RequestOf(save[t]), table' = table
    PROVE  UNCHANGED Store!storeVars
<1>1. \A u \in Traces : RequestOf(save'[u]) = RequestOf(save[u])
  BY DEF TypeOK
<1> QED
  BY <1>1 DEF Store!storeVars

\* A step that gives one save up.
LEMMA StoreGivesUp ==
    ASSUME NEW t \in Traces, NEW s, save' = [save EXCEPT ![t] = s], TypeOK,
           RequestOf(save[t]) \in {"new", "asked"}, RequestOf(s) = "givenUp",
           table' = table
    PROVE  Store!GiveUp
<1>1. \A u \in Traces :
        RequestOf(save'[u]) = IF u \in {t} THEN "givenUp" ELSE RequestOf(save[u])
  BY DEF TypeOK
<1>2. {t} \in SUBSET {u \in Traces : req[u] \in {"new", "asked"}}
  BY DEF req
<1> QED
  BY <1>1, <1>2 DEF Store!GiveUp, req

LEMMA RefinementStep == RepositoryInv /\ [Next]_vars => [Store!Next]_Store!storeVars
<1> SUFFICES ASSUME RepositoryInv, [Next]_vars PROVE [Store!Next]_Store!storeVars
  OBVIOUS
<1>1. TypeOK /\ SerialWrites /\ RowInv
  BY DEF RepositoryInv
<1>2. CASE UNCHANGED <<save, table>>
  BY <1>2 DEF Store!storeVars
<1>3. CASE Crash
  <2> DEFINE S == {t \in Traces : save[t] \in Active}
  <2>1. S \in SUBSET {t \in Traces : req[t] \in {"new", "asked"}}
    BY DEF req, RequestOf
  <2>2. \A t \in Traces :
          RequestOf(save'[t]) = IF t \in S THEN "givenUp" ELSE RequestOf(save[t])
    BY <1>1, <1>3 DEF Crash, RequestOf, TypeOK
  <2>3. Store!GiveUp
    BY <1>3, <2>1, <2>2 DEF Store!GiveUp, Crash, req
  <2> QED
    BY <2>3 DEF Store!Next
<1>4. ASSUME NEW t \in Traces, Skip(t) \/ Save(t) \/ SaveStep(t)
      PROVE  [Store!Next]_Store!storeVars
  <2>1. PICK s \in {"inserting", "waiting", "committing"} \cup Over :
          /\ save' = [save EXCEPT ![t] = s]
          /\ table' = table
          /\ s \in {"inserting", "waiting"} => save[t] \in {"new", "waiting"}
          /\ s = "committing" => save[t] = "inserted"
          /\ s = "persisted" => save[t] = "committed" /\ connection = "open"
          /\ s \in {"failed", "cancelled", "skipped"} => save[t] \in {"new"} \cup Active
          /\ s # "crashed"
    BY <1>4
       DEF Skip, Save, SaveStep, Acquire, Insert, Inserted, Committed, Raised, Returns, Cancelled
  <2>2. CASE s \in {"inserting", "waiting", "committing"} /\ save[t] # "new"
    <3>1. RequestOf(s) = RequestOf(save[t])
      BY <2>1, <2>2 DEF RequestOf
    <3> QED
      BY <1>1, <2>1, <3>1, StoreStutters
  <2>3. CASE s \in {"inserting", "waiting"} /\ save[t] = "new"
    <3>1. /\ \A u \in Traces : RequestOf(save'[u]) = IF u = t THEN "asked" ELSE RequestOf(save[u])
          /\ RequestOf(save[t]) = "new"
      BY <1>1, <2>1, <2>3 DEF RequestOf, TypeOK
    <3>2. Store!Ask(t)
      BY <2>1, <3>1 DEF Store!Ask
    <3> QED
      BY <3>2 DEF Store!Next
  <2>4. CASE s = "persisted"
    <3>1. /\ \A u \in Traces :
               RequestOf(save'[u]) = IF u = t THEN "acknowledged" ELSE RequestOf(save[u])
          /\ RequestOf(save[t]) = "asked"
          /\ t \in table
      BY <1>1, <2>1, <2>4 DEF RequestOf, TypeOK, RowInv
    <3>2. Store!Acknowledge(t)
      BY <2>1, <3>1 DEF Store!Acknowledge
    <3> QED
      BY <3>2 DEF Store!Next
  <2>5. CASE s \in {"failed", "cancelled", "skipped"}
    <3>1. RequestOf(save[t]) \in {"new", "asked"} /\ RequestOf(s) = "givenUp"
      BY <2>1, <2>5 DEF RequestOf
    <3>2. Store!GiveUp
      BY <1>1, <2>1, <3>1, StoreGivesUp
    <3> QED
      BY <3>2 DEF Store!Next
  <2> QED
    BY <2>1, <2>2, <2>3, <2>4, <2>5
<1>5. CASE RunInsert \/ RunCommit
  <2>1. \A u \in Traces : RequestOf(save'[u]) = RequestOf(save[u])
    BY <1>1, <1>5 DEF RunInsert, RunCommit, Fails, Answer, RequestOf, TypeOK
  <2>2. open \in SUBSET {u \in Traces : req[u] # "new"}
    BY <1>1 DEF SerialWrites, TypeOK, req, RequestOf
  <2>3. table' = table \/ table' = table \cup open
    BY <1>5 DEF RunInsert, RunCommit, Fails
  <2>4. UNCHANGED Store!storeVars \/ Store!Store
    BY <2>1, <2>2, <2>3 DEF Store!Store, Store!storeVars, req
  <2> QED
    BY <2>4 DEF Store!Next
<1> QED
  BY <1>2, <1>3, <1>4, <1>5
     DEF Next, Initialize, Stop, Close, ThreadStep, RunClose, vars

\* The repository implements the trace store: the safety part of
\* ImplementsStore.
THEOREM RepositoryRefinesStore == SafeSpec => Store!SafeStore
BY RefinementInit, RefinementStep, RepositoryInvariant, PTL DEF SafeSpec, Store!SafeStore

-----------------------------------------------------------------------------
\* What a save waits for.

\* The call the thread has for save t.
CallOf(t, call) == \E i \in 1 .. Len(thread) : thread[i] = [call |-> call, trace |-> t]

\* A save that is not over has a connection and, until stop(), someone to wait
\* for: the thread has its call, or it can run, or another save, of which the
\* same is true, holds the lock.  After stop() each can be cancelled.  So what
\* SavesEnd needs of the scheduler is fairness and nothing more.
THEOREM NoSaveIsStuck ==
  SafeSpec =>
    [](\A t \in Traces :
         save[t] \in Active =>
           /\ connection \in {"open", "stopping"}
           /\ connection = "open" =>
                \/ save[t] = "waiting" /\ (lock = NoTrace \/ save[lock] \in Holding)
                \/ save[t] = "inserting" /\ CallOf(t, "insert")
                \/ save[t] = "committing" /\ CallOf(t, "commit")
                \/ save[t] \in {"inserted", "committed", "raising"})
<1> DEFINE GoesOn(t) ==
      /\ connection \in {"open", "stopping"}
      /\ connection = "open" =>
           \/ save[t] = "waiting" /\ (lock = NoTrace \/ save[lock] \in Holding)
           \/ save[t] = "inserting" /\ CallOf(t, "insert")
           \/ save[t] = "committing" /\ CallOf(t, "commit")
           \/ save[t] \in {"inserted", "committed", "raising"}
<1>1. RepositoryInv => \A t \in Traces : save[t] \in Active => GoesOn(t)
  <2> SUFFICES ASSUME RepositoryInv, NEW t \in Traces, save[t] \in Active PROVE GoesOn(t)
    OBVIOUS
  <2>1. connection \in {"open", "stopping"}
    BY DEF RepositoryInv, AtMostOneCall
  <2>2. ASSUME connection = "open", save[t] = "waiting"
        PROVE  lock = NoTrace \/ save[lock] \in Holding
    BY <2>2 DEF RepositoryInv, TypeOK
  <2>3. ASSUME connection = "open", NEW s \in {"inserting", "committing"}, save[t] = s
        PROVE  CallOf(t, IF s = "inserting" THEN "insert" ELSE "commit")
    <3>1. thread # <<>> /\ Head(thread).trace = lock /\ Len(thread) = 1
          /\ Head(thread).call = IF s = "inserting" THEN "insert" ELSE "commit"
      BY <2>3 DEF RepositoryInv, ThreadServesHolder
    <3>2. lock = t
      BY <2>3 DEF RepositoryInv, TypeOK
    <3>3. thread[1] \in Calls /\ thread[1] = Head(thread) /\ 1 \in 1 .. Len(thread)
      BY <3>1 DEF RepositoryInv, TypeOK
    <3>4. thread[1] = [call |-> thread[1].call, trace |-> thread[1].trace]
      BY <3>3 DEF Calls
    <3>5. thread[1] = [call |-> IF s = "inserting" THEN "insert" ELSE "commit", trace |-> t]
      BY <3>1, <3>2, <3>3, <3>4, Zenon
    <3> QED
      BY <3>3, <3>5, Zenon DEF CallOf
  <2>4. save[t] \in {"waiting", "inserting", "inserted", "committing", "committed", "raising"}
    OBVIOUS
  <2> QED
    BY <2>1, <2>2, <2>3, <2>4
<1> QED
  BY <1>1, RepositoryInvariant, PTL

\* What is in the file stays there: no step deletes a row, and a commit adds
\* only rows whose INSERT has run.
THEOREM TableOnlyGrows ==
  SafeSpec => [][table \subseteq table' /\ table' \subseteq table \cup open]_vars
<1>1. [Next]_vars => [table \subseteq table' /\ table' \subseteq table \cup open]_vars
  BY DEF Next, SaveStep, ThreadStep, Initialize, Stop, Close, Crash, Skip, Save, Acquire,
         Inserted, Committed, Raised, Returns, Cancelled, RunInsert, RunCommit, RunClose, Fails
<1> QED
  BY <1>1, PTL DEF SafeSpec

-----------------------------------------------------------------------------
\* Whose rows the file has.

\* While a save holds the lock, also after stop(), the thread's call is its own,
\* and the one it waits for.
HolderCalls ==
    connection \in {"open", "stopping"} /\ lock # NoTrace =>
        \A i \in 1 .. Len(thread) :
            /\ thread[i].trace = lock
            /\ save[lock] = IF thread[i].call = "insert" THEN "inserting" ELSE "committing"

\* What a row in the file says of its save.
RowsAreCommitted ==
    \A t \in table : save[t] \in {"committed", "persisted", "failed", "cancelled", "crashed"}

LEMMA HolderCallsOpen ==
  ASSUME RepositoryInv, connection = "open"
  PROVE  HolderCalls
<1>1. Len(thread) <= 1 /\ Len(thread) \in Nat
      /\ \A i \in 1 .. Len(thread) : thread[i] \in Calls
  BY DEF RepositoryInv, AtMostOneCall, TypeOK
<1> SUFFICES ASSUME lock # NoTrace, NEW i \in 1 .. Len(thread)
             PROVE  /\ thread[i].trace = lock
                    /\ save[lock] = IF thread[i].call = "insert" THEN "inserting"
                                    ELSE "committing"
  BY DEF HolderCalls
<1>2. i = 1 /\ thread # <<>> /\ Head(thread) = thread[1] /\ lock \in Traces
  BY <1>1 DEF RepositoryInv, TypeOK
<1>3. save[lock] \in {"inserting", "committing"} /\ thread[1].trace = lock
  BY <1>2 DEF RepositoryInv, TypeOK, ThreadServesHolder
<1> QED
  BY <1>2, <1>3 DEF RepositoryInv, ThreadServesHolder

LEMMA HolderCallsStep ==
  ASSUME RepositoryInv, HolderCalls, [Next]_vars, RepositoryInv'
  PROVE  HolderCalls'
<1>1. CASE connection' = "open"
  <2>1. Len(thread') <= 1 /\ Len(thread') \in Nat
        /\ \A i \in 1 .. Len(thread') : thread'[i] \in Calls
    BY <1>1 DEF RepositoryInv, AtMostOneCall, TypeOK
  <2> SUFFICES ASSUME lock' # NoTrace, NEW i \in 1 .. Len(thread')
               PROVE  /\ thread'[i].trace = lock'
                      /\ save'[lock'] = IF thread'[i].call = "insert" THEN "inserting"
                                        ELSE "committing"
    BY DEF HolderCalls
  <2>2. i = 1 /\ thread' # <<>> /\ Head(thread') = thread'[1] /\ lock' \in Traces
    BY <2>1 DEF RepositoryInv, TypeOK
  <2>3. save'[lock'] \in {"inserting", "committing"} /\ thread'[1].trace = lock'
    BY <1>1, <2>2 DEF RepositoryInv, TypeOK, ThreadServesHolder
  <2> QED
    BY <1>1, <2>2, <2>3 DEF RepositoryInv, ThreadServesHolder
<1>2. CASE connection' = "stopping"
  <2>1. CASE Stop
    BY <2>1, HolderCallsOpen DEF Stop, HolderCalls
  <2>2. ASSUME NEW t \in Traces, Cancelled(t) PROVE HolderCalls'
    BY <2>2, RepositoryAssumption DEF Cancelled, HolderCalls, RepositoryInv, TypeOK
  <2>3. CASE RunInsert \/ RunCommit
    <3>1. connection = "stopping" /\ \E call : Runs(call)
      BY <1>2, <2>3 DEF RunInsert, RunCommit
    <3>2. Len(thread') = Len(thread) - 1 /\ Len(thread) <= 1 /\ Len(thread) \in Nat
      BY <3>1, RunsSeq DEF RepositoryInv, AtMostOneCall, TypeOK
    <3> QED
      BY <3>2 DEF HolderCalls
  <2>4. CASE UNCHANGED vars
    BY <2>4 DEF vars, HolderCalls
  <2> QED
    BY <1>2, <2>1, <2>2, <2>3, <2>4
       DEF Next, SaveStep, ThreadStep, Initialize, Close, Crash, Skip, Save, Acquire, Inserted,
           Committed, Raised, Returns, RunClose
<1>3. CASE connection' \notin {"open", "stopping"}
  BY <1>3 DEF HolderCalls
<1> QED
  BY <1>1, <1>2, <1>3

LEMMA RowsStep ==
  ASSUME RepositoryInv, HolderCalls, RowsAreCommitted, [Next]_vars
  PROVE  RowsAreCommitted'
<1> USE DEF RepositoryInv, TypeOK, RowsAreCommitted
<1>1. CASE Initialize \/ Stop \/ Close \/ RunClose \/ UNCHANGED vars
  BY <1>1 DEF Initialize, Stop, Close, RunClose, vars
<1>2. CASE Crash
  BY <1>2 DEF Crash
<1>3. ASSUME NEW t \in Traces,
             Skip(t) \/ Save(t) \/ Acquire(t) \/ Inserted(t) \/ Committed(t) \/ Raised(t)
               \/ Cancelled(t)
      PROVE  RowsAreCommitted'
  BY <1>3 DEF Skip, Save, Acquire, Insert, Inserted, Committed, Raised, Returns, Cancelled
<1>4. CASE RunInsert
  BY <1>4 DEF RunInsert, Answer, Fails
<1>5. CASE RunCommit
  <2>1. PICK t : t = Head(thread).trace
    OBVIOUS
  <2>2. /\ Head(thread) = thread[1] /\ 1 \in 1 .. Len(thread)
        /\ thread[1].call = "commit" /\ thread[1] \in Calls
    BY <1>5, RunsSeq DEF RunCommit
  <2>3. t \in Traces
    BY <2>1, <2>2 DEF Calls
  <2>4. CASE /\ save' = [save EXCEPT ![t] = IF @ = "committing" THEN "committed" ELSE @]
             /\ table' = table \cup open
    <3> SUFFICES ASSUME NEW u \in table'
                 PROVE  save'[u] \in {"committed", "persisted", "failed", "cancelled", "crashed"}
      OBVIOUS
    <3>1. CASE u \in table \/ save[u] \in {"failed", "cancelled"}
      BY <2>3, <2>4, <3>1
    <3>2. CASE u \notin table /\ save[u] \notin {"failed", "cancelled"}
      <4>1. u \in open /\ u \in Traces /\ u = lock
        BY <2>4, <3>2 DEF SerialWrites
      <4>2. connection \in {"open", "stopping"}
        BY <4>1 DEF AtMostOneCall
      <4>3. t = u /\ save[u] = "committing"
        BY <2>1, <2>2, <4>1, <4>2, RepositoryAssumption DEF HolderCalls
      <4> QED
        BY <2>3, <2>4, <4>3
    <3> QED
      BY <3>1, <3>2
  <2>5. CASE save' = [save EXCEPT ![t] = IF @ = "committing" THEN "raising" ELSE @]
             /\ table' = table
    BY <2>3, <2>5
  <2> QED
    BY <1>5, <2>1, <2>4, <2>5 DEF RunCommit, Answer, Fails
<1> QED
  BY <1>1, <1>2, <1>3, <1>4, <1>5 DEF Next, SaveStep, ThreadStep

\* No row in the file is of a save that is still on its way or was never begun:
\* it is of one that has committed, or of one that gave up (whose row another's
\* commit may have taken along), also when a shutdown has left the thread with
\* calls nobody waits for.
THEOREM RowsAreOfSavesThatWrote == SafeSpec => []RowsAreCommitted
<1>1. Init => RepositoryInv /\ HolderCalls /\ RowsAreCommitted
  BY RepositoryInit DEF Init, HolderCalls, RowsAreCommitted
<1>2. RepositoryInv /\ HolderCalls /\ RowsAreCommitted /\ [Next]_vars
        => (RepositoryInv /\ HolderCalls /\ RowsAreCommitted)'
  BY RepositoryStep, HolderCallsStep, RowsStep
<1> QED
  BY <1>1, <1>2, PTL DEF SafeSpec
=============================================================================

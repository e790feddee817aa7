-------------------------- MODULE TraceRepository ---------------------------
(***************************************************************************)
(* The trace repository (app/repositories/trace_repository.py): one SQLite *)
(* connection shared by the pool's workers.  aiosqlite runs the            *)
(* connection's calls in order in a thread of its own; a save hands it two *)
(* of them, INSERT and COMMIT, and waits for each inside an asyncio.Lock.  *)
(* A cancelled save gives up the lock, but not the call it already handed  *)
(* over.  The process may crash at any time and be started again on the    *)
(* same file.                                                              *)
(***************************************************************************)
EXTENDS Sequences, FiniteSets

CONSTANTS
    Traces,    \* the traces the workers may save
    NoTrace    \* the holder of a free lock

ASSUME RepositoryAssumption == NoTrace \notin Traces

VARIABLES
    connection,  \* where the repository's connection is
    save,        \* where each call of save_trace() is
    lock,        \* the save that holds the lock
    thread,      \* the calls handed to the connection's thread
    open,        \* the rows inserted in the transaction that is open
    table        \* the rows committed to the file

vars == <<connection, save, lock, thread, open, table>>

Connections == {"none", "open", "stopping", "closing", "closed"}

Calls == [call : {"insert", "commit"}, trace : Traces]
            \cup [call : {"close"}, trace : {NoTrace}]

\* A save inside the lock waits for the thread (inserting, committing) or has
\* its answer and has yet to run (inserted, committed, raising).
Holding == {"inserting", "inserted", "committing", "committed", "raising"}
Active == Holding \cup {"waiting"}
Over == {"persisted", "failed", "cancelled", "skipped", "crashed"}

Init ==
    /\ connection = "none"
    /\ save = [t \in Traces |-> "new"]
    /\ lock = NoTrace
    /\ thread = <<>>
    /\ open = {}
    /\ table = {}

HandOver(call, t) == thread' = Append(thread, [call |-> call, trace |-> t])

\* save[t] takes the lock and hands its INSERT over.
Insert(t) ==
    /\ lock' = t
    /\ save' = [save EXCEPT ![t] = "inserting"]
    /\ HandOver("insert", t)

-----------------------------------------------------------------------------
\* The connection.

\* initialize(): connect, create the table if it is missing, commit.
Initialize ==
    /\ connection = "none"
    /\ connection' = "open"
    /\ UNCHANGED <<save, lock, thread, open, table>>

\* stop() cancels every worker, each inside its save or not: from here on a
\* save only gets to raise CancelledError, and none begins.
Stop ==
    /\ connection = "open"
    /\ connection' = "stopping"
    /\ UNCHANGED <<save, lock, thread, open, table>>

\* close(), called when stop() has seen every worker end.
Close ==
    /\ connection = "stopping"
    /\ \A t \in Traces : save[t] \notin Active
    /\ connection' = "closing"
    /\ HandOver("close", NoTrace)
    /\ UNCHANGED <<save, lock, open, table>>

\* The process dies, and the connection and its open transaction with it.
Crash ==
    /\ connection # "none"
    /\ connection' = "none"
    /\ save' = [t \in Traces |-> IF save[t] \in Active THEN "crashed" ELSE save[t]]
    /\ lock' = NoTrace
    /\ thread' = <<>>
    /\ open' = {}
    /\ UNCHANGED table

-----------------------------------------------------------------------------
\* save_trace().

\* No connection: the trace is skipped.
Skip(t) ==
    /\ save[t] = "new"
    /\ connection \in {"none", "closed"}
    /\ save' = [save EXCEPT ![t] = "skipped"]
    /\ UNCHANGED <<connection, lock, thread, open, table>>

\* (Variant: the connection is used without the lock.)
Save_NoLock(t) ==
    /\ save[t] = "new"
    /\ connection = "open"
    /\ Insert(t)
    /\ UNCHANGED <<connection, open, table>>

\* Something in the call's arguments cannot be serialized, or the save takes
\* the lock at once, or it joins those that wait for it.
Save(t) ==
    /\ save[t] = "new"
    /\ connection = "open"
    /\ \/ /\ save' = [save EXCEPT ![t] = "failed"]
          /\ UNCHANGED <<lock, thread>>
       \/ /\ lock = NoTrace
          /\ \A u \in Traces : save[u] # "waiting"
          /\ Insert(t)
       \/ /\ lock # NoTrace \/ \E u \in Traces : save[u] = "waiting"
          /\ save' = [save EXCEPT ![t] = "waiting"]
          /\ UNCHANGED <<lock, thread>>
    /\ UNCHANGED <<connection, open, table>>

Acquire(t) ==
    /\ save[t] = "waiting"
    /\ connection = "open"
    /\ lock = NoTrace
    /\ Insert(t)
    /\ UNCHANGED <<connection, open, table>>

\* (Variant: a save is done once its INSERT is.)
Inserted_NoCommit(t) ==
    /\ save[t] = "inserted"
    /\ connection = "open"
    /\ save' = [save EXCEPT ![t] = "persisted"]
    /\ lock' = NoTrace
    /\ UNCHANGED <<connection, thread, open, table>>

Inserted(t) ==
    /\ save[t] = "inserted"
    /\ connection = "open"
    /\ save' = [save EXCEPT ![t] = "committing"]
    /\ HandOver("commit", t)
    /\ UNCHANGED <<connection, lock, open, table>>

\* The save leaves the lock and returns.
Returns(t, outcome) ==
    /\ connection = "open"
    /\ save' = [save EXCEPT ![t] = outcome]
    /\ lock' = NoTrace
    /\ UNCHANGED <<connection, thread, open, table>>

Committed(t) == save[t] = "committed" /\ Returns(t, "persisted")

\* (Variant: the lock is released on the way out of the try block only.)
Raised_KeepsLock(t) ==
    /\ save[t] = "raising"
    /\ connection = "open"
    /\ save' = [save EXCEPT ![t] = "failed"]
    /\ UNCHANGED <<connection, lock, thread, open, table>>

\* The exception is logged and swallowed; nothing rolls the transaction back.
Raised(t) == save[t] = "raising" /\ Returns(t, "failed")

\* (Variant: the lock is released by the save's own return only.)
Cancelled_KeepsLock(t) ==
    /\ save[t] \in Active
    /\ connection = "stopping"
    /\ save' = [save EXCEPT ![t] = "cancelled"]
    /\ UNCHANGED <<connection, lock, thread, open, table>>

\* CancelledError passes the except clause; async with releases the lock.
Cancelled(t) ==
    /\ save[t] \in Active
    /\ connection = "stopping"
    /\ save' = [save EXCEPT ![t] = "cancelled"]
    /\ lock' = IF lock = t THEN NoTrace ELSE lock
    /\ UNCHANGED <<connection, thread, open, table>>

-----------------------------------------------------------------------------
\* The connection's thread.

\* The thread answers the save that made the call, if it still waits.
Answer(t, from, to) ==
    save' = [save EXCEPT ![t] = IF @ = from THEN to ELSE @]

Runs(call) ==
    /\ thread # <<>>
    /\ Head(thread).call = call
    /\ thread' = Tail(thread)

\* A statement that fails leaves the transaction open, or (a full disk, an
\* I/O error) SQLite has rolled it back.
Fails(t, from) ==
    /\ Answer(t, from, "raising")
    /\ open' \in {open, {}}
    /\ UNCHANGED table

RunInsert ==
    /\ Runs("insert")
    /\ LET t == Head(thread).trace
       IN  \/ /\ Answer(t, "inserting", "inserted")
              /\ open' = open \cup {t}
              /\ UNCHANGED table
           \/ Fails(t, "inserting")
    /\ UNCHANGED <<connection, lock>>

\* (Variant: an error of the commit is not reported.)
RunCommit_Silent ==
    /\ Runs("commit")
    /\ Answer(Head(thread).trace, "committing", "committed")
    /\ \/ table' = table \cup open /\ open' = {}
       \/ open' \in {open, {}} /\ UNCHANGED table
    /\ UNCHANGED <<connection, lock>>

\* The commit takes every row of the open transaction with it.
RunCommit ==
    /\ Runs("commit")
    /\ LET t == Head(thread).trace
       IN  \/ /\ Answer(t, "committing", "committed")
              /\ table' = table \cup open
              /\ open' = {}
           \/ Fails(t, "committing")
    /\ UNCHANGED <<connection, lock>>

\* Closing the connection drops what was not committed.
RunClose ==
    /\ Runs("close")
    /\ connection' = "closed"
    /\ open' = {}
    /\ UNCHANGED <<save, lock, table>>

-----------------------------------------------------------------------------

SaveStep(t) == Acquire(t) \/ Inserted(t) \/ Committed(t) \/ Raised(t) \/ Cancelled(t)

ThreadStep == RunInsert \/ RunCommit \/ RunClose

Next ==
    \/ Initialize \/ Stop \/ Close \/ Crash
    \/ \E t \in Traces : Skip(t) \/ Save(t) \/ SaveStep(t)
    \/ ThreadStep

SafeSpec == Init /\ [][Next]_vars

\* A task that is ready runs, the thread works through its calls (sqlite3
\* waits for a locked file no longer than its timeout), and a shutdown that
\* has begun goes on.
Fairness ==
    /\ \A t \in Traces : WF_vars(SaveStep(t))
    /\ WF_vars(ThreadStep)
    /\ WF_vars(Close)

Spec == SafeSpec /\ Fairness

-----------------------------------------------------------------------------
\* The properties.

\* Every variable has its type, and the lock is held by the one save that is
\* inside it, or free.
TypeOK ==
    /\ connection \in Connections
    /\ save \in [Traces -> {"new"} \cup Active \cup Over]
    /\ lock \in Traces \cup {NoTrace}
    /\ \A t \in Traces : save[t] \in Holding <=> lock = t
    /\ thread \in Seq(Calls)
    /\ open \subseteq Traces
    /\ table \subseteq Traces

\* A trace whose save logged trace.persisted is in the file, and survives any
\* crash: neither another save's failure nor a rollback takes it back.
PersistedIsDurable == \A t \in Traces : save[t] = "persisted" => t \in table

\* The lock keeps writers apart ("SQLite has a single writer"): what a commit
\* takes with it besides the row of its own save are rows that failed or
\* cancelled saves left behind, never half of a save that is going on.
SerialWrites ==
    \A t \in open : t = lock \/ save[t] \in {"failed", "cancelled"}

\* No save hangs: neither a failure nor a cancellation leaves the lock behind
\* for the others to wait on.
SavesEnd == \A t \in Traces : save[t] \in Active ~> save[t] \in Over

\* The repository is a trace store.
RequestOf(s) ==
    IF s = "new" THEN "new"
    ELSE IF s \in Active THEN "asked"
    ELSE IF s = "persisted" THEN "acknowledged"
    ELSE "givenUp"

Store == INSTANCE TraceStore WITH
             request <- [t \in Traces |-> RequestOf(save[t])],
             stored <- table
ImplementsStore == Store!Spec
=============================================================================

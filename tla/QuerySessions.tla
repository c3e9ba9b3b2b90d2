--------------------------- MODULE QuerySessions ---------------------------
(***************************************************************************)
(* GridletQuerySessionManager: pinned query sessions, each one holding a   *)
(* database connection between requests.  HTTP requests, the one-minute    *)
(* sweeper and the disposal of the manager run concurrently on the thread  *)
(* pool; the model interleaves them at every await and between accesses to *)
(* the shared dictionary, a session's gate and its connection.             *)
(*                                                                         *)
(* Time is abstracted: Expire(s) lets the idle timeout of a session pass   *)
(* at any moment, and stamping LastUsedAt undoes it.  A session id (128    *)
(* random bits) stands for one connection, so Session bounds how many      *)
(* sessions a behaviour opens.                                             *)
(***************************************************************************)
EXTENDS Naturals, FiniteSets

CONSTANTS Session,    \* the session ids a behaviour can use up
          Request,    \* the tasks serving HTTP requests, one at a time each
          Sweeper,    \* the background service that calls SweepAsync
          Disposer,   \* the container disposing the manager at shutdown
          OwnerOf,    \* the user each request task serves
          Uses,       \* the uses of a session the requests make
          Limit,      \* Limits.MaxQuerySessions
          None        \* no process, no session, no owner

Process == Request \cup {Sweeper, Disposer}

ASSUME SessionsAssumption ==
    /\ IsFiniteSet(Request) /\ IsFiniteSet(Session)
    /\ Sweeper \notin Request /\ Disposer \notin Request /\ Sweeper # Disposer
    /\ None \notin Process /\ None \notin Session
    /\ \A r \in Request : OwnerOf[r] # None
    /\ Uses \subseteq {"get", "stream", "command"}
    /\ Limit \in Nat \ {0}

VARIABLES
    sessions,     \* the ids in the concurrent dictionary
    disposed,     \* the manager's disposed flag
    gate,         \* the process inside each Session.Gate, None if it is free
    state,        \* the rest of each session
    missing,      \* history: sessions reported to their owner as not found
    task          \* each process: its next step, operation, session, loop

vars == <<sessions, disposed, gate, state, missing, task>>

\* recorded: the Transaction callers are shown, against txn, the engine's;
\* unread: history, the last attempt to read the status, or the last transaction
\* command, failed; expired: ExpiresAt(session) <= now.
SessionState ==
    [owner : {OwnerOf[r] : r \in Request} \cup {None},
     conn : {"none", "open", "broken", "disposed"},
     txn : BOOLEAN, recorded : BOOLEAN, unread : BOOLEAN, expired : BOOLEAN]

Sweeps == {"open", "sweep"}

Task ==
    [at : {"idle", "sweep", "take", "decide", "recheck", "open", "lease", "run",
           "settle", "after", "rollback", "dispose", "discard", "shut"},
     op : Uses \cup Sweeps \cup {"none", "close", "shutdown"},
     on : Session \cup {None},
     rest : SUBSET Session]

Unopened == [owner |-> None, conn |-> "none", txn |-> FALSE,
             recorded |-> FALSE, unread |-> FALSE, expired |-> FALSE]
Idle == [at |-> "idle", op |-> "none", on |-> None, rest |-> {}]

\* The step, the operation and the session of a process go together.
Coherent(p) ==
    LET t == task[p]
    IN /\ t.at = "idle" => t = Idle
       /\ t.at = "open" => t.op = "open"
       /\ t.at = "sweep" => t.op \in Sweeps
       /\ t.at \in {"take", "decide"} => t.op \in Uses \cup Sweeps
       /\ t.at \in {"recheck", "lease", "run", "settle", "after", "discard"} => t.op \in Uses
       /\ t.at \in {"rollback", "dispose"} => t.op # "none"
       /\ t.at = "shut" => t.op = "shutdown"
       /\ t.at \notin {"idle", "sweep", "open", "shut"} => t.on \in Session
       /\ t.op \in Uses \cup {"open", "close"} => p \in Request
       /\ t.op = "shutdown" => p = Disposer

TypeOK ==
    /\ sessions \in SUBSET Session
    /\ disposed \in BOOLEAN
    /\ gate \in [Session -> Process \cup {None}]
    /\ state \in [Session -> SessionState]
    /\ missing \in SUBSET Session
    /\ task \in [Process -> Task]
    /\ \A p \in Process : Coherent(p)

Init ==
    /\ sessions = {}
    /\ disposed = FALSE
    /\ gate = [s \in Session |-> None]
    /\ state = [s \in Session |-> Unopened]
    /\ missing = {}
    /\ task = [p \in Process |-> Idle]

-----------------------------------------------------------------------------
(* Control flow of one process *)

At(p, label) == task[p].at = label
Goto(p, label) == task' = [task EXCEPT ![p].at = label]
Begin(p, label, operation, s, rest) ==
    /\ At(p, "idle")
    /\ task' = [task EXCEPT ![p] = [at |-> label, op |-> operation, on |-> s, rest |-> rest]]
FinishKeepingTarget(p) == Goto(p, "idle")   \* mutated: the request's data stays
Finish(p) == task' = [task EXCEPT ![p] = Idle]

\* Where TryCloseIdleAsync returns to: the loop of SweepAsync, or RequireAsync.
Return(p) == Goto(p, IF task[p].op \in Sweeps THEN "sweep" ELSE "recheck")

\* Gate.WaitAsync(0), which never waits, and Gate.Release().
GateFree(s) == gate[s] = None
Enter(p, s) == gate' = [gate EXCEPT ![s] = p]
Release(s) == gate' = [gate EXCEPT ![s] = None]

Live(s) == state[s].conn = "open"

-----------------------------------------------------------------------------
(* OpenAsync *)

BeginOpen(p) ==
    /\ ~disposed
    /\ Begin(p, "sweep", "open", None, sessions)
    /\ UNCHANGED <<sessions, disposed, gate, state, missing>>

\* Mutated: one too many.
CheckLimitOffByOne(p) ==
    /\ At(p, "sweep") /\ task[p].op = "open" /\ task[p].rest = {}
    /\ IF Cardinality(sessions) > Limit THEN Finish(p) ELSE Goto(p, "open")
    /\ UNCHANGED <<sessions, disposed, gate, state, missing>>

\* After the sweep: the limit is checked before OpenSessionAsync is awaited.
CheckLimit(p) ==
    /\ At(p, "sweep") /\ task[p].op = "open" /\ task[p].rest = {}
    /\ IF Cardinality(sessions) >= Limit THEN Finish(p) ELSE Goto(p, "open")
    /\ UNCHANGED <<sessions, disposed, gate, state, missing>>

\* The connection is open: the new session goes into the dictionary.
FinishOpen(p) ==
    /\ At(p, "open")
    /\ \E s \in Session :
        /\ state[s] = Unopened
        /\ state' = [state EXCEPT ![s].owner = OwnerOf[p], ![s].conn = "open"]
        /\ sessions' = sessions \cup {s}
    /\ Finish(p)
    /\ UNCHANGED <<disposed, gate, missing>>

\* The provider could not connect, or the request was aborted meanwhile.
FailOpen(p) ==
    /\ At(p, "open")
    /\ Finish(p)
    /\ UNCHANGED <<sessions, disposed, gate, state, missing>>

-----------------------------------------------------------------------------
(* SweepAsync and TryCloseIdleAsync *)

BeginSweep ==
    /\ Begin(Sweeper, "sweep", "sweep", None, sessions)
    /\ UNCHANGED <<sessions, disposed, gate, state, missing>>

SweepNext(p) ==
    /\ At(p, "sweep")
    /\ \E s \in task[p].rest :
        \/ /\ state[s].expired
           /\ task' = [task EXCEPT ![p].at = "take", ![p].on = s, ![p].rest = @ \ {s}]
        \/ ~state[s].expired /\ task' = [task EXCEPT ![p].rest = @ \ {s}]
    /\ UNCHANGED <<sessions, disposed, gate, state, missing>>

EndSweep ==
    /\ At(Sweeper, "sweep") /\ task[Sweeper].rest = {}
    /\ Finish(Sweeper)
    /\ UNCHANGED <<sessions, disposed, gate, state, missing>>

\* Mutated: the sweep does not ask for the session's slot.
TakeIdleUnguarded(p) ==
    /\ At(p, "take")
    /\ Goto(p, "decide")
    /\ UNCHANGED <<sessions, disposed, gate, state, missing>>

\* A session that is running a statement is left alone.
TakeIdle(p) ==
    /\ At(p, "take")
    /\ IF GateFree(task[p].on)
       THEN Enter(p, task[p].on) /\ Goto(p, "decide")
       ELSE UNCHANGED gate /\ Return(p)
    /\ UNCHANGED <<sessions, disposed, state, missing>>

\* Mutated: no finally block releases the gate of a session used a moment ago.
DecideIdleKeepingGate(p) ==
    /\ At(p, "decide")
    /\ LET s == task[p].on
       IN IF state[s].expired /\ s \in sessions
          THEN sessions' = sessions \ {s} /\ Goto(p, "rollback")
          ELSE UNCHANGED sessions /\ Return(p)
    /\ UNCHANGED <<disposed, gate, state, missing>>

\* With the gate held the expiry is read again; the removal decides who closes.
DecideIdle(p) ==
    /\ At(p, "decide")
    /\ LET s == task[p].on
       IN IF state[s].expired /\ s \in sessions
          THEN sessions' = sessions \ {s} /\ Goto(p, "rollback") /\ UNCHANGED gate
          ELSE UNCHANGED sessions /\ Return(p) /\ Release(s)
    /\ UNCHANGED <<disposed, state, missing>>

-----------------------------------------------------------------------------
(* CloseAsync, and RollbackAndDisposeAsync for it and for the idle close *)

\* It takes no gate: it may remove a session that is running a statement.
BeginClose(p, s) ==
    /\ s \in sessions /\ state[s].owner = OwnerOf[p]
    /\ sessions' = sessions \ {s}
    /\ Begin(p, "rollback", "close", s, {})
    /\ UNCHANGED <<disposed, gate, state, missing>>

\* The rollback may fail or be cancelled; the exception is swallowed.
Rollback(p) ==
    /\ At(p, "rollback")
    /\ \/ Live(task[p].on) /\ state' = [state EXCEPT ![task[p].on].txn = FALSE]
       \/ UNCHANGED state
    /\ Goto(p, "dispose")
    /\ UNCHANGED <<sessions, disposed, gate, missing>>

\* Disposing the connection ends whatever transaction it still has.
Disconnect(s) == state' = [state EXCEPT ![s].conn = "disposed", ![s].txn = FALSE]

\* The idle close releases the gate it took; a use whose session had run out of
\* time is answered that there is none.
DisposeSession(p) ==
    /\ At(p, "dispose")
    /\ LET s == task[p].on
       IN /\ Disconnect(s)
          /\ IF gate[s] = p THEN Release(s) ELSE UNCHANGED gate
          /\ missing' = IF task[p].op \in Uses THEN missing \cup {s} ELSE missing
    /\ CASE task[p].op \in Sweeps -> Goto(p, "sweep")
         [] task[p].op = "shutdown" -> Goto(p, "shut")
         [] OTHER -> Finish(p)
    /\ UNCHANGED <<sessions, disposed>>

-----------------------------------------------------------------------------
(* RequireAsync and LeaseAsync, which every use of a session goes through *)

\* A session that is gone is not found, and neither is one somebody else owns
\* (which changes nothing).
BeginUse(p, use, s) ==
    /\ ~disposed
    /\ state[s].owner = OwnerOf[p]
    /\ IF s \in sessions
       THEN /\ Begin(p, IF state[s].expired THEN "take" ELSE "lease", use, s, {})
            /\ UNCHANGED missing
       ELSE At(p, "idle") /\ missing' = missing \cup {s} /\ UNCHANGED task
    /\ UNCHANGED <<sessions, disposed, gate, state>>

\* Mutated: a session that is expired but busy is declared missing.
RecheckNotFound(p) ==
    /\ At(p, "recheck")
    /\ Finish(p)
    /\ missing' = missing \cup {task[p].on}
    /\ UNCHANGED <<sessions, disposed, gate, state>>

\* The expired session was not closed here: either somebody else closed it, or
\* it is still running a statement and survives.
Recheck(p) ==
    /\ At(p, "recheck")
    /\ IF task[p].on \in sessions
       THEN Goto(p, "lease") /\ UNCHANGED missing
       ELSE Finish(p) /\ missing' = missing \cup {task[p].on}
    /\ UNCHANGED <<sessions, disposed, gate, state>>

\* The second request on a session is refused as busy.
TakeLease(p) ==
    /\ At(p, "lease")
    /\ IF GateFree(task[p].on)
       THEN Enter(p, task[p].on) /\ Goto(p, "run")
       ELSE UNCHANGED gate /\ Finish(p)
    /\ UNCHANGED <<sessions, disposed, state, missing>>

-----------------------------------------------------------------------------
(* The uses of a session: GetAsync, StreamAsync, RunTransactionCommandAsync *)

\* RefreshTransactionAsync: a status that cannot be read is recorded as none.
RefreshTransaction(s) ==
    \/ state' = [state EXCEPT ![s].recorded = state[s].txn, ![s].unread = FALSE]
    \/ state' = [state EXCEPT ![s].recorded = FALSE, ![s].unread = TRUE]

\* GetAsync stamps nothing and does not look at the connection.
Get(p) ==
    /\ At(p, "run") /\ task[p].op = "get"
    /\ RefreshTransaction(task[p].on)
    /\ Release(task[p].on)
    /\ Finish(p)
    /\ UNCHANGED <<sessions, disposed, missing>>

\* What a statement can leave of a session: a transaction or none, or a
\* connection the server killed; nothing happens on a connection not open.
StatementEffects(x) ==
    IF x.conn = "open"
    THEN {[x EXCEPT !.txn = t] : t \in BOOLEAN} \cup {[x EXCEPT !.conn = "broken", !.txn = FALSE]}
    ELSE {x}

\* StreamAsync: the statement ends in some way and LastUsedAt is stamped.  What
\* is recorded may be wrong from here on, until the status is read again.
EndStream(p) ==
    /\ At(p, "run") /\ task[p].op = "stream"
    /\ \E x \in StatementEffects(state[task[p].on]) :
        state' = [state EXCEPT ![task[p].on] = [x EXCEPT !.expired = FALSE]]
    /\ Goto(p, "settle")
    /\ UNCHANGED <<sessions, disposed, gate, missing>>

\* Mutated: the status is not read again after a statement.
SettleStreamInferred(p) ==
    /\ At(p, "settle")
    /\ Goto(p, "after")
    /\ UNCHANGED <<sessions, disposed, gate, state, missing>>

\* Its finally block reads the transaction again if the connection is open.
SettleStream(p) ==
    /\ At(p, "settle")
    /\ IF Live(task[p].on) THEN RefreshTransaction(task[p].on) ELSE UNCHANGED state
    /\ Goto(p, "after")
    /\ UNCHANGED <<sessions, disposed, gate, missing>>

\* RunTransactionCommandAsync: the status is recorded only if the command
\* succeeds and its outcome can be read.
EndCommand(p) ==
    /\ At(p, "run") /\ task[p].op = "command"
    /\ \E x \in StatementEffects(state[task[p].on]) :
        \/ /\ x.conn = "open"
           /\ state' = [state EXCEPT ![task[p].on] =
                [x EXCEPT !.expired = FALSE, !.unread = FALSE, !.recorded = x.txn]]
        \/ state' = [state EXCEPT ![task[p].on] =
                [x EXCEPT !.expired = FALSE, !.unread = TRUE]]
    /\ Goto(p, "after")
    /\ UNCHANGED <<sessions, disposed, gate, missing>>

\* Mutated: the result of TryRemove is not looked at.
AfterUseUnchecked(p) ==
    /\ At(p, "after")
    /\ IF ~Live(task[p].on)
       THEN Goto(p, "discard") /\ UNCHANGED gate
       ELSE Release(task[p].on) /\ Finish(p)
    /\ sessions' = sessions \ {s \in Session : ~Live(s) /\ s = task[p].on}
    /\ UNCHANGED <<disposed, state, missing>>

\* AfterUseAsync: a connection that is no longer open is dropped with its
\* session; then the lease is given back.
AfterUse(p) ==
    /\ At(p, "after")
    /\ LET s == task[p].on
       IN IF ~Live(s) /\ s \in sessions
          THEN sessions' = sessions \ {s} /\ Goto(p, "discard") /\ UNCHANGED gate
          ELSE UNCHANGED sessions /\ Release(s) /\ Finish(p)
    /\ UNCHANGED <<disposed, state, missing>>

Discard(p) ==
    /\ At(p, "discard")
    /\ Disconnect(task[p].on)
    /\ Release(task[p].on)
    /\ Finish(p)
    /\ UNCHANGED <<sessions, disposed, missing>>

-----------------------------------------------------------------------------
(* DisposeAsync of the manager, and the passing of time *)

BeginDispose ==
    /\ ~disposed
    /\ disposed' = TRUE
    /\ Begin(Disposer, "shut", "shutdown", None, sessions)
    /\ UNCHANGED <<sessions, gate, state, missing>>

DisposeNext ==
    /\ At(Disposer, "shut")
    /\ \E s \in task[Disposer].rest :
        \/ /\ s \in sessions /\ sessions' = sessions \ {s}
           /\ task' = [task EXCEPT ![Disposer].at = "dispose", ![Disposer].on = s,
                                   ![Disposer].rest = @ \ {s}]
        \/ /\ s \notin sessions /\ UNCHANGED sessions
           /\ task' = [task EXCEPT ![Disposer].rest = @ \ {s}]
    /\ UNCHANGED <<disposed, gate, state, missing>>

EndDispose ==
    /\ At(Disposer, "shut") /\ task[Disposer].rest = {}
    /\ Finish(Disposer)
    /\ UNCHANGED <<sessions, disposed, gate, state, missing>>

\* The idle timeout of a session runs out, whatever it is doing.
Expire(s) ==
    /\ s \in sessions /\ ~state[s].expired
    /\ state' = [state EXCEPT ![s].expired = TRUE]
    /\ UNCHANGED <<sessions, disposed, gate, missing, task>>

-----------------------------------------------------------------------------

\* The steps a process takes once it has begun something.
Continue(p) ==
    \/ CheckLimit(p) \/ FinishOpen(p) \/ FailOpen(p)
    \/ SweepNext(p) \/ TakeIdle(p) \/ DecideIdle(p)
    \/ Rollback(p) \/ DisposeSession(p)
    \/ Recheck(p) \/ TakeLease(p)
    \/ Get(p) \/ EndStream(p) \/ SettleStream(p) \/ EndCommand(p)
    \/ AfterUse(p) \/ Discard(p)

Next ==
    \/ \E p \in Process : Continue(p)
    \/ \E p \in Request : BeginOpen(p)
    \/ \E p \in Request, s \in Session : BeginClose(p, s)
    \/ \E p \in Request, use \in Uses, s \in Session : BeginUse(p, use, s)
    \/ BeginSweep \/ EndSweep
    \/ BeginDispose \/ DisposeNext \/ EndDispose
    \/ \E s \in Session : Expire(s)

Spec == Init /\ [][Next]_vars

\* Tasks are scheduled, statements end (every command has a timeout), the
\* sweeper's timer ticks and time passes.  Requests need not come.
Fairness ==
    /\ \A p \in Process : WF_vars(Continue(p))
    /\ WF_vars(BeginSweep) /\ WF_vars(EndSweep)
    /\ WF_vars(DisposeNext) /\ WF_vars(EndDispose)
    /\ \A s \in Session : WF_vars(Expire(s))

FairSpec == Spec /\ Fairness

-----------------------------------------------------------------------------
(* Properties *)

\* The process is inside the session's gate.
Inside(p, s) ==
    /\ task[p].on = s
    /\ \/ task[p].at \in {"decide", "run", "settle", "after", "discard"}
       \/ task[p].at \in {"rollback", "dispose"} /\ task[p].op \in Uses \cup Sweeps

\* A statement of the process is running on the session, or being wound up.
Running(p, s) == task[p].on = s /\ task[p].at \in {"run", "settle", "after"}

\* The process has unregistered the session and is about to dispose it.
Closing(p, s) == task[p].on = s /\ task[p].at \in {"rollback", "dispose", "discard"}

\* "One connection can only run one statement at a time": the slot is held by
\* exactly the process that is inside, so two are never inside together and no
\* path through sweeping, closing, losing the connection or failing leaves the
\* slot taken for ever.
GateDiscipline ==
    \A s \in Session, p \in Process : gate[s] = p <=> Inside(p, s)

\* A connection that was opened is registered, or some process is about to
\* dispose it: no interleaving of closing, sweeping, discarding and shutting
\* down drops a session without disposing its connection, and no two processes
\* both believe it is theirs to dispose.
NoOrphanConnection ==
    \A s \in Session :
        /\ state[s].conn \in {"open", "broken"} =>
            s \in sessions \/ \E p \in Process : Closing(p, s)
        /\ \A p, q \in Process : Closing(p, s) /\ Closing(q, s) => p = q

\* An expired session that is still busy must not "be declared missing and then
\* come back to life the moment its statement finished" (RequireAsync): what
\* its owner was told is gone is never registered.
NoResurrection == missing \cap sessions = {}

\* What callers are shown is what the engine has whenever nobody is using the
\* session, whatever its statements began, committed or lost: the status is
\* "re-read rather than inferred".  Excepted is only a session of which the last
\* attempt to read the status, or the last transaction command, failed.
RecordedIsReal ==
    \A s \in sessions :
        GateFree(s) /\ Live(s) /\ ~state[s].unread => state[s].recorded = state[s].txn

\* MaxQuerySessions is checked before the connection is awaited, so it can be
\* overrun, but never by more than the requests that open at the same time.
OvershootBound == Cardinality(sessions) < Limit + Cardinality(Request)

\* MaxQuerySessions as the options describe it: "How many pinned query sessions
\* may be open at once across this Gridlet".
SessionCap == Cardinality(sessions) <= Limit

\* Running out of time never takes the session or its connection away from a
\* running statement: only its own failure, CloseAsync and the disposal of the
\* manager do.
StatementSurvivesExpiry ==
    [][\A s \in Session, p \in Process :
        Running(p, s) /\ ((s \in sessions /\ s \notin sessions') \/ (Live(s) /\ ~Live(s)')) =>
            \E q \in Process :
                /\ task'[q] # task[q]
                /\ q = p \/ q = Disposer \/ "close" \in {task[q].op, task'[q].op}]_vars

\* A session nobody uses any more does not keep its connection: its owner keeps
\* using it, or it is closed in the end.  Looking at its state is no use, since
\* GetAsync stamps nothing: a client that only polls does not keep it, either,
\* unless polls overlap again and again (one that cannot take the slot to close an
\* expired session goes on to lease it).
AbandonedIsClosed ==
    \A s \in Session :
        \/ []<>(\E p \in Request : task[p].on = s /\ task[p].op # "get")
        \/ []<>(\E p, q \in Request : p # q /\ task[p].on = s /\ task[q].on = s)
        \/ <>disposed
        \/ <>[](state[s].conn \notin {"open", "broken"})
=============================================================================

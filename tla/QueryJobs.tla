----------------------------- MODULE QueryJobs -----------------------------
(***************************************************************************)
(* GridletQueryJobManager: background query jobs.  A job runs apart from   *)
(* the request that started it and keeps its event stream for a while, so  *)
(* that a browser can detach and replay it by cursor.  The runners of the  *)
(* jobs, requests that start, poll and cancel them, the sweeper and the    *)
(* shutdown run concurrently; each action below is one critical section    *)
(* (jobsGate, or a job's Gate) or the code between two of them.            *)
(*                                                                         *)
(* A job id is used once, so Job bounds how many jobs a behaviour starts.  *)
(* Time is abstracted: jobs end in an order, and Expire(j) lets the        *)
(* retention of an ended job pass.  The limits are those in force: the     *)
(* options are not reloaded.                                               *)
(***************************************************************************)
EXTENDS Naturals, Sequences, FiniteSets

CONSTANTS Job,          \* the job ids a behaviour can use up
          Owner,        \* authenticated users
          Anonymous,    \* the null owner, a workspace shared by its callers
          MaxJobs,      \* Limits.MaxQueryJobs
          MaxPerOwner,  \* Limits.MaxQueryJobsPerOwner
          MaxEvents,    \* Limits.MaxQueryJobEvents
          PageSize,     \* EventPageSize
          Emits,        \* the kinds of event the providers' streams have
          Fits,         \* whether an event may or may not fit the byte limit
          Poller,       \* requests reading a job, each by its own cursor
          Nothing       \* no job

ASSUME JobsAssumption ==
    /\ IsFiniteSet(Job) /\ Nothing \notin Job
    /\ Anonymous \notin Owner
    /\ {MaxJobs, MaxPerOwner, MaxEvents, PageSize} \subseteq Nat \ {0}
    /\ Fits \in {{TRUE}, BOOLEAN}
    /\ Emits \cap {"cancelled", "omitted"} = {}

OwnerLimit == IF MaxPerOwner < MaxJobs THEN MaxPerOwner ELSE MaxJobs

VARIABLES
    jobs,       \* the ids in the dictionary
    job,        \* every job, running on even when the dictionary has dropped it
    poller,     \* the request by which each reader polls a job
    disposed,   \* the manager's disposed flag
    shutdown    \* DisposeAsync: its loop, what is left of it, the jobs it took over

vars == <<jobs, job, poller, disposed, shutdown>>

TerminalEvent == {"completed", "error", "cancelled"}
TerminalStatus == {"succeeded", "failed", "cancelled"}
Event == Emits \cup TerminalEvent \cup {"omitted"}

\* run: where RunAsync is; saw: sawCompleted and sawError; retained:
\* RetainedTerminalEventTypes; cancelDue: Cancel has still to signal the source;
\* cancelled: the source is signalled; released: it is disposed; audit: what
\* became of the audit entry; ended: rank of CompletedAt; expired: the retention
\* of the result has passed.
JobState ==
    [owner : Owner \cup {Anonymous},
     run : {"none", "stream", "audit", "finish", "done"},
     status : TerminalStatus \cup {"running", "cancelling"},
     events : Seq(Event),
     truncated : BOOLEAN,
     retained : SUBSET TerminalEvent,
     saw : SUBSET {"completed", "error"},
     final : TerminalStatus,
     cancelDue : BOOLEAN, cancelled : BOOLEAN, released : BOOLEAN,
     audit : {"none", "lost", "success", "failure"},
     ended : Nat,
     expired : BOOLEAN]

Fresh(o) ==
    [owner |-> o, run |-> "none", status |-> "running", events |-> <<>>,
     truncated |-> FALSE, retained |-> {}, saw |-> {}, final |-> "failed",
     cancelDue |-> FALSE, cancelled |-> FALSE, released |-> FALSE,
     audit |-> "none", ended |-> 0, expired |-> FALSE]

\* after: the reader's cursor; woken: the Changed task it awaits is set; told:
\* the status in its last snapshot.
Poll ==
    [at : {"off", "ready", "found", "waiting"}, on : Job \cup {Nothing}, after : Nat,
     woken : BOOLEAN, told : TerminalStatus \cup {"running", "cancelling"}]
NoPoll == [at |-> "off", on |-> Nothing, after |-> 0, woken |-> FALSE, told |-> "running"]

IsTerminal(j) == job[j].status \in TerminalStatus
Started(j) == job[j].run # "none"
Done(j) == job[j].run = "done"

TypeOK ==
    /\ jobs \in SUBSET Job
    /\ job \in [Job -> JobState]
    /\ poller \in [Poller -> Poll]
    /\ disposed \in BOOLEAN
    /\ shutdown \in [at : {"none", "cancel", "release", "done"},
                     rest : SUBSET Job, remaining : SUBSET Job]
    /\ \A p \in Poller :
        poller[p].at # "off" =>
            /\ poller[p].on \in Job /\ Started(poller[p].on)
            /\ poller[p].after <= Len(job[poller[p].on].events)

Init ==
    /\ jobs = {}
    /\ job = [j \in Job |-> Fresh(Anonymous)]
    /\ poller = [p \in Poller |-> NoPoll]
    /\ disposed = FALSE
    /\ shutdown = [at |-> "none", rest |-> {}, remaining |-> {}]

-----------------------------------------------------------------------------
(* Starting a job: Start, SweepCompletedLocked, OldestCompleted, RemoveLocked *)

Expired == {j \in jobs : job[j].expired}
OwnedBy(S, o) == {j \in S : job[j].owner = o}

\* Mutated: anybody's oldest result may go.
OldestCompletedOfAny(S, o) ==
    LET done == {j \in S : IsTerminal(j)}
    IN {j \in done : \A k \in done : job[j].ended <= job[k].ended}

\* Mutated: a job need not have completed.
OldestEvenRunning(S, o) ==
    {j \in OwnedBy(S, o) : \A k \in OwnedBy(S, o) : job[j].ended <= job[k].ended}

\* The oldest job of the owner that has completed; empty if there is none.
OldestCompleted(S, o) ==
    LET done == {j \in OwnedBy(S, o) : IsTerminal(j)}
    IN {j \in done : \A k \in done : job[j].ended <= job[k].ended}

\* Mutated: anonymous callers and users alike only share the global capacity.
FullGlobally(S, o) == Cardinality(S) >= MaxJobs

\* No room for another job of the owner.  Anonymous callers have no share.
Full(S, o) ==
    \/ Cardinality(S) >= MaxJobs
    \/ o # Anonymous /\ Cardinality(OwnedBy(S, o)) >= OwnerLimit

\* What is left in the dictionary when a job of the owner wants in: expired
\* results go, and then, if there is no room, the owner's oldest result.  One
\* eviction makes room wherever the limits held before.
Kept(o) ==
    LET fresh == jobs \ Expired
    IN IF Full(fresh, o) THEN fresh \ OldestCompleted(fresh, o) ELSE fresh

\* Removing a job from the dictionary disposes its cancellation source.
Release(S) == [j \in Job |-> IF j \in S THEN [job[j] EXCEPT !.released = TRUE] ELSE job[j]]

\* Mutated: the disposed flag is not looked at.
StartAfterDispose(j, o) ==
    /\ ~Started(j) /\ ~Full(Kept(o), o)
    /\ jobs' = Kept(o) \cup {j}
    /\ job' = [Release(jobs \ Kept(o)) EXCEPT ![j] = [Fresh(o) EXCEPT !.run = "stream"]]
    /\ UNCHANGED <<poller, disposed, shutdown>>

\* The job is registered and its execution assigned in one critical section.
Start(j, o) ==
    /\ ~disposed
    /\ ~Started(j) /\ ~Full(Kept(o), o)
    /\ jobs' = Kept(o) \cup {j}
    /\ job' = [Release(jobs \ Kept(o)) EXCEPT ![j] = [Fresh(o) EXCEPT !.run = "stream"]]
    /\ UNCHANGED <<poller, disposed, shutdown>>

\* The capacity exception: the expired results are swept all the same.
RefuseStart(o) ==
    /\ ~disposed
    /\ Full(Kept(o), o)
    /\ jobs' = jobs \ Expired
    /\ job' = Release(Expired)
    /\ UNCHANGED <<poller, disposed, shutdown>>

\* The sweeper's tick.
Sweep ==
    /\ Expired # {}
    /\ jobs' = jobs \ Expired
    /\ job' = Release(Expired)
    /\ UNCHANGED <<poller, disposed, shutdown>>

\* The retention of a result passes, of older results first.
Expire(j) ==
    /\ j \in jobs /\ Done(j) /\ ~job[j].expired
    /\ \A k \in jobs : Done(k) /\ job[k].ended < job[j].ended => job[k].expired
    /\ job' = [job EXCEPT ![j].expired = TRUE]
    /\ UNCHANGED <<jobs, poller, disposed, shutdown>>

-----------------------------------------------------------------------------
(* Publish and RetainTerminalEvent *)

Retain(x, e) ==
    IF e \in TerminalEvent \ x.retained
    THEN [x EXCEPT !.events = Append(@, e), !.retained = @ \cup {e}]
    ELSE x

Append1(x, e) == [x EXCEPT !.events = Append(@, e)]
Truncate(x) == [Append1(x, "omitted") EXCEPT !.truncated = TRUE]

\* Mutated: a terminal event is retained without looking for another of its kind,
\* and the marker is written again.
PublishedUncounted(x, e, fits) ==
    IF Len(x.events) < MaxEvents /\ fits THEN Append1(x, e)
    ELSE Append1(Truncate(x), e)

\* The job after an event; fits: the event is within the byte limit, which
\* depends on what the rows hold.
Published(x, e, fits) ==
    IF x.truncated /\ e \notin TerminalEvent THEN x
    ELSE IF Len(x.events) < MaxEvents /\ fits THEN Append1(x, e)
    ELSE Retain(IF x.truncated THEN x ELSE Truncate(x), e)

\* NotifyLocked sets the Changed task of every reader that awaits it.
Notify(j) ==
    poller' = [p \in Poller |->
                  IF poller[p].at = "waiting" /\ poller[p].on = j
                  THEN [poller[p] EXCEPT !.woken = TRUE] ELSE poller[p]]

\* The runner publishes an event of its job and moves on.
Publish(j, e, run, saw, final) ==
    \E fits \in Fits :
        LET x == Published(job[j], e, fits)
        IN /\ job' = [job EXCEPT ![j] = [x EXCEPT !.run = run, !.saw = saw, !.final = final]]
           /\ IF x.events # job[j].events THEN Notify(j) ELSE UNCHANGED poller
           /\ UNCHANGED <<jobs, disposed, shutdown>>

-----------------------------------------------------------------------------
(* RunAsync *)

\* An event of the provider's stream, which may go on after a terminal one.
ProviderEvent(j, e) ==
    /\ job[j].run = "stream"
    /\ Publish(j, e, "stream", job[j].saw \cup ({e} \cap {"completed", "error"}), "failed")

\* Mutated: a cancellation wins over what the provider said last.
EndOfStreamCancelled(j) ==
    /\ job[j].run = "stream" /\ job[j].saw # {}
    /\ IF job[j].cancelled
       THEN Publish(j, "cancelled", "audit", job[j].saw, "cancelled")
       ELSE /\ job' = [job EXCEPT ![j].run = "audit",
                                  ![j].final = IF "error" \in job[j].saw
                                               THEN "failed" ELSE "succeeded"]
            /\ UNCHANGED <<jobs, poller, disposed, shutdown>>

\* The stream ends, or is cancelled, after a terminal event of the provider, which
\* wins over a cancellation.
EndOfStream(j) ==
    /\ job[j].run = "stream" /\ job[j].saw # {}
    /\ job' = [job EXCEPT ![j].run = "audit",
                          ![j].final = IF "error" \in job[j].saw THEN "failed" ELSE "succeeded"]
    /\ UNCHANGED <<jobs, poller, disposed, shutdown>>

\* The stream ends, or is cancelled, before that and the source is signalled.
EndCancelled(j) ==
    /\ job[j].run = "stream" /\ job[j].saw = {} /\ job[j].cancelled
    /\ Publish(j, "cancelled", "audit", {}, "cancelled")

\* The provider throws, at any point, or its stream ends too early.
Fail(j) ==
    /\ job[j].run = "stream"
    /\ Publish(j, "error", "audit", job[j].saw, "failed")

\* Mutated: an audit sink that throws takes RunAsync with it.
AuditUncaught(j) ==
    /\ job[j].run = "audit" /\ job[j].audit = "none"
    /\ \E lost \in BOOLEAN :
        job' = [job EXCEPT ![j].run = IF lost THEN "audit" ELSE "finish",
                           ![j].audit = IF lost THEN "lost"
                                        ELSE IF job[j].final = "succeeded"
                                        THEN "success" ELSE "failure"]
    /\ UNCHANGED <<jobs, poller, disposed, shutdown>>

\* Mutated: what the provider said last is taken for the outcome.
AuditLastWord(j) ==
    /\ job[j].run = "audit"
    /\ \E entry \in {"lost", IF job[j].saw = {"completed"} THEN "success" ELSE "failure"} :
        job' = [job EXCEPT ![j].run = "finish", ![j].audit = entry]
    /\ UNCHANGED <<jobs, poller, disposed, shutdown>>

\* The sink is called; what it throws is logged.
Audit(j) ==
    /\ job[j].run = "audit"
    /\ \E entry \in {"lost", IF job[j].final = "succeeded" THEN "success" ELSE "failure"} :
        job' = [job EXCEPT ![j].run = "finish", ![j].audit = entry]
    /\ UNCHANGED <<jobs, poller, disposed, shutdown>>

\* Mutated: the readers are not notified.
FinishSilently(j) ==
    /\ job[j].run = "finish"
    /\ job' = [job EXCEPT ![j].run = "done", ![j].status = job[j].final,
                          ![j].ended = Cardinality({k \in Job : Done(k)}) + 1]
    /\ UNCHANGED <<jobs, poller, disposed, shutdown>>

Finish(j) ==
    /\ job[j].run = "finish"
    /\ job' = [job EXCEPT ![j].run = "done", ![j].status = job[j].final,
                          ![j].ended = Cardinality({k \in Job : Done(k)}) + 1]
    /\ Notify(j)
    /\ UNCHANGED <<jobs, disposed, shutdown>>

-----------------------------------------------------------------------------
(* Cancel.  A request may have looked its job up a while ago, so that the job *)
(* has left the dictionary by now.                                            *)

\* Mutated: whatever the status is.
CancelAnyStatus(j) ==
    /\ Started(j) /\ ~job[j].released
    /\ job[j].status # "cancelling"
    /\ job' = [job EXCEPT ![j].status = "cancelling", ![j].cancelDue = TRUE]
    /\ Notify(j)
    /\ UNCHANGED <<jobs, disposed, shutdown>>

Cancel(j) ==
    /\ Started(j) /\ ~job[j].released
    /\ ~IsTerminal(j) /\ job[j].status # "cancelling"
    /\ job' = [job EXCEPT ![j].status = "cancelling", ![j].cancelDue = TRUE]
    /\ Notify(j)
    /\ UNCHANGED <<jobs, disposed, shutdown>>

\* Outside the job's Gate; a source disposed meanwhile throws, which is caught.
SignalCancel(j) ==
    /\ job[j].cancelDue
    /\ \/ /\ ~job[j].released
          /\ job' = [job EXCEPT ![j].cancelDue = FALSE, ![j].cancelled = TRUE]
       \/ job[j].released /\ job' = [job EXCEPT ![j].cancelDue = FALSE]
    /\ UNCHANGED <<jobs, poller, disposed, shutdown>>

-----------------------------------------------------------------------------
(* GetAsync, polled by readers with the cursor of their last snapshot *)

\* A browser attaches to a job, from its first event, or aborts its request and
\* goes away.
Attach(p, j) ==
    /\ poller[p].at = "off" /\ Started(j)
    /\ poller' = [poller EXCEPT ![p] = [NoPoll EXCEPT !.at = "ready", !.on = j]]
    /\ UNCHANGED <<jobs, job, disposed, shutdown>>

Detach(p) ==
    /\ poller[p].at # "off"
    /\ poller' = [poller EXCEPT ![p] = NoPoll]
    /\ UNCHANGED <<jobs, job, disposed, shutdown>>

\* A job that is gone is not found.
Lookup(p) ==
    /\ poller[p].at = "ready"
    /\ poller' = [poller EXCEPT ![p] = IF poller[p].on \in jobs
                                       THEN [@ EXCEPT !.at = "found"] ELSE NoPoll]
    /\ UNCHANGED <<jobs, job, disposed, shutdown>>

\* Mutated: the cursor advances by a whole page, however few events are left.
NextCursorUnclipped(p) == poller[p].after + PageSize

\* SnapshotLocked: one page of events, and the status.
NextCursor(p) ==
    LET count == Len(job[poller[p].on].events)
    IN IF poller[p].after + PageSize < count THEN poller[p].after + PageSize ELSE count

Snapshot(p) ==
    poller' = [poller EXCEPT ![p].at = "ready", ![p].woken = FALSE,
                             ![p].after = NextCursor(p), ![p].told = job[poller[p].on].status]

\* With nothing to report the request waits for the Changed task of now, unless
\* it asked not to wait.
Read(p) ==
    /\ poller[p].at = "found"
    /\ \/ Snapshot(p)
       \/ /\ poller[p].after = Len(job[poller[p].on].events) /\ ~IsTerminal(poller[p].on)
          /\ poller' = [poller EXCEPT ![p].at = "waiting"]
    /\ UNCHANGED <<jobs, job, disposed, shutdown>>

\* The wait is over: the task is set or two seconds have passed.
Answer(p) ==
    /\ poller[p].at = "waiting"
    /\ Snapshot(p)
    /\ UNCHANGED <<jobs, job, disposed, shutdown>>

-----------------------------------------------------------------------------
(* DisposeAsync *)

BeginDispose ==
    /\ ~disposed
    /\ disposed' = TRUE
    /\ shutdown' = [at |-> "cancel", rest |-> jobs, remaining |-> jobs]
    /\ jobs' = {}
    /\ UNCHANGED <<job, poller>>

CancelNext ==
    /\ shutdown.at = "cancel"
    /\ \E j \in shutdown.rest :
        /\ \/ ~job[j].released /\ job' = [job EXCEPT ![j].cancelled = TRUE]
           \/ job[j].released /\ UNCHANGED job
        /\ shutdown' = [shutdown EXCEPT !.rest = @ \ {j}]
    /\ UNCHANGED <<jobs, poller, disposed>>

\* Every execution has completed or five seconds have passed.
EndWait ==
    /\ shutdown.at = "cancel" /\ shutdown.rest = {}
    /\ shutdown' = [shutdown EXCEPT !.at = "release", !.rest = shutdown.remaining]
    /\ UNCHANGED <<jobs, job, poller, disposed>>

\* A job that ignored the cancellation, or whose task is only about to complete,
\* keeps its source.
ReleaseNext ==
    /\ shutdown.at = "release"
    /\ \E j \in shutdown.rest :
        /\ \/ Done(j) /\ job' = Release({j})
           \/ UNCHANGED job
        /\ shutdown' = [shutdown EXCEPT !.rest = @ \ {j}]
    /\ UNCHANGED <<jobs, poller, disposed>>

EndDispose ==
    /\ shutdown.at = "release" /\ shutdown.rest = {}
    /\ shutdown' = [shutdown EXCEPT !.at = "done"]
    /\ UNCHANGED <<jobs, job, poller, disposed>>

-----------------------------------------------------------------------------

StreamEnds(j) == EndOfStream(j) \/ EndCancelled(j) \/ Fail(j)
Runner(j) ==
    \/ \E e \in Emits : ProviderEvent(j, e)
    \/ StreamEnds(j) \/ Audit(j) \/ Finish(j)

Polls(p) == Lookup(p) \/ Read(p) \/ Answer(p)

Next ==
    \/ \E j \in Job, o \in Owner \cup {Anonymous} : Start(j, o)
    \/ \E o \in Owner \cup {Anonymous} : RefuseStart(o)
    \/ Sweep
    \/ \E j \in Job : Runner(j) \/ Cancel(j) \/ SignalCancel(j) \/ Expire(j)
    \/ \E p \in Poller : Polls(p) \/ Detach(p)
    \/ \E p \in Poller, j \in Job : Attach(p, j)
    \/ BeginDispose \/ CancelNext \/ EndWait \/ ReleaseNext \/ EndDispose

Spec == Init /\ [][Next]_vars

\* A query stream ends (every command has a timeout), the runners' tasks are
\* scheduled, time passes and the sweeper's timer ticks.  A reader that polls is
\* answered, but it may go away; nobody need start or cancel anything.
Fairness ==
    /\ \A j \in Job : /\ WF_vars(StreamEnds(j)) /\ WF_vars(Audit(j)) /\ WF_vars(Finish(j))
                      /\ WF_vars(Expire(j))
    /\ WF_vars(Sweep)
    /\ \A p \in Poller : WF_vars(Polls(p))

FairSpec == Spec /\ Fairness

-----------------------------------------------------------------------------
(* Properties *)

\* MaxQueryJobs and MaxQueryJobsPerOwner hold through every order of starts,
\* evictions, expiries and endings; anonymous callers only share the first.
CapacityBound ==
    /\ Cardinality(jobs) <= MaxJobs
    /\ \A o \in Owner : Cardinality(OwnedBy(jobs, o)) <= OwnerLimit

\* "Starting one owner's job must not silently discard another owner's result"
\* (Start): before the shutdown a job leaves the dictionary only when it has
\* ended, and then because its retention has passed or for a job its own owner
\* starts.
OnlyOwnResultsEvicted ==
    [][\A j \in jobs \ jobs' :
        ~disposed' => /\ IsTerminal(j)
                      /\ job[j].expired \/ \E k \in jobs' \ jobs : job'[k].owner = job[j].owner]_vars

\* A cancellation source is never disposed under a provider that may still read
\* its token, nor while the audit is being written: not by eviction, by the
\* sweep, or by a shutdown that timed out waiting.
NoSourceReleasedInUse == \A j \in Job : job[j].released => Done(j)

\* Once the shutdown has signalled its jobs every job still running is cancelled:
\* none starts after its snapshot or hides from it.
ShutdownReachesEveryJob ==
    shutdown.at \in {"release", "done"} =>
        \A j \in Job : Started(j) => Done(j) \/ job[j].cancelled

Has(j, e) == \E i \in DOMAIN job[j].events : job[j].events[i] = e

\* "Terminal state is always retained" and "One job must never retain both
\* completed and cancelled": whatever was truncated, cancelled or thrown, the
\* status of a job that has ended is the one its retained events tell.
OutcomeRetained ==
    \A j \in Job : IsTerminal(j) =>
        /\ job[j].status = "succeeded" <=> Has(j, "completed") /\ ~Has(j, "error")
        /\ job[j].status = "failed" <=> Has(j, "error")
        /\ job[j].status = "cancelled" <=> Has(j, "cancelled")

\* "Terminal means the entire retained job, including its audit, has completed":
\* the audit was tried before and says of the job what its status says.
AuditPrecedesOutcome ==
    \A j \in Job : IsTerminal(j) =>
        \/ job[j].audit = "lost"
        \/ job[j].audit = IF job[j].status = "succeeded" THEN "success" ELSE "failure"

\* MaxQueryJobEvents bounds what a job retains, but for one marker and two
\* terminal events, however often the provider completes and fails.
EventBound == \A j \in Job : Len(job[j].events) <= MaxEvents + 3

\* A reader that saw a job end has seen how: afterwards nothing is published and
\* no late cancellation touches the status.
OutcomeIsFinal ==
    [][\A j \in Job : IsTerminal(j) =>
        job'[j].status = job[j].status /\ job'[j].events = job[j].events]_vars

\* No wake-up is lost between a reader's look at its job and its wait: one that
\* still waits unnotified has missed neither an event nor the end of the job.
NoLostWakeup ==
    \A p \in Poller :
        poller[p].at = "waiting" /\ ~poller[p].woken =>
            /\ poller[p].after = Len(job[poller[p].on].events)
            /\ ~IsTerminal(poller[p].on)

\* Every job that is started gives its slot and its source back in the end, even
\* if nobody ever reads it or its audit entry is lost.
SourcesReclaimed == \A j \in Job : Started(j) ~> job[j].released \/ disposed

\* The last snapshot told the reader all there will be.
Finished(p) ==
    /\ poller[p].told \in TerminalStatus
    /\ poller[p].after = Len(job[poller[p].on].events)

\* A reader that keeps polling comes to know how the job ended and all of its
\* events, unless the result is gone first.
ReaderSeesOutcome ==
    \A p \in Poller : poller[p].at = "ready" ~> Finished(p) \/ poller[p].at = "off"

\* The jobs as a browser sees them.
Service == INSTANCE JobService WITH
    known <- jobs,
    status <- [j \in Job |-> IF Started(j) THEN job[j].status ELSE "none"],
    events <- [j \in Job |-> job[j].events],
    down <- disposed

\* The manager implements the service that a query tab relies on: whatever its
\* runners, evictions, truncation, cancellations, sweeps and shutdown do to a job,
\* a browser sees events that only grow, an end that they tell, and no live job
\* forgotten before the shutdown.
ImplementsJobService == Service!Spec
=============================================================================

------------------------------ MODULE QueryTab ------------------------------
(***************************************************************************)
(* A query tab of the browser (openQueryTab in app.js) working against the  *)
(* service of background jobs (JobService) and the pinned sessions.  The    *)
(* tab runs on one event loop: each action below is the code between two    *)
(* awaits.  A poll of a job is answered and delivered in one step: a job    *)
(* only grows, and all the tab does with a poll in flight is to abort it.   *)
(* Requests about the session are answered at once.  The page can be        *)
(* reloaded at any moment: what is left is the descriptor that saveSession  *)
(* wrote.                                                                  *)
(*                                                                         *)
(* Dialogs are modal: while one is open the person only answers it.  What   *)
(* the SQL is, what rows hold and the refresh of the sidebar after DDL are  *)
(* left out.                                                                *)
(***************************************************************************)
EXTENDS Naturals, Sequences, FiniteSets

CONSTANTS Job,         \* job ids
          None,
          Event,       \* the kinds of event a job publishes
          MaxEvents,   \* bound: events of a job before its terminal one
          PageSize,    \* events in one snapshot
          PollRetries, \* failed polls in a row that are retried, 3 in the code
          MaxReloads   \* bound: reloads of the page

VARIABLES
    known, status, events, down,   \* the job service
    tab,          \* the tab object and the closure's flags
    session,      \* the tab's session, plain or with an open transaction
    run,          \* the last runAttached or runDetached
    shown,        \* the job events in the results
    dialog,       \* the question the person is asked
    history,      \* the query history: the outcomes recorded for each job
    saved,        \* the tab's descriptor in localStorage
    reloads

Service == INSTANCE JobService

service == <<known, status, events, down>>
stored == <<history, saved, reloads>>
vars == <<service, tab, session, run, shown, dialog, stored>>

SessionState == {"none", "plain", "tx"}
NoRun == [at |-> "idle", kind |-> "none", job |-> None, cursor |-> 0,
          failures |-> 0, aborted |-> FALSE, ended |-> "unknown"]

\* running, detachable, active, recorded: tab.isRunning, tab.detachableJob,
\* activeJobId, tab.jobHistoryRecorded; off: the Cancel button is disabled.
NewTab(job, recorded) ==
    [open |-> TRUE, running |-> FALSE, detachable |-> FALSE, active |-> job,
     recorded |-> recorded, cancelOnClose |-> FALSE, off |-> TRUE]

TypeOK ==
    /\ known \subseteq Job /\ down \in BOOLEAN
    /\ status \in [Job -> Service!Live \cup Service!Ended \cup {"none"}]
    /\ tab \in [open : BOOLEAN, running : BOOLEAN, detachable : BOOLEAN,
                active : Job \cup {None}, recorded : BOOLEAN,
                cancelOnClose : BOOLEAN, off : BOOLEAN]
    /\ session \in SessionState
    /\ run \in [at : {"idle", "post", "started", "poll", "wait", "stream", "reread"},
                kind : {"none", "attached", "detached"},
                job : Job \cup {None}, cursor : 0..Len(shown), failures : 0..PollRetries, aborted : BOOLEAN,
                ended : Service!Ended \cup {"unknown", "expired"}]
    /\ dialog \in {"none", "attached", "detached", "leave", "job", "transaction", "session"}
    /\ history \in [Job -> Seq(Service!Ended)]
    /\ saved \in [job : Job \cup {None}, recorded : BOOLEAN] \cup {None}
    /\ reloads \in 0..MaxReloads

\* tab.restore, which saveSession asks for while the tab is among state.tabs.
Describe(t) == IF t.open THEN [job |-> t.active, recorded |-> t.recorded] ELSE None

Init ==
    /\ Service!Init
    /\ tab = NewTab(None, FALSE) /\ session = "none" /\ run = NoRun
    /\ shown = <<>> /\ dialog = "none"
    /\ history = [j \in Job |-> <<>>] /\ saved = Describe(tab) /\ reloads = 0

Free == tab.open /\ dialog = "none"   \* the person may act on the tab

-----------------------------------------------------------------------------
(* run: a reattachment, a run on the session, or a new background job *)

\* runDetached, of a job that is there or of a new one, whose POST has no signal.
Detached(job, t) ==
    /\ run' = [NoRun EXCEPT !.at = IF job = None THEN "post" ELSE "poll",
                            !.kind = "detached", !.job = job]
    /\ tab' = [t EXCEPT !.running = TRUE, !.detachable = TRUE, !.off = FALSE,
                        !.active = job, !.recorded = @ /\ job # None]

Reattach ==
    /\ Detached(tab.active, tab)
    /\ shown' = <<>>

\* runAttached forgets the job of the tab, which runs on.
Attached ==
    /\ run' = [NoRun EXCEPT !.at = "stream", !.kind = "attached"]
    /\ tab' = [tab EXCEPT !.running = TRUE, !.detachable = FALSE, !.off = FALSE,
                          !.active = None]
    /\ shown' = <<>>

Begin(kind) ==
    \/ kind = "attached" /\ Attached
    \/ kind = "detached" /\ Detached(None, tab) /\ shown' = <<>>

KindOfRun == IF session # "none" THEN "attached" ELSE "detached"

Reattaches == session = "none" /\ tab.detachable /\ tab.active # None

\* The SQL may need a confirmation: UPDATE or DELETE without WHERE.  The dialog
\* keeps the kind of the run, whatever becomes of the session.
Run ==
    /\ Free /\ ~tab.running
    /\ \/ Reattaches /\ Reattach /\ UNCHANGED dialog
       \/ ~Reattaches /\ Begin(KindOfRun) /\ UNCHANGED dialog
       \/ ~Reattaches /\ dialog' = KindOfRun /\ UNCHANGED <<run, tab, shown>>
    /\ UNCHANGED <<service, session, stored>>

\* "Run anyway".
RunAnyway ==
    /\ dialog \in {"attached", "detached"} /\ Begin(dialog)
    /\ dialog' = "none"
    /\ UNCHANGED <<service, session, stored>>

-----------------------------------------------------------------------------
(* runDetached *)

\* Mutated: whether the history has the job is forgotten.
FinallyUnrecorded(t, job, ended, reattach) ==
    LET done == [t EXCEPT !.running = job # None /\ ended = "unknown" /\ ~reattach,
                          !.detachable = job # None /\ ended = "unknown",
                          !.off = job = None \/ ended # "unknown"]
    IN /\ tab' = done
       /\ run' = [NoRun EXCEPT !.kind = run.kind, !.job = job, !.ended = ended]
       /\ history' = IF ended # "unknown" /\ job # None
                     THEN [history EXCEPT ![job] =
                              Append(@, IF ended = "expired" THEN "failed" ELSE ended)]
                     ELSE history
       /\ saved' = IF ended # "unknown" THEN Describe(done) ELSE saved

\* finally: the history once, the descriptor, the buttons.  ended is "unknown"
\* when the tab has lost its job; a start that fails has no job.
Finally(t, job, ended, reattach) ==
    LET records == ended # "unknown" /\ ~t.recorded
        unresolved == job # None /\ ended = "unknown"
        done == [t EXCEPT !.recorded = @ \/ records,
                          !.running = unresolved /\ ~reattach,
                          !.detachable = unresolved, !.off = ~unresolved]
    IN /\ tab' = done
       /\ run' = [NoRun EXCEPT !.kind = run.kind, !.job = job, !.ended = ended]
       /\ history' = IF records /\ job # None
                     THEN [history EXCEPT ![job] =
                              Append(@, IF ended = "expired" THEN "failed" ELSE ended)]
                     ELSE history
       /\ saved' = IF records \/ ended = "expired" THEN Describe(done) ELSE saved

ServiceStarts(j) ==
    /\ run.at = "post" /\ Service!Start(j)
    /\ run' = [run EXCEPT !.at = "started", !.job = j]
    /\ UNCHANGED <<tab, session, shown, dialog, stored>>

\* Mutated: the descriptor is not written before the first poll.
StartAnsweredUnsaved ==
    /\ run.at = "started"
    /\ run' = [run EXCEPT !.at = "poll"]
    /\ tab' = [tab EXCEPT !.active = run.job]
    /\ UNCHANGED <<service, session, shown, dialog, stored>>

\* The answer arrives, perhaps at a tab that has been closed.
StartAnswered ==
    /\ run.at = "started"
    /\ run' = [run EXCEPT !.at = "poll"]
    /\ tab' = [tab EXCEPT !.active = run.job]
    /\ saved' = Describe(tab')
    /\ UNCHANGED <<service, session, shown, dialog, history, reloads>>

\* The POST is refused or lost, or its answer is: the job then runs without a tab.
StartFails ==
    /\ run.at \in {"post", "started"}
    /\ Finally(tab, None, "failed", FALSE)
    /\ UNCHANGED <<service, session, shown, dialog, reloads>>

Page(j, from) ==
    SubSeq(events[j], from + 1, IF from + PageSize < Len(events[j])
                                THEN from + PageSize ELSE Len(events[j]))

\* Mutated: the status counts whether or not all events have come.
PolledEarly ==
    /\ run.at = "poll" /\ run.job \in known /\ ~run.aborted
    /\ LET page == Page(run.job, run.cursor)
       IN /\ shown' = shown \o page
          /\ IF status[run.job] \in Service!Ended
             THEN Finally(tab, run.job, status[run.job], FALSE)
             ELSE /\ run' = [run EXCEPT !.cursor = @ + Len(page), !.failures = 0]
                  /\ UNCHANGED <<tab, history, saved>>
    /\ UNCHANGED <<service, session, dialog, reloads>>

\* A snapshot: its events are shown, and the status counts once all have come.
Polled ==
    /\ run.at = "poll" /\ run.job \in known /\ ~run.aborted
    /\ LET page == Page(run.job, run.cursor)
           cursor == run.cursor + Len(page)
       IN /\ shown' = shown \o page
          /\ IF cursor = Len(events[run.job]) /\ status[run.job] \in Service!Ended
             THEN Finally(tab, run.job, status[run.job], FALSE)
             ELSE /\ run' = [run EXCEPT !.cursor = cursor, !.failures = 0]
                  /\ UNCHANGED <<tab, history, saved>>
    /\ UNCHANGED <<service, session, dialog, reloads>>

\* 404: the job is not known any more.
PollExpired ==
    /\ run.at = "poll" /\ run.job \notin known /\ ~run.aborted
    /\ Finally([tab EXCEPT !.active = None], run.job, "expired", FALSE)
    /\ UNCHANGED <<service, session, shown, dialog, reloads>>

\* Mutated: the failures are counted and never too many.
PollFailsUncapped ==
    /\ run.at = "poll" /\ ~run.aborted
    /\ run' = [run EXCEPT !.at = "wait", !.failures = @ + 1]
    /\ UNCHANGED <<service, tab, session, shown, dialog, stored>>

\* The network fails: back off and poll again, or give up and offer to reattach.
PollFails ==
    /\ run.at = "poll" /\ ~run.aborted
    /\ \/ /\ run.failures < PollRetries
          /\ run' = [run EXCEPT !.at = "wait", !.failures = @ + 1]
          /\ UNCHANGED <<tab, history, saved>>
       \/ run.failures = PollRetries /\ Finally(tab, run.job, "unknown", TRUE)
    /\ UNCHANGED <<service, session, shown, dialog, reloads>>

BackoffEnds ==
    /\ run.at = "wait" /\ ~run.aborted
    /\ run' = [run EXCEPT !.at = "poll"]
    /\ UNCHANGED <<service, tab, session, shown, dialog, stored>>

\* AbortError, from the poll or the back-off: detached, the job runs on.
Aborted ==
    /\ run.at \in {"poll", "wait"} /\ run.aborted
    /\ Finally(tab, run.job, "unknown", TRUE)
    /\ UNCHANGED <<service, session, shown, dialog, reloads>>

\* DELETE of a job, answered or lost.
Delete(j) ==
    \/ j \in known /\ Service!RequestCancel(j)
    \/ UNCHANGED service

\* The Cancel button.  Before the start is answered there is no job to cancel, and
\* what is aborted is the polling to come; a run on a session stops.
Cancel ==
    /\ Free /\ ~tab.off
    /\ \/ /\ tab.detachable /\ tab.active # None
          /\ Delete(tab.active)
          /\ \E answered \in BOOLEAN : tab' = [tab EXCEPT !.off = answered]
          /\ UNCHANGED run
       \/ /\ ~(tab.detachable /\ tab.active # None)
          /\ run' = [run EXCEPT !.aborted = TRUE]
          /\ UNCHANGED <<service, tab>>
    /\ UNCHANGED <<session, shown, dialog, stored>>

-----------------------------------------------------------------------------
(* The pinned session and runAttached *)

\* The Session button opens a session, which the server may refuse.
OpenSession ==
    /\ Free /\ session = "none"
    /\ session' = "plain"
    /\ UNCHANGED <<service, tab, run, shown, dialog, stored>>

\* Begin, Commit and Rollback, or a re-read after a command that failed or a plan;
\* the session may turn out to be gone.
SessionAnswers ==
    /\ tab.open /\ session # "none"
    /\ session' \in SessionState
    /\ UNCHANGED <<service, tab, run, shown, dialog, stored>>

\* The Session button with a session asks if it shows a transaction.
CloseSession ==
    /\ Free /\ session # "none"
    /\ \/ session = "tx" /\ dialog' = "session" /\ UNCHANGED session
       \/ session = "plain" /\ session' = "none" /\ UNCHANGED dialog
    /\ UNCHANGED <<service, tab, run, shown, stored>>

CloseAnyway ==
    /\ dialog = "session" /\ dialog' = "none" /\ session' = "none"
    /\ UNCHANGED <<service, tab, run, shown, stored>>

\* The stream of an attached run ends; its finally awaits refreshSession.
StreamEnds ==
    /\ run.at = "stream"
    /\ run' = [run EXCEPT !.at = "reread"]
    /\ UNCHANGED <<service, tab, session, shown, dialog, stored>>

AttachedEnds ==
    /\ run.at = "reread"
    /\ session' \in IF session = "none" THEN {"none"} ELSE SessionState
    /\ tab' = [tab EXCEPT !.running = FALSE, !.off = TRUE]
    /\ run' = NoRun
    /\ UNCHANGED <<service, shown, dialog, stored>>

-----------------------------------------------------------------------------
(* Leaving and closing the tab: beforeLeave, beforeClose, onClose *)

\* The tab leaves state.tabs, onClose cleans up, and the session is saved.
Dispose(t) ==
    /\ tab' = [t EXCEPT !.open = FALSE]
    /\ run' = [run EXCEPT !.aborted = run.at # "idle"]
    /\ IF t.cancelOnClose /\ t.active # None THEN Delete(t.active) ELSE UNCHANGED service
    /\ session' = "none" /\ dialog' = "none" /\ saved' = None

AskTransaction(t) ==
    \/ session = "tx" /\ dialog' = "transaction" /\ tab' = t
       /\ UNCHANGED <<service, session, run, saved>>
    \/ session # "tx" /\ Dispose(t)

AskJob ==
    \/ tab.detachable /\ tab.active # None /\ dialog' = "job"
       /\ UNCHANGED <<service, session, run, tab, saved>>
    \/ ~(tab.detachable /\ tab.active # None) /\ AskTransaction(tab)

CloseTab ==
    /\ Free
    /\ \/ tab.running /\ ~tab.detachable /\ dialog' = "leave"
          /\ UNCHANGED <<service, session, run, tab, saved>>
       \/ ~(tab.running /\ ~tab.detachable) /\ AskJob
    /\ UNCHANGED <<shown, history, reloads>>

\* "Stop query", before another tab is shown or this one is closed.
StopQuery ==
    /\ dialog = "leave"
    /\ run' = [run EXCEPT !.aborted = TRUE]
    /\ \/ dialog' = "none" /\ UNCHANGED <<service, session, tab, saved>>
       \/ session = "tx" /\ dialog' = "transaction"
          /\ UNCHANGED <<service, session, tab, saved>>
       \/ session # "tx" /\ Dispose(tab)
    /\ UNCHANGED <<shown, history, reloads>>

\* "Cancel and close": the transaction may be asked about next.
CancelAndClose ==
    /\ dialog = "job"
    /\ AskTransaction([tab EXCEPT !.cancelOnClose = TRUE])
    /\ UNCHANGED <<shown, history, reloads>>

RollBackAndClose ==
    /\ dialog = "transaction" /\ Dispose(tab)
    /\ UNCHANGED <<shown, history, reloads>>

\* "Keep tab open", "Stay", "Cancel": that the job was to be cancelled stays set.
Dismiss ==
    /\ dialog # "none" /\ dialog' = "none"
    /\ UNCHANGED <<service, tab, session, run, shown, stored>>

-----------------------------------------------------------------------------
(* saveSession and restoreSession *)

\* Every renderTabs writes the descriptor.
Save ==
    /\ saved' = Describe(tab)
    /\ UNCHANGED <<service, tab, session, run, shown, dialog, history, reloads>>

\* The page is loaded anew: the restored tab reattaches to its job.
Reload ==
    /\ saved # None /\ reloads < MaxReloads
    /\ LET t == NewTab(saved.job, saved.recorded)
       IN IF saved.job = None THEN tab' = t /\ run' = NoRun ELSE Detached(saved.job, t)
    /\ session' = "none" /\ shown' = <<>> /\ dialog' = "none"
    /\ reloads' = reloads + 1
    /\ UNCHANGED <<service, history, saved>>

-----------------------------------------------------------------------------
(* The job service, as far as it works by itself *)

TerminalEvent == {"completed", "error", "cancelled"}

HasEnded(j) == \E e \in TerminalEvent : Service!Has(events[j], e)

ServiceWorks(j) ==
    /\ \/ \E e \in Event : /\ ~HasEnded(j) /\ (e = "cancelled" => status[j] = "cancelling")
                           /\ e \in TerminalEvent \/ Len(events[j]) < MaxEvents
                           /\ Service!Publish(j, <<e>>)
       \/ \E s \in Service!Ended : Service!End(j, s)
    /\ UNCHANGED <<tab, session, run, shown, dialog, stored>>

ServiceForgets ==
    /\ Service!Forget \/ Service!Shutdown
    /\ UNCHANGED <<tab, session, run, shown, dialog, stored>>

-----------------------------------------------------------------------------

StartReturns == (\E j \in Job : ServiceStarts(j)) \/ StartAnswered \/ StartFails
PollReturns == Polled \/ PollExpired \/ PollFails \/ Aborted

Person ==
    \/ Run \/ RunAnyway \/ Cancel
    \/ OpenSession \/ CloseSession \/ CloseAnyway
    \/ CloseTab \/ StopQuery \/ CancelAndClose \/ RollBackAndClose \/ Dismiss
    \/ Reload

Next ==
    \/ Person
    \/ StartReturns \/ PollReturns \/ BackoffEnds \/ SessionAnswers \/ StreamEnds \/ AttachedEnds
    \/ Save
    \/ \E j \in Job : ServiceWorks(j)
    \/ ServiceForgets

Spec == Init /\ [][Next]_vars

-----------------------------------------------------------------------------
(* Properties *)

\* jobHistoryRecorded: however often a job is detached from, reattached to, lost
\* and restored by a reload, the query history gets at most one entry for it, and
\* the entry tells how the job ended, or a failure if its result was gone first.
HistoryOnce ==
    \A j \in Job : history[j] # <<>> =>
        \/ history[j] = <<status[j]>>
        \/ history[j] = <<"failed">> /\ j \notin known

\* What is on screen is what the job published so far, from its first event and
\* without a gap or a repetition across retries and reattachments; when the tab
\* has been told the end, it is everything.
ShownIsTheStream ==
    run.kind = "detached" /\ run.job # None =>
        /\ shown = SubSeq(events[run.job], 1, Len(shown))
        /\ run.ended \in Service!Ended => shown = events[run.job]

\* A job that the tab knows is given up only when it has ended, when the service
\* does not know it, for a run on the session, or with the tab; a reload on the
\* way does not lose it.
JobIsNotLost ==
    LET j == tab.active IN
     tab.open /\ tab'.open /\ j # None /\ j \in known /\ tab'.active # j =>
         status[j] \in Service!Ended \/ run'.kind = "attached"
=============================================================================

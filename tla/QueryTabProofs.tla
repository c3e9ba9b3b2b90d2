--------------------------- MODULE QueryTabProofs ---------------------------
(***************************************************************************)
(* Proofs about QueryTab, for any jobs, events, page size, number of       *)
(* retries and of reloads.  The tab, its descriptor and its run agree on   *)
(* the job; a job that none of them has recorded has no entry in the       *)
(* history; what is shown is a prefix of what the job has published, up to *)
(* the cursor; and the service only adds to what it published.             *)
(***************************************************************************)
EXTENDS QueryTab, SequenceTheorems, TLAPS

\* What the code takes for granted of a job id and of the server's page, and that the
\* bounds are numbers.
Assumed == None \notin Job /\ {PageSize, PollRetries, MaxReloads} \subseteq Nat

Ended == Service!Ended

TabState == [open : BOOLEAN, running : BOOLEAN, detachable : BOOLEAN, active : Job \cup {None},
             recorded : BOOLEAN, cancelOnClose : BOOLEAN, off : BOOLEAN]
RunState == [at : {"idle", "post", "started", "poll", "wait", "stream", "reread"},
             kind : {"none", "attached", "detached"}, job : Job \cup {None}, cursor : Nat,
             failures : Nat, aborted : BOOLEAN, ended : Ended \cup {"unknown", "expired"}]

Typed ==
    /\ known \subseteq Job
    /\ status \in [Job -> Service!Live \cup Ended \cup {"none"}]
    /\ events \in [Job -> Seq(Event)] /\ shown \in Seq(Event)
    /\ tab \in TabState /\ run \in RunState
    /\ history \in [Job -> Seq(Ended)]
    /\ saved \in [job : Job \cup {None}, recorded : BOOLEAN] \cup {None}

Unresolved == tab.detachable /\ tab.active # None

\* The tab runs while the closure does, and both know the same job.
RunFits ==
    /\ tab.running <=> run.at # "idle"
    /\ run.at \in {"poll", "wait"} =>
         run.kind = "detached" /\ run.job = tab.active /\ run.job # None /\ run.cursor = Len(shown)
    /\ run.at \in {"post", "started", "stream", "reread"} => tab.active = None
    /\ run.at \in {"post", "started"} => run.kind = "detached" /\ ~tab.recorded /\ run.cursor = 0 /\ shown = <<>>
    /\ run.at = "post" => run.job = None
    /\ run.at = "started" => run.job # None /\ status[run.job] # "none" /\ history[run.job] = <<>>
    /\ run.at \in {"stream", "reread"} => run.kind = "attached"
    /\ run.at # "idle" => run.ended = "unknown"

\* The job of the tab has been started; one that is over has no claim any more.
TabFits ==
    tab.active # None =>
        /\ status[tab.active] # "none"
        /\ ~tab.recorded => history[tab.active] = <<>>
        /\ tab.open /\ saved # None => saved.job = tab.active
        /\ ~tab.running /\ ~tab.detachable /\ tab.active \in known => status[tab.active] \in Ended

SavedFits ==
    saved # None /\ saved.job # None =>
        status[saved.job] # "none" /\ (~saved.recorded => history[saved.job] = <<>>)

\* An entry is of a job that is over, or gone for good.
HistoryFits ==
    \A j \in Job : history[j] # <<>> =>
        \/ history[j] = <<status[j]>> /\ status[j] \in Ended
        \/ history[j] = <<"failed">> /\ j \notin known /\ status[j] # "none"

Prefix(s, t) == Len(s) <= Len(t) /\ \A i \in 1..Len(s) : s[i] = t[i]

StreamFits ==
    run.kind = "detached" /\ run.job # None =>
        /\ Prefix(shown, events[run.job])
        /\ run.ended \in Ended => Len(shown) = Len(events[run.job]) /\ status[run.job] \in Ended

\* A run that waits for its dialog finds the tab as it was.
DialogFits ==
    /\ dialog \in {"attached", "detached"} => run.at = "idle"
    /\ dialog = "detached" => ~Unresolved

Good == RunFits /\ TabFits /\ SavedFits /\ HistoryFits /\ StreamFits /\ DialogFits

\* Only a run that polls has shown anything of its job.
CountsFit(r) == r.failures \in 0..PollRetries /\ (r.at \notin {"poll", "wait"} => r.cursor = 0)

Bounded ==
    /\ down \in BOOLEAN /\ session \in SessionState /\ reloads \in 0..MaxReloads
    /\ dialog \in {"none", "attached", "detached", "leave", "job", "transaction", "session"}
    /\ CountsFit(run)

IInv == Assumed /\ Typed /\ Good /\ Bounded

-----------------------------------------------------------------------------
(* The service only adds to what it published, and what is over stays over *)

Grows ==
    /\ known' \subseteq Job /\ status' \in [Job -> Service!Live \cup Ended \cup {"none"}]
    /\ events' \in [Job -> Seq(Event)]
    /\ \A j \in Job :
         /\ status[j] # "none" => status'[j] # "none"
         /\ status[j] \in Ended => status'[j] = status[j] /\ Len(events'[j]) = Len(events[j])
         /\ Prefix(events[j], events'[j])
         /\ j \in known' => j \in known \/ status[j] = "none"

LEMMA StillGrows == Typed /\ UNCHANGED service => Grows
  BY DEF Typed, service, Grows, Prefix

LEMMA StartGrows ==
    ASSUME Typed, NEW j \in Job, Service!Start(j)
    PROVE  Grows /\ status'[j] # "none" /\ status[j] = "none"
  BY DEF Typed, Service!Start, Grows, Prefix, Service!Forgettable, Service!Live, Ended, Service!Ended

LEMMA DeleteGrows == ASSUME Typed, NEW j \in Job, Delete(j) PROVE Grows
<1>1. CASE Service!RequestCancel(j)
  BY <1>1 DEF Typed, Service!RequestCancel, Grows, Prefix, Service!Live, Ended, Service!Ended
<1> QED BY <1>1, StillGrows DEF Delete

LEMMA WorkGrows == ASSUME Typed, NEW j \in Job, ServiceWorks(j) PROVE Grows
<1>1. ASSUME NEW e \in Event, Service!Publish(j, <<e>>) PROVE Grows
  <2>1. events[j] \in Seq(Event) /\ events[j] \o <<e>> \in Seq(Event) BY <1>1 DEF Typed
  <2>2. Prefix(events[j], events[j] \o <<e>>) BY <2>1 DEF Prefix
  <2>3. events' = [events EXCEPT ![j] = events[j] \o <<e>>] /\ status[j] \notin Ended /\ UNCHANGED <<known, status>>
    BY <1>1 DEF Service!Publish, Service!Live, Ended, Service!Ended
  <2>4. \A k \in Job : Prefix(events[k], events[k]) BY DEF Prefix, Typed
  <2> QED BY <2>1, <2>2, <2>3, <2>4 DEF Typed, Grows
<1>2. ASSUME NEW s \in Ended, Service!End(j, s) PROVE Grows
  BY <1>2 DEF Typed, Service!End, Grows, Prefix, Service!Live, Ended, Service!Ended
<1> QED BY <1>1, <1>2 DEF ServiceWorks, Ended

LEMMA ForgettingGrows == ASSUME Typed, ServiceForgets PROVE Grows
  BY DEF Typed, ServiceForgets, Service!Forget, Service!Shutdown, Service!Forgettable, Grows, Prefix

LEMMA PrefixGrows ==
    ASSUME NEW r \in Seq(Event), NEW s \in Seq(Event), NEW t \in Seq(Event), Prefix(r, s), Prefix(s, t)
    PROVE  Prefix(r, t)
  BY DEF Prefix

-----------------------------------------------------------------------------
(* Steps that leave the run, its job and the results alone *)

LEMMA QuietStep ==
    ASSUME Assumed, Typed, Good, Grows, UNCHANGED <<shown, history>>,
           tab' \in TabState, tab'.active = tab.active, tab'.running = tab.running,
           tab'.detachable = tab.detachable, tab'.recorded = tab.recorded, tab'.open => tab.open,
           run' \in RunState, run'.at = run.at, run'.kind = run.kind, run'.job = run.job,
           run'.cursor = run.cursor, run'.ended = run.ended,
           saved' = saved \/ saved' = None \/ (saved' = Describe(tab) /\ UNCHANGED tab),
           DialogFits'
    PROVE  Typed' /\ Good'
<1>1. Typed'
  BY DEF Typed, Grows, Describe, TabState
<1>2. RunFits' BY DEF Good, RunFits, Grows, Typed, RunState
<1>3. TabFits'
  <2>1. tab'.open /\ saved' # None /\ tab.active # None => saved'.job = tab.active
    BY DEF Good, TabFits, Describe
  <2> QED BY <2>1 DEF Good, TabFits, Grows, Typed, TabState
<1>4. SavedFits'
  <2>1. saved' = Describe(tab) /\ saved' # None => saved' = [job |-> tab.active, recorded |-> tab.recorded]
    BY DEF Describe
  <2> QED BY <2>1 DEF Good, SavedFits, TabFits, Grows, Typed, TabState
<1>5. HistoryFits' BY DEF Good, HistoryFits, Grows, Typed
<1>6. StreamFits'
  <2> SUFFICES ASSUME run.kind = "detached", run.job # None
               PROVE  /\ Prefix(shown, events'[run.job])
                      /\ run.ended \in Ended =>
                           Len(shown) = Len(events'[run.job]) /\ status'[run.job] \in Ended
    BY DEF StreamFits
  <2>1. run.job \in Job BY DEF Typed, RunState
  <2>2. Prefix(shown, events[run.job]) /\ Prefix(events[run.job], events'[run.job])
    BY <2>1 DEF Good, StreamFits, Grows
  <2>3. Prefix(shown, events'[run.job]) BY <2>1, <2>2, PrefixGrows DEF Typed, Grows
  <2> QED BY <2>1, <2>3 DEF Good, StreamFits, Grows
<1> QED BY <1>1, <1>2, <1>3, <1>4, <1>5, <1>6 DEF Good

-----------------------------------------------------------------------------
(* A run begins *)

LEMMA NoRunIsTyped == NoRun \in RunState
  BY DEF NoRun, RunState

LEMMA DetachedIsGood ==
    ASSUME Assumed, Typed, Good, UNCHANGED <<service, history, saved>>, NEW job \in Job \cup {None},
           NEW t \in TabState, Detached(job, t), shown' = <<>>, dialog' \notin {"attached", "detached"},
           job # None => /\ status[job] # "none" /\ (~t.recorded => history[job] = <<>>)
                         /\ t.open /\ saved # None => saved.job = job
    PROVE  Typed' /\ Good'
<1>1. /\ run' \in RunState /\ run'.at = (IF job = None THEN "post" ELSE "poll") /\ run'.kind = "detached"
      /\ run'.job = job /\ run'.cursor = 0 /\ run'.ended = "unknown"
  BY DEF Detached, NoRun, RunState
<1>2. /\ tab' \in TabState /\ tab'.running /\ tab'.detachable /\ tab'.active = job /\ tab'.open = t.open
      /\ (tab'.recorded <=> t.recorded /\ job # None)
  BY DEF Detached, TabState
<1>3. shown' \in Seq(Event) /\ Len(shown') = 0 BY DEF Typed
<1>4. Typed' BY <1>1, <1>2, <1>3 DEF Typed, service
<1>5. RunFits' BY <1>1, <1>2, <1>3 DEF RunFits
<1>6. TabFits' BY <1>2 DEF TabFits, service
<1>7. SavedFits' /\ HistoryFits' BY DEF Good, SavedFits, HistoryFits, service
<1>8. StreamFits' BY <1>1, <1>3 DEF StreamFits, Prefix, Typed, Ended, Service!Ended, Assumed, service
<1>9. DialogFits' BY DEF DialogFits
<1> QED BY <1>4, <1>5, <1>6, <1>7, <1>8, <1>9 DEF Good

LEMMA AttachedIsGood ==
    ASSUME Assumed, Typed, Good, UNCHANGED <<service, history, saved>>, Attached,
           dialog' \notin {"attached", "detached"}
    PROVE  Typed' /\ Good'
<1>1. /\ run' \in RunState /\ run'.at = "stream" /\ run'.kind = "attached" /\ run'.job = None
      /\ run'.ended = "unknown"
  BY DEF Attached, NoRun, RunState
<1>2. tab' \in TabState /\ tab'.running /\ tab'.active = None BY DEF Attached, Typed, TabState
<1>3. shown' \in Seq(Event) BY DEF Attached
<1>4. Typed' BY <1>1, <1>2, <1>3 DEF Typed, service
<1>5. RunFits' /\ TabFits' /\ StreamFits' BY <1>1, <1>2 DEF RunFits, TabFits, StreamFits
<1>6. SavedFits' /\ HistoryFits' BY DEF Good, SavedFits, HistoryFits, service
<1>7. DialogFits' BY DEF DialogFits
<1> QED BY <1>4, <1>5, <1>6, <1>7 DEF Good

LEMMA BeginIsGood ==
    ASSUME Assumed, Typed, Good, UNCHANGED <<service, history, saved>>, NEW kind, Begin(kind),
           dialog' \notin {"attached", "detached"}
    PROVE  Typed' /\ Good'
<1>1. CASE Attached BY <1>1, AttachedIsGood
<1>2. CASE Detached(None, tab) /\ shown' = <<>> BY <1>2, DetachedIsGood DEF Typed
<1> QED BY <1>1, <1>2 DEF Begin

LEMMA RunIsGood == ASSUME Assumed, Typed, Good, Run PROVE Typed' /\ Good'
<1>1. UNCHANGED <<service, history, saved>> /\ dialog = "none" /\ tab.open /\ ~tab.running /\ run.at = "idle"
  BY DEF Run, Free, stored, Good, RunFits
<1>2. CASE Reattaches /\ Reattach /\ UNCHANGED dialog
  <2>1. tab.active # None /\ tab.active \in Job \cup {None} /\ tab \in TabState
    BY <1>2 DEF Reattaches, Typed, TabState
  <2> QED BY <1>1, <1>2, <2>1, DetachedIsGood DEF Reattach, Good, TabFits
<1>3. CASE Begin(KindOfRun) /\ UNCHANGED dialog BY <1>1, <1>3, BeginIsGood
<1>4. CASE ~Reattaches /\ dialog' = KindOfRun /\ UNCHANGED <<run, tab, shown>>
  <2>1. DialogFits' BY <1>1, <1>4 DEF DialogFits, KindOfRun, Reattaches, Unresolved
  <2> QED BY <1>1, <1>4, <2>1, StillGrows, QuietStep DEF Typed
<1> QED BY <1>2, <1>3, <1>4 DEF Run

LEMMA RunAnywayIsGood == ASSUME Assumed, Typed, Good, RunAnyway PROVE Typed' /\ Good'
  BY BeginIsGood DEF RunAnyway, stored

LEMMA ReloadIsGood == ASSUME Assumed, Typed, Good, Reload PROVE Typed' /\ Good'
<1> DEFINE t == NewTab(saved.job, saved.recorded)
<1>1. saved \in [job : Job \cup {None}, recorded : BOOLEAN] /\ saved # None BY DEF Typed, Reload
<1>2. t \in TabState /\ t.active = saved.job /\ t.recorded = saved.recorded /\ ~t.running
  BY <1>1 DEF NewTab, TabState
<1>3. UNCHANGED <<service, history, saved>> /\ shown' = <<>> /\ dialog' = "none" BY DEF Reload
<1>4. CASE saved.job # None
  <2>1. Detached(saved.job, t) BY <1>4 DEF Reload
  <2> HIDE DEF t
  <2> QED BY <1>1, <1>2, <1>3, <1>4, <2>1, DetachedIsGood DEF Good, SavedFits
<1>5. CASE saved.job = None
  <2>1. tab' = t /\ run' = NoRun BY <1>5 DEF Reload
  <2>2. run'.at = "idle" /\ run'.kind = "none" BY <2>1 DEF NoRun
  <2> HIDE DEF t
  <2>3. Typed' BY <1>2, <1>3, <2>1, NoRunIsTyped DEF Typed, service
  <2>4. RunFits' /\ TabFits' /\ StreamFits' /\ DialogFits'
    BY <1>2, <1>3, <1>5, <2>1, <2>2 DEF RunFits, TabFits, StreamFits, DialogFits
  <2>5. SavedFits' /\ HistoryFits' BY <1>3 DEF Good, SavedFits, HistoryFits, service
  <2> QED BY <2>3, <2>4, <2>5 DEF Good
<1> QED BY <1>4, <1>5

-----------------------------------------------------------------------------
(* A detached run ends *)

\* The job it ends with is that of the tab, if it has one.
LEMMA FinallyIsGood ==
    ASSUME Assumed, Typed, Good, UNCHANGED <<service, dialog>>, shown' \in Seq(Event), run.at # "idle",
           NEW t \in TabState, NEW job \in Job \cup {None}, NEW ended \in Ended \cup {"unknown", "expired"},
           NEW reattach \in BOOLEAN, Finally(t, job, ended, reattach),
           ended = "unknown" => reattach,
           ended = "expired" => job # None /\ job \notin known,
           (t = tab /\ ended # "expired") \/ (t = [tab EXCEPT !.active = None] /\ ended = "expired"),
           job = tab.active, job # None => Prefix(shown', events[job]),
           job # None /\ ended \in Ended => Len(shown') = Len(events[job]) /\ ended = status[job]
    PROVE  Typed' /\ Good'
<1> DEFINE records == ended # "unknown" /\ ~t.recorded
           unresolved == job # None /\ ended = "unknown"
<1>1. /\ tab' \in TabState /\ ~tab'.running /\ tab'.active = t.active /\ tab'.open = t.open
      /\ (tab'.detachable <=> unresolved) /\ (tab'.recorded <=> t.recorded \/ records)
  BY DEF Finally, TabState
<1>2. run' \in RunState /\ run'.at = "idle" /\ run'.kind = run.kind /\ run'.job = job /\ run'.ended = ended
  BY DEF Finally, Typed, NoRun, RunState
<1>3. t.recorded = tab.recorded /\ t.open = tab.open BY DEF Typed, TabState
<1>4. history' \in [Job -> Seq(Ended)]
      /\ (records /\ job # None => history' = [history EXCEPT ![job] = <<IF ended = "expired" THEN "failed" ELSE ended>>])
      /\ (~(records /\ job # None) => history' = history)
  <2>1. CASE records /\ job # None
    <3>1. history[job] = <<>> BY <1>3, <2>1 DEF Good, TabFits
    <3>2. (IF ended = "expired" THEN "failed" ELSE ended) \in Ended BY <2>1 DEF Ended, Service!Ended
    <3>3. history' = [history EXCEPT ![job] = Append(<<>>, IF ended = "expired" THEN "failed" ELSE ended)]
      BY <2>1, <3>1 DEF Finally
    <3> QED BY <2>1, <3>2, <3>3 DEF Typed
  <2>2. CASE ~(records /\ job # None) BY <2>2 DEF Finally, Typed
  <2> QED BY <2>1, <2>2
<1>5. /\ saved' \in [job : Job \cup {None}, recorded : BOOLEAN] \cup {None}
      /\ saved' # None /\ (records \/ ended = "expired") =>
           saved'.job = tab'.active /\ saved'.recorded /\ tab'.recorded
      /\ (~(records \/ ended = "expired") => saved' = saved)
  <2>1. CASE records \/ ended = "expired"
    <3>1. saved' = Describe(tab') BY <2>1 DEF Finally
    <3> QED BY <1>1, <2>1, <3>1 DEF Describe, TabState
  <2>2. CASE ~(records \/ ended = "expired") BY <2>2 DEF Finally, Typed
  <2> QED BY <2>1, <2>2
<1>6. Typed' BY <1>1, <1>2, <1>4, <1>5 DEF Typed, service
<1>7. RunFits' BY <1>1, <1>2 DEF RunFits
<1>8. TabFits'
  <2> SUFFICES ASSUME tab'.active # None
               PROVE  /\ status[job] # "none" /\ (~tab'.recorded => history'[job] = <<>>)
                      /\ tab'.open /\ saved' # None => saved'.job = job
                      /\ ~tab'.detachable => status[job] \in Ended
    BY <1>1 DEF TabFits, service, Typed, TabState
  <2>1. t = tab /\ job # None /\ tab'.active = job BY <1>1 DEF Typed, TabState
  <2>2. status[job] # "none" /\ (~tab'.recorded => history'[job] = <<>>)
    BY <1>1, <1>4, <2>1 DEF Good, TabFits
  <2>3. tab'.open /\ saved' # None => saved'.job = job BY <1>1, <1>5, <2>1 DEF Good, TabFits
  <2>4. ended # "expired" BY <1>1, <2>1 DEF TabState
  <2>5. ~tab'.detachable => ended \in Ended BY <1>1, <2>1, <2>4
  <2>6. ~tab'.detachable => status[job] \in Ended BY <2>1, <2>5
  <2> QED BY <2>2, <2>3, <2>6
<1>9. SavedFits' BY <1>4, <1>5, <1>8 DEF Good, SavedFits, TabFits, service
<1>10. HistoryFits'
  <2>1. job # None => status[job] # "none" BY DEF Good, TabFits
  <2> QED BY <1>4, <2>1 DEF Good, HistoryFits, service, Typed
<1>11. StreamFits' BY <1>2 DEF StreamFits, service
<1>12. DialogFits' BY <1>2 DEF Good, DialogFits
<1> QED BY <1>6, <1>7, <1>8, <1>9, <1>10, <1>11, <1>12 DEF Good

LEMMA StartFailsIsGood == ASSUME Assumed, Typed, Good, StartFails PROVE Typed' /\ Good'
<1>1. tab.active = None /\ run.at # "idle" BY DEF StartFails, Good, RunFits
<1>2. Finally(tab, None, "failed", FALSE) /\ UNCHANGED <<service, dialog>> /\ shown' \in Seq(Event)
  BY DEF StartFails, Typed
<1>3. "failed" \in Ended BY DEF Ended, Service!Ended
<1>4. tab \in TabState /\ None \in Job \cup {None} /\ FALSE \in BOOLEAN BY DEF Typed
<1>5. "failed" \in Ended \cup {"unknown", "expired"} /\ "failed" # "unknown" /\ "failed" # "expired" BY <1>3
<1> QED BY <1>1, <1>2, <1>4, <1>5, FinallyIsGood

\* The job is gone: nothing more can be learned of it.
LEMMA PollExpiredIsGood == ASSUME Assumed, Typed, Good, PollExpired PROVE Typed' /\ Good'
<1> DEFINE t == [tab EXCEPT !.active = None]
<1>1. run.kind = "detached" /\ run.job = tab.active /\ run.job # None /\ run.job \notin known /\ run.job \in Job
  BY DEF PollExpired, Good, RunFits, Typed, RunState
<1>2. t \in TabState BY DEF Typed, TabState
<1>3. Finally(t, run.job, "expired", FALSE) /\ UNCHANGED <<service, dialog, shown>> /\ run.at # "idle"
  BY DEF PollExpired
<1>4. "expired" \notin Ended BY DEF Ended, Service!Ended
<1>5. Prefix(shown', events[run.job]) BY <1>1, <1>3 DEF Good, StreamFits
<1>6. shown' \in Seq(Event) BY <1>3 DEF Typed
<1> HIDE DEF t
<1>7. t = [tab EXCEPT !.active = None] BY DEF t
<1>8. "expired" \in Ended \cup {"unknown", "expired"} /\ FALSE \in BOOLEAN OBVIOUS
<1> QED BY <1>8, <1>1, <1>2, <1>3, <1>4, <1>5, <1>6, <1>7, FinallyIsGood

\* Detached, by an abort or because the polls keep failing: the job runs on.
LEMMA DetachingIsGood ==
    ASSUME Assumed, Typed, Good, run.at \in {"poll", "wait"}, Finally(tab, run.job, "unknown", TRUE),
           UNCHANGED <<service, shown, dialog>>
    PROVE  Typed' /\ Good'
<1>1. run.kind = "detached" /\ run.job = tab.active /\ run.job # None /\ run.job \in Job
  BY DEF Good, RunFits, Typed, RunState
<1>2. "unknown" \notin Ended BY DEF Ended, Service!Ended
<1>3. Prefix(shown', events[run.job]) BY <1>1 DEF Good, StreamFits
<1> QED BY <1>1, <1>2, <1>3, FinallyIsGood DEF Typed

\* A snapshot takes up where the last one ended.
LEMMA PageContinues ==
    ASSUME Assumed, Typed, NEW j \in Job, Prefix(shown, events[j])
    PROVE  LET page == Page(j, Len(shown))
           IN /\ page \in Seq(Event) /\ shown \o page \in Seq(Event)
              /\ Len(shown \o page) = Len(shown) + Len(page)
              /\ Prefix(shown \o page, events[j])
<1> DEFINE from == Len(shown)
           to == IF from + PageSize < Len(events[j]) THEN from + PageSize ELSE Len(events[j])
           page == SubSeq(events[j], from + 1, to)
<1>1. events[j] \in Seq(Event) /\ shown \in Seq(Event) /\ PageSize \in Nat BY DEF Typed, Assumed
<1>2. from \in Nat /\ Len(events[j]) \in Nat /\ from <= Len(events[j]) BY <1>1 DEF Prefix
<1>3. to \in Nat /\ from <= to /\ to <= Len(events[j]) BY <1>1, <1>2
<1> HIDE DEF to
<1>4. \A i \in (from + 1)..to : events[j][i] \in Event
  BY <1>1, <1>2, <1>3, ElementOfSeq
<1> HIDE DEF from
<1>5. /\ page \in Seq(Event) /\ Len(page) = (IF from + 1 <= to THEN to - (from + 1) + 1 ELSE 0)
      /\ \A i \in 1..(to - (from + 1) + 1) : page[i] = events[j][from + 1 + i - 1]
  BY <1>2, <1>3, <1>4, SubSeqProperties
<1>6. Len(page) = to - from BY <1>2, <1>3, <1>5
<1>9. \A i \in 1..Len(page) : page[i] = events[j][from + i]
  BY <1>2, <1>3, <1>5, <1>6
<1> HIDE DEF page
<1>7. /\ shown \o page \in Seq(Event) /\ Len(shown \o page) = from + Len(page)
      /\ \A i \in 1..(from + Len(page)) : (shown \o page)[i] = IF i <= from THEN shown[i] ELSE page[i - from]
  BY <1>1, <1>5, ConcatProperties DEF from
<1>8. Prefix(shown \o page, events[j])
  <2>1. Len(shown \o page) = to BY <1>2, <1>3, <1>6, <1>7
  <2>2. ASSUME NEW i \in 1..to PROVE (shown \o page)[i] = events[j][i]
    <3>1. CASE i <= from BY <1>2, <1>3, <1>6, <1>7, <3>1 DEF Prefix, from
    <3>2. CASE i > from
      <4>1. (shown \o page)[i] = page[i - from] BY <1>2, <1>3, <1>6, <1>7, <3>2
      <4>2. i - from \in 1..Len(page) BY <1>2, <1>3, <1>6, <3>2
      <4> QED BY <1>2, <1>9, <4>1, <4>2
    <3>3. i <= from \/ i > from BY <1>2, <1>3
    <3> QED BY <3>1, <3>2, <3>3
  <2> QED BY <1>3, <2>1, <2>2 DEF Prefix
<1> QED BY <1>5, <1>7, <1>8 DEF Page, page, to, from

LEMMA PolledIsGood == ASSUME Assumed, Typed, Good, Polled PROVE Typed' /\ Good'
<1> DEFINE page == Page(run.job, run.cursor)
           cursor == run.cursor + Len(page)
<1>1. /\ run.kind = "detached" /\ run.job = tab.active /\ run.job # None /\ run.job \in Job
      /\ run.cursor = Len(shown) /\ run.at = "poll" /\ run.ended = "unknown"
  BY DEF Polled, Good, RunFits, Typed, RunState
<1>2. /\ shown' = shown \o page /\ shown' \in Seq(Event) /\ Len(shown') = cursor /\ cursor \in Nat
      /\ Prefix(shown', events[run.job])
  <2>1. Prefix(shown, events[run.job]) BY <1>1 DEF Good, StreamFits
  <2>2. shown' = shown \o page BY DEF Polled
  <2> QED BY <1>1, <2>1, <2>2, PageContinues DEF Typed, RunState
<1>3. UNCHANGED <<service, session, dialog, reloads>> BY DEF Polled
<1>4. CASE cursor = Len(events[run.job]) /\ status[run.job] \in Ended
  <2>1. Finally(tab, run.job, status[run.job], FALSE) BY <1>4 DEF Polled, Ended
  <2>2. "unknown" \notin Ended /\ "expired" \notin Ended BY DEF Ended, Service!Ended
  <2> HIDE DEF page
  <2> QED BY <1>1, <1>2, <1>3, <1>4, <2>1, <2>2, FinallyIsGood DEF Typed
<1>5. CASE run' = [run EXCEPT !.cursor = cursor, !.failures = 0] /\ UNCHANGED <<tab, history, saved>>
  <2>1. /\ run' \in RunState /\ run'.at = "poll" /\ run'.kind = run.kind /\ run'.job = run.job
        /\ run'.cursor = cursor /\ run'.ended = "unknown"
    BY <1>1, <1>2, <1>5 DEF Typed, RunState
  <2> HIDE DEF cursor, page
  <2>2. Typed' BY <1>2, <1>3, <1>5, <2>1 DEF Typed, service
  <2>3. RunFits' /\ TabFits' BY <1>1, <1>2, <1>3, <1>5, <2>1 DEF Good, RunFits, TabFits, service
  <2>4. SavedFits' /\ HistoryFits' BY <1>3, <1>5 DEF Good, SavedFits, HistoryFits, service
  <2>5. StreamFits' BY <1>2, <1>3, <2>1 DEF StreamFits, Ended, Service!Ended, service
  <2>6. DialogFits' BY <1>1, <1>3 DEF Good, DialogFits
  <2> QED BY <2>2, <2>3, <2>4, <2>5, <2>6 DEF Good
<1> QED BY <1>4, <1>5 DEF Polled, Ended

-----------------------------------------------------------------------------
(* The other steps of the run *)

LEMMA ServiceStartsIsGood ==
    ASSUME Assumed, Typed, Good, NEW j \in Job, ServiceStarts(j) PROVE Typed' /\ Good'
<1>1. Grows /\ status'[j] # "none" /\ status[j] = "none" /\ run.at = "post"
      /\ UNCHANGED <<tab, shown, dialog, history, saved, events>>
  BY StartGrows DEF ServiceStarts, stored, Service!Start
<1>2. run' \in RunState /\ run'.at = "started" /\ run'.kind = run.kind /\ run'.job = j /\ run'.cursor = run.cursor
      /\ run'.ended = run.ended
  BY DEF ServiceStarts, Typed, RunState
<1>3. j # None /\ history[j] = <<>>
  BY <1>1 DEF Assumed, Good, HistoryFits, Ended, Service!Ended
<1>4. Typed' BY <1>1, <1>2 DEF Typed, Grows
<1>5. RunFits' BY <1>1, <1>2, <1>3 DEF Good, RunFits
<1>6. TabFits' BY <1>1, <1>2 DEF Good, RunFits, TabFits
<1>7. SavedFits' /\ HistoryFits' BY <1>1 DEF Good, SavedFits, HistoryFits, Grows, Typed
<1>8. StreamFits'
  <2>1. shown = <<>> /\ run.ended = "unknown" BY <1>1 DEF Good, RunFits
  <2> QED BY <1>1, <1>2, <2>1 DEF StreamFits, Prefix, Ended, Service!Ended, Typed
<1>9. DialogFits' BY <1>1 DEF Good, DialogFits
<1> QED BY <1>4, <1>5, <1>6, <1>7, <1>8, <1>9 DEF Good

LEMMA StartAnsweredIsGood ==
    ASSUME Assumed, Typed, Good, StartAnswered PROVE Typed' /\ Good'
<1>1. run.at = "started" /\ UNCHANGED <<service, shown, dialog, history>> /\ saved' = Describe(tab')
  BY DEF StartAnswered
<1>2. run' \in RunState /\ run'.at = "poll" /\ run'.kind = run.kind /\ run'.job = run.job /\ run'.cursor = run.cursor
      /\ run'.ended = run.ended
  BY DEF StartAnswered, Typed, RunState
<1>3. tab' \in TabState /\ tab'.active = run.job /\ tab'.running = tab.running /\ tab'.recorded = tab.recorded
      /\ tab'.detachable = tab.detachable /\ tab'.open = tab.open
  BY DEF StartAnswered, Typed, TabState, RunState
<1>4. /\ run.kind = "detached" /\ run.job # None /\ status[run.job] # "none" /\ history[run.job] = <<>>
      /\ shown = <<>> /\ run.cursor = 0 /\ run.ended = "unknown" /\ tab.running
  BY <1>1 DEF Good, RunFits
<1>5. Typed' BY <1>1, <1>2, <1>3 DEF Typed, service, Describe, TabState
<1>6. RunFits' BY <1>1, <1>2, <1>3, <1>4 DEF RunFits, service
<1>7. TabFits' BY <1>1, <1>3, <1>4 DEF TabFits, Describe, service
<1>8. SavedFits' BY <1>1, <1>3, <1>4 DEF SavedFits, Describe, service
<1>9. HistoryFits' BY <1>1 DEF Good, HistoryFits, service
<1>10. StreamFits' BY <1>1, <1>2, <1>4 DEF Good, StreamFits, service, Ended, Service!Ended
<1>11. DialogFits' BY <1>1 DEF Good, DialogFits
<1> QED BY <1>5, <1>6, <1>7, <1>8, <1>9, <1>10, <1>11 DEF Good

\* The run waits, or no longer waits, or the session's stream has ended.
LEMMA RunMovesOn ==
    ASSUME Assumed, Typed, Good, UNCHANGED <<service, tab, shown, dialog, history, saved>>,
           run' \in RunState, run'.kind = run.kind, run'.job = run.job, run'.cursor = run.cursor,
           run'.ended = run.ended,
           (run.at \in {"poll", "wait"} /\ run'.at \in {"poll", "wait"})
           \/ (run.at = "stream" /\ run'.at = "reread")
    PROVE  Typed' /\ Good'
<1>1. Typed' BY DEF Typed, service
<1>2. RunFits' /\ TabFits' BY DEF Good, RunFits, TabFits, service
<1>3. SavedFits' /\ HistoryFits' /\ StreamFits' BY DEF Good, SavedFits, HistoryFits, StreamFits, service
<1>4. DialogFits' BY DEF Good, DialogFits
<1> QED BY <1>1, <1>2, <1>3, <1>4 DEF Good

LEMMA PollFailsIsGood == ASSUME Assumed, Typed, Good, PollFails PROVE Typed' /\ Good'
<1>1. CASE run' = [run EXCEPT !.at = "wait", !.failures = @ + 1] /\ UNCHANGED <<tab, history, saved>>
  <2>1. run \in RunState /\ run.failures + 1 \in Nat BY DEF Typed, RunState
  <2>2. run' \in RunState /\ run'.at = "wait" /\ run'.kind = run.kind /\ run'.job = run.job
        /\ run'.cursor = run.cursor /\ run'.ended = run.ended
    BY <1>1, <2>1 DEF RunState
  <2> QED BY <1>1, <2>2, RunMovesOn DEF PollFails
<1>2. CASE Finally(tab, run.job, "unknown", TRUE)
  BY <1>2, DetachingIsGood DEF PollFails
<1> QED BY <1>1, <1>2 DEF PollFails

LEMMA BackoffEndsIsGood == ASSUME Assumed, Typed, Good, BackoffEnds PROVE Typed' /\ Good'
  BY RunMovesOn DEF BackoffEnds, stored, Typed, RunState

LEMMA AbortedIsGood == ASSUME Assumed, Typed, Good, Aborted PROVE Typed' /\ Good'
  BY DetachingIsGood DEF Aborted

LEMMA StreamEndsIsGood == ASSUME Assumed, Typed, Good, StreamEnds PROVE Typed' /\ Good'
  BY RunMovesOn DEF StreamEnds, stored, Typed, RunState

LEMMA AttachedEndsIsGood == ASSUME Assumed, Typed, Good, AttachedEnds PROVE Typed' /\ Good'
<1>1. run.at = "reread" /\ UNCHANGED <<service, shown, dialog, stored>> BY DEF AttachedEnds
<1>2. run' \in RunState /\ run'.at = "idle" /\ run'.kind = "none" BY NoRunIsTyped DEF AttachedEnds, NoRun
<1>3. tab' \in TabState /\ ~tab'.running /\ tab'.active = None
  BY <1>1 DEF AttachedEnds, Typed, TabState, Good, RunFits
<1>4. Typed' BY <1>1, <1>2, <1>3 DEF Typed, service, stored
<1>5. RunFits' /\ TabFits' /\ StreamFits' BY <1>2, <1>3 DEF RunFits, TabFits, StreamFits
<1>6. SavedFits' /\ HistoryFits' BY <1>1 DEF Good, SavedFits, HistoryFits, service, stored
<1>7. DialogFits' BY <1>1, <1>3 DEF Good, DialogFits
<1> QED BY <1>4, <1>5, <1>6, <1>7, <1>2, <1>3 DEF Good, DialogFits, Unresolved

-----------------------------------------------------------------------------
(* The steps that leave the run where it is *)

LEMMA StandingStep ==
    ASSUME Assumed, Typed, Good, Grows, UNCHANGED <<tab, run, shown, history>>,
           saved' = saved \/ saved' = Describe(tab),
           dialog' = dialog \/ dialog' \notin {"attached", "detached"}
    PROVE  Typed' /\ Good'
<1>1. tab \in TabState /\ run \in RunState BY DEF Typed
<1>2. DialogFits' BY DEF Good, DialogFits, Unresolved
<1> QED BY <1>1, <1>2, QuietStep

LEMMA CancelIsGood == ASSUME Assumed, Typed, Good, Cancel PROVE Typed' /\ Good'
<1>1. tab \in TabState /\ run \in RunState /\ dialog = "none" /\ UNCHANGED <<shown, dialog, history, saved>>
  BY DEF Typed, Cancel, Free, stored
<1>2. DialogFits' BY <1>1 DEF DialogFits
<1>3. CASE tab.active # None /\ Delete(tab.active) /\ UNCHANGED run
           /\ \E answered \in BOOLEAN : tab' = [tab EXCEPT !.off = answered]
  <2>1. Grows BY <1>1, <1>3, DeleteGrows DEF TabState
  <2> QED BY <1>1, <1>2, <1>3, <2>1, QuietStep DEF TabState
<1>4. CASE run' = [run EXCEPT !.aborted = TRUE] /\ UNCHANGED <<service, tab>>
  <2>1. Grows BY <1>4, StillGrows
  <2> QED BY <1>1, <1>2, <1>4, <2>1, QuietStep DEF RunState
<1> QED BY <1>3, <1>4 DEF Cancel

LEMMA SessionIsGood ==
    ASSUME Assumed, Typed, Good, OpenSession \/ SessionAnswers \/ CloseSession \/ CloseAnyway
    PROVE  Typed' /\ Good'
<1>1. Grows BY StillGrows DEF OpenSession, SessionAnswers, CloseSession, CloseAnyway
<1> QED BY <1>1, StandingStep DEF OpenSession, SessionAnswers, CloseSession, CloseAnyway, stored

\* The tab as it is closed: the job may be the one to cancel.
ClosingTab(t) == t = tab \/ t = [tab EXCEPT !.cancelOnClose = TRUE]

LEMMA DisposeIsGood ==
    ASSUME Assumed, Typed, Good, NEW t, ClosingTab(t), Dispose(t), UNCHANGED <<shown, history>>
    PROVE  Typed' /\ Good'
<1>1. /\ t \in TabState /\ t.active = tab.active /\ t.running = tab.running /\ t.recorded = tab.recorded
      /\ t.detachable = tab.detachable
  BY DEF ClosingTab, Typed, TabState
<1>2. /\ tab' \in TabState /\ tab'.active = tab.active /\ tab'.running = tab.running
      /\ tab'.recorded = tab.recorded /\ tab'.detachable = tab.detachable /\ ~tab'.open
  BY <1>1 DEF Dispose, TabState
<1>3. /\ run' \in RunState /\ run'.at = run.at /\ run'.kind = run.kind /\ run'.job = run.job
      /\ run'.cursor = run.cursor /\ run'.ended = run.ended
  BY DEF Dispose, Typed, RunState
<1>4. t.active \in Job \cup {None} BY <1>1 DEF TabState
<1>5. Grows
  <2>1. CASE t.active # None /\ Delete(t.active) BY <1>4, <2>1, DeleteGrows
  <2>2. CASE UNCHANGED service BY <2>2, StillGrows
  <2> QED BY <2>1, <2>2 DEF Dispose
<1>6. DialogFits' /\ saved' = None BY DEF Dispose, DialogFits
<1> QED BY <1>2, <1>3, <1>5, <1>6, QuietStep

LEMMA AskTransactionIsGood ==
    ASSUME Assumed, Typed, Good, NEW t, ClosingTab(t), AskTransaction(t), UNCHANGED <<shown, history>>
    PROVE  Typed' /\ Good'
<1>1. CASE Dispose(t) BY <1>1, DisposeIsGood
<1>2. CASE dialog' = "transaction" /\ tab' = t /\ UNCHANGED <<service, session, run, saved>>
  <2>1. /\ t \in TabState /\ t.active = tab.active /\ t.running = tab.running /\ t.recorded = tab.recorded
        /\ t.detachable = tab.detachable /\ t.open = tab.open
    BY DEF ClosingTab, Typed, TabState
  <2>2. Grows /\ DialogFits' /\ run \in RunState BY <1>2, StillGrows DEF DialogFits, Typed
  <2> QED BY <1>2, <2>1, <2>2, QuietStep
<1> QED BY <1>1, <1>2 DEF AskTransaction

LEMMA ClosingIsGood ==
    ASSUME Assumed, Typed, Good, CloseTab \/ StopQuery \/ CancelAndClose \/ RollBackAndClose
    PROVE  Typed' /\ Good'
<1>1. UNCHANGED <<shown, history>>
  BY DEF CloseTab, StopQuery, CancelAndClose, RollBackAndClose
<1>2. ASSUME NEW d, d \notin {"attached", "detached"}, dialog' = d,
             UNCHANGED <<service, session, run, tab, saved>>
      PROVE  Typed' /\ Good'
  BY <1>1, <1>2, StillGrows, StandingStep
<1>3. CASE CloseTab BY <1>1, <1>2, <1>3, AskTransactionIsGood DEF CloseTab, AskJob, ClosingTab
<1>4. CASE StopQuery
  <2>1. CASE Dispose(tab) BY <1>1, <2>1, DisposeIsGood DEF ClosingTab
  <2>2. CASE dialog' \in {"none", "transaction"} /\ UNCHANGED <<service, session, tab, saved>>
    <3>1. /\ run' \in RunState /\ run'.at = run.at /\ run'.kind = run.kind /\ run'.job = run.job
          /\ run'.cursor = run.cursor /\ run'.ended = run.ended
      BY <1>4 DEF StopQuery, Typed, RunState
    <3>2. Grows /\ DialogFits' /\ tab \in TabState BY <2>2, StillGrows DEF DialogFits, Typed
    <3> QED BY <1>1, <2>2, <3>1, <3>2, QuietStep
  <2> QED BY <1>4, <2>1, <2>2 DEF StopQuery
<1>5. CASE CancelAndClose BY <1>1, <1>5, AskTransactionIsGood DEF CancelAndClose, ClosingTab
<1>6. CASE RollBackAndClose BY <1>1, <1>6, DisposeIsGood DEF RollBackAndClose, ClosingTab
<1> QED BY <1>3, <1>4, <1>5, <1>6

LEMMA DismissIsGood == ASSUME Assumed, Typed, Good, Dismiss \/ Save PROVE Typed' /\ Good'
<1>1. Grows BY StillGrows DEF Dismiss, Save
<1> QED BY <1>1, StandingStep DEF Dismiss, Save, stored

LEMMA ServiceIsGood ==
    ASSUME Assumed, Typed, Good, ServiceForgets \/ (\E j \in Job : ServiceWorks(j))
    PROVE  Typed' /\ Good'
<1>1. Grows BY ForgettingGrows, WorkGrows
<1>2. UNCHANGED <<tab, run, shown, dialog, history, saved>> BY DEF ServiceForgets, ServiceWorks, stored
<1> QED BY <1>1, <1>2, StandingStep

-----------------------------------------------------------------------------
(* What is counted stays within its bounds *)

LEMMA FreshCounts ==
    ASSUME Assumed
    PROVE  /\ CountsFit(NoRun)
           /\ \A at, kind, job : CountsFit([NoRun EXCEPT !.at = at, !.kind = kind, !.job = job])
           /\ \A at, kind : CountsFit([NoRun EXCEPT !.at = at, !.kind = kind])
           /\ \A kind, job, ended : CountsFit([NoRun EXCEPT !.kind = kind, !.job = job, !.ended = ended])
<1>1. PollRetries \in Nat BY DEF Assumed
<1> QED BY <1>1 DEF CountsFit, NoRun

LEMMA BeginCounts ==
    ASSUME Assumed, NEW kind, NEW job, NEW t, Begin(kind) \/ Detached(job, t) \/ Reattach PROVE CountsFit(run')
<1>1. ASSUME NEW j, NEW u, Detached(j, u) PROVE CountsFit(run')
  <2>1. PICK at : run' = [NoRun EXCEPT !.at = at, !.kind = "detached", !.job = j] BY <1>1 DEF Detached
  <2> QED BY <2>1, FreshCounts
<1>2. CASE Attached BY <1>2, FreshCounts DEF Attached
<1> QED BY <1>1, <1>2 DEF Begin, Reattach

LEMMA FinallyCounts ==
    ASSUME Assumed, NEW t, NEW job, NEW ended, NEW reattach, Finally(t, job, ended, reattach) PROVE CountsFit(run')
  BY FreshCounts DEF Finally

LEMMA RunIsCounted == ASSUME Assumed, Typed, Good, Bounded, [Next]_vars PROVE CountsFit(run')
<1> DEFINE Stands == /\ run'.failures = run.failures /\ run'.cursor = run.cursor
                     /\ run'.at = run.at \/ run'.at \in {"poll", "wait"} \/ run.at \notin {"poll", "wait"}
<1>1. run \in RunState /\ CountsFit(run) /\ run.failures \in 0..PollRetries BY DEF Typed, Bounded, CountsFit
<1>2. Stands => CountsFit(run') BY <1>1 DEF CountsFit
<1> HIDE DEF Stands
<1>3. CASE UNCHANGED run BY <1>2, <1>3 DEF Stands
<1>4. CASE \E a \in BOOLEAN : run' = [run EXCEPT !.aborted = a] BY <1>1, <1>2, <1>4 DEF Stands, RunState
<1>5. ASSUME NEW j \in Job, ServiceStarts(j) PROVE CountsFit(run')
  BY <1>1, <1>2, <1>5 DEF ServiceStarts, Stands, RunState
<1>6. CASE StartAnswered \/ BackoffEnds \/ StreamEnds
  BY <1>1, <1>2, <1>6 DEF StartAnswered, BackoffEnds, StreamEnds, Stands, RunState
<1>7. CASE StartFails \/ PollExpired \/ Aborted BY <1>7, FinallyCounts DEF StartFails, PollExpired, Aborted
<1>8. CASE Polled
  <2>1. ASSUME NEW c, run' = [run EXCEPT !.cursor = c, !.failures = 0] PROVE CountsFit(run')
    <3>1. run'.at = "poll" /\ run'.failures = 0 BY <1>1, <1>8, <2>1 DEF Polled, RunState
    <3>2. 0 \in 0..PollRetries BY DEF Assumed
    <3> QED BY <3>1, <3>2 DEF CountsFit
  <2> QED BY <1>8, <2>1, FinallyCounts DEF Polled
<1>9. CASE PollFails
  <2>1. CASE run.failures < PollRetries /\ run' = [run EXCEPT !.at = "wait", !.failures = @ + 1]
    <3>1. run'.at = "wait" /\ run'.failures = run.failures + 1 BY <1>1, <2>1 DEF RunState
    <3>2. run.failures + 1 \in 0..PollRetries BY <1>1, <2>1 DEF Assumed
    <3> QED BY <3>1, <3>2 DEF CountsFit
  <2> QED BY <1>9, <2>1, FinallyCounts DEF PollFails
<1>10. CASE AttachedEnds BY <1>10, FreshCounts DEF AttachedEnds
<1>11. CASE Run \/ RunAnyway
  <2>1. CASE UNCHANGED run BY <1>3, <2>1
  <2> QED BY <1>11, <2>1, BeginCounts DEF Run, RunAnyway
<1>12. CASE Reload BY <1>12, FreshCounts, BeginCounts DEF Reload
<1>13. CASE Cancel BY <1>3, <1>4, <1>13 DEF Cancel
<1>14. CASE OpenSession \/ CloseSession \/ CloseAnyway \/ SessionAnswers \/ Dismiss \/ Save
            \/ ServiceForgets \/ (\E j \in Job : ServiceWorks(j)) \/ UNCHANGED vars
  BY <1>3, <1>14
  DEF OpenSession, CloseSession, CloseAnyway, SessionAnswers, Dismiss, Save, ServiceForgets, ServiceWorks, vars
<1>15. CASE CloseTab \/ StopQuery \/ CancelAndClose \/ RollBackAndClose
  <2>1. ASSUME NEW t, Dispose(t) PROVE CountsFit(run')
    <3>1. PICK a \in BOOLEAN : run' = [run EXCEPT !.aborted = a] BY <2>1 DEF Dispose
    <3> QED BY <1>4, <3>1
  <2>2. ASSUME NEW t, AskTransaction(t) PROVE CountsFit(run') BY <1>3, <2>1, <2>2 DEF AskTransaction
  <2>3. CASE StopQuery BY <1>4, <2>3 DEF StopQuery
  <2> QED BY <1>3, <1>15, <2>1, <2>2, <2>3 DEF CloseTab, AskJob, CancelAndClose, RollBackAndClose
<1> QED
  BY <1>3, <1>5, <1>6, <1>7, <1>8, <1>9, <1>10, <1>11, <1>12, <1>13, <1>14, <1>15
  DEF Next, Person, StartReturns, PollReturns

LEMMA StepIsBounded == ASSUME Assumed, Typed, Good, Bounded, [Next]_vars PROVE Bounded'
<1> DEFINE Dialog == {"none", "attached", "detached", "leave", "job", "transaction", "session"}
           Rest == /\ down' \in BOOLEAN /\ session' \in SessionState /\ reloads' \in 0..MaxReloads
                   /\ dialog' \in Dialog
<1>1. CountsFit(run)' BY RunIsCounted DEF CountsFit
<1> SUFFICES Rest BY <1>1 DEF Bounded
<1>2. down \in BOOLEAN /\ session \in SessionState /\ reloads \in 0..MaxReloads /\ dialog \in Dialog
  BY DEF Bounded
<1>3. ASSUME NEW j \in Job, Delete(j) PROVE UNCHANGED down
  BY <1>3 DEF Delete, service, Service!RequestCancel
<1>4. ASSUME NEW t, t.active \in Job \cup {None}, Dispose(t) PROVE UNCHANGED down /\ session' = "none" /\ dialog' = "none"
  BY <1>3, <1>4 DEF Dispose, service
<1>5. CASE Person
  <2>1. CASE Run \/ RunAnyway \/ OpenSession \/ CloseSession \/ CloseAnyway \/ Dismiss
    BY <1>2, <2>1
    DEF Run, KindOfRun, RunAnyway, OpenSession, CloseSession, CloseAnyway, Dismiss, service, stored, SessionState
  <2>2. CASE Cancel BY <1>2, <1>3, <2>2 DEF Cancel, Typed, TabState, service, stored
  <2>3. CASE Reload
    <3>1. reloads' \in 0..MaxReloads BY <1>2, <2>3 DEF Reload, Assumed
    <3> QED BY <1>2, <2>3, <3>1 DEF Reload, service, SessionState
  <2>4. CASE CloseTab \/ StopQuery \/ CancelAndClose \/ RollBackAndClose
    <3>1. tab.active \in Job \cup {None} /\ [tab EXCEPT !.cancelOnClose = TRUE].active = tab.active
      BY DEF Typed, TabState
    <3>2. UNCHANGED reloads BY <2>4 DEF CloseTab, StopQuery, CancelAndClose, RollBackAndClose
    <3>3. ASSUME NEW t, t.active \in Job \cup {None}, AskTransaction(t) PROVE Rest
      BY <1>2, <1>4, <3>2, <3>3 DEF AskTransaction, service, SessionState
    <3>4. CASE Dispose(tab)
      BY <1>2, <1>4, <3>1, <3>2, <3>4 DEF SessionState
    <3>5. CASE UNCHANGED <<service, session, reloads>> /\ dialog' \in Dialog BY <1>2, <3>5 DEF service
    <3> HIDE DEF Rest
    <3> QED
      BY <2>4, <3>1, <3>2, <3>3, <3>4, <3>5
      DEF CloseTab, AskJob, StopQuery, CancelAndClose, RollBackAndClose
  <2> QED BY <1>5, <2>1, <2>2, <2>3, <2>4 DEF Person
<1>6. CASE StartReturns
  BY <1>2, <1>6 DEF StartReturns, ServiceStarts, StartAnswered, StartFails, Service!Start, service, stored
<1>7. CASE PollReturns
  BY <1>2, <1>7 DEF PollReturns, Polled, PollExpired, PollFails, Aborted, service
<1>8. CASE BackoffEnds \/ SessionAnswers \/ StreamEnds \/ AttachedEnds \/ Save
  BY <1>2, <1>8 DEF BackoffEnds, SessionAnswers, StreamEnds, AttachedEnds, Save, service, stored, SessionState
<1>9. CASE (\E j \in Job : ServiceWorks(j)) \/ ServiceForgets
  BY <1>2, <1>9
  DEF ServiceWorks, ServiceForgets, stored, Service!Publish, Service!End, Service!Forget, Service!Shutdown
<1>10. CASE UNCHANGED vars BY <1>2, <1>10 DEF vars, service, stored
<1> HIDE DEF Rest
<1> QED BY <1>5, <1>6, <1>7, <1>8, <1>9, <1>10 DEF Next

-----------------------------------------------------------------------------
(* The invariant *)

LEMMA InitGood == Assumed /\ Init => IInv
<1> SUFFICES ASSUME Assumed, Init PROVE IInv OBVIOUS
<1>1. tab = NewTab(None, FALSE) /\ run = NoRun /\ shown = <<>> /\ dialog = "none" /\ saved = Describe(tab)
      /\ history = [j \in Job |-> <<>>] /\ Service!Init
  BY DEF Init
<1>2. /\ tab \in TabState /\ tab.active = None /\ ~tab.running /\ ~tab.detachable /\ tab.open
      /\ run \in RunState /\ run.at = "idle" /\ run.kind = "none"
  BY <1>1, NoRunIsTyped DEF NewTab, TabState, NoRun
<1>3. saved \in [job : Job \cup {None}, recorded : BOOLEAN] /\ saved.job = None
  BY <1>1 DEF Describe, NewTab
<1>4. known = {} /\ status = [j \in Job |-> "none"] /\ events = [j \in Job |-> <<>>]
  BY <1>1 DEF Service!Init
<1>5. Typed
  <2>1. <<>> \in Seq(Event) /\ <<>> \in Seq(Ended) OBVIOUS
  <2>2. status \in [Job -> Service!Live \cup Ended \cup {"none"}] BY <1>4
  <2>3. events \in [Job -> Seq(Event)] BY <1>4, <2>1
  <2>4. history \in [Job -> Seq(Ended)] BY <1>1, <2>1
  <2>5. shown \in Seq(Event) BY <1>1, <2>1
  <2>6. saved \in [job : Job \cup {None}, recorded : BOOLEAN] \cup {None} BY <1>3
  <2> QED BY <1>2, <1>4, <2>2, <2>3, <2>4, <2>5, <2>6 DEF Typed
<1>6. Good BY <1>1, <1>2, <1>3, <1>4 DEF Good, RunFits, TabFits, SavedFits, HistoryFits, StreamFits, DialogFits
<1>7. Bounded
  <2>1. down = FALSE /\ session = "none" /\ reloads = 0 /\ dialog = "none" BY DEF Init, Service!Init
  <2>2. 0 \in 0..MaxReloads BY DEF Assumed
  <2> QED BY <1>1, <2>1, <2>2, FreshCounts DEF Bounded, SessionState
<1> QED BY <1>5, <1>6, <1>7 DEF IInv

LEMMA StepGood == IInv /\ [Next]_vars => IInv'
<1> SUFFICES ASSUME Assumed, Typed, Good, Bounded, [Next]_vars PROVE Typed' /\ Good'
  BY StepIsBounded DEF IInv, Assumed
<1>1. CASE Person
  BY <1>1, RunIsGood, RunAnywayIsGood, CancelIsGood, SessionIsGood, ClosingIsGood, DismissIsGood, ReloadIsGood
  DEF Person
<1>2. CASE StartReturns BY <1>2, ServiceStartsIsGood, StartAnsweredIsGood, StartFailsIsGood DEF StartReturns
<1>3. CASE PollReturns BY <1>3, PolledIsGood, PollExpiredIsGood, PollFailsIsGood, AbortedIsGood DEF PollReturns
<1>4. CASE BackoffEnds BY <1>4, BackoffEndsIsGood
<1>5. CASE StreamEnds BY <1>5, StreamEndsIsGood
<1>6. CASE AttachedEnds BY <1>6, AttachedEndsIsGood
<1>7. CASE SessionAnswers BY <1>7, SessionIsGood
<1>8. CASE Save BY <1>8, DismissIsGood
<1>9. CASE ServiceForgets \/ (\E j \in Job : ServiceWorks(j)) BY <1>9, ServiceIsGood
<1>10. CASE UNCHANGED vars
  <2>1. UNCHANGED service /\ UNCHANGED <<tab, run, shown, dialog, history, saved>> BY <1>10 DEF vars, stored
  <2> QED BY <2>1, StillGrows, StandingStep
<1> QED BY <1>1, <1>2, <1>3, <1>4, <1>5, <1>6, <1>7, <1>8, <1>9, <1>10 DEF Next

LEMMA PrefixIsSubSeq ==
    ASSUME NEW s \in Seq(Event), NEW t \in Seq(Event), Prefix(s, t)
    PROVE  s = SubSeq(t, 1, Len(s)) /\ (Len(s) = Len(t) => s = t)
<1>1. Len(s) \in Nat /\ Len(t) \in Nat /\ Len(s) <= Len(t) BY DEF Prefix
<1>2. \A i \in 1..Len(s) : t[i] \in Event BY <1>1, ElementOfSeq
<1>3. /\ SubSeq(t, 1, Len(s)) \in Seq(Event) /\ Len(SubSeq(t, 1, Len(s))) = Len(s)
      /\ \A i \in 1..Len(s) : SubSeq(t, 1, Len(s))[i] = t[i]
  BY <1>1, <1>2, SubSeqProperties
<1>4. s = SubSeq(t, 1, Len(s)) BY <1>1, <1>3, SeqEqual DEF Prefix
<1>5. Len(s) = Len(t) => s = t BY <1>1, SeqEqual DEF Prefix
<1> QED BY <1>4, <1>5

LEMMA IInvSuffices == IInv => TypeOK /\ HistoryOnce /\ ShownIsTheStream
<1> SUFFICES ASSUME IInv PROVE TypeOK /\ HistoryOnce /\ ShownIsTheStream OBVIOUS
<1>1. HistoryOnce BY DEF IInv, Good, HistoryFits, HistoryOnce
<1>2. ASSUME run.kind = "detached", run.job # None
      PROVE  /\ shown = SubSeq(events[run.job], 1, Len(shown))
             /\ run.ended \in Ended => shown = events[run.job]
  <2>1. run.job \in Job /\ shown \in Seq(Event) /\ events[run.job] \in Seq(Event)
    BY <1>2 DEF IInv, Typed, RunState
  <2> QED BY <1>2, <2>1, PrefixIsSubSeq DEF IInv, Good, StreamFits
<1>3. TypeOK
  <2>1. run \in RunState /\ run.failures \in 0..PollRetries /\ Len(shown) \in Nat BY DEF IInv, Typed, Bounded, CountsFit
  <2>2. run.cursor \in 0..Len(shown) BY <2>1 DEF IInv, Bounded, CountsFit, Good, RunFits
  <2>3. run \in [at : {"idle", "post", "started", "poll", "wait", "stream", "reread"},
                 kind : {"none", "attached", "detached"}, job : Job \cup {None}, cursor : 0..Len(shown),
                 failures : 0..PollRetries, aborted : BOOLEAN, ended : Ended \cup {"unknown", "expired"}]
    BY <2>1, <2>2 DEF RunState
  <2> QED BY <2>3 DEF IInv, Typed, Bounded, TypeOK, TabState, Ended
<1> QED BY <1>1, <1>2, <1>3 DEF ShownIsTheStream, Ended

-----------------------------------------------------------------------------
(* No step loses the job of the tab *)

LEMMA BeginGivesUp ==
    ASSUME Typed, Good, NEW kind, Begin(kind), run.at = "idle", kind = "detached" => ~Unresolved
    PROVE  JobIsNotLost
<1>1. CASE kind = "attached" BY <1>1 DEF Begin, Attached, NoRun, JobIsNotLost
<1>2. CASE kind = "detached"
  <2>1. tab.active # None /\ tab.active \in known => status[tab.active] \in Ended \/ ~tab.open
    BY <1>2 DEF Good, RunFits, TabFits, Unresolved
  <2> QED BY <2>1 DEF JobIsNotLost, Ended
<1> QED BY <1>1, <1>2 DEF Begin

LEMMA StepIsNotLost == IInv /\ [Next]_vars => [JobIsNotLost]_vars
<1> SUFFICES ASSUME Typed, Good, Next PROVE JobIsNotLost BY DEF IInv
<1> USE DEF JobIsNotLost
<1>1. ASSUME tab'.active = tab.active PROVE JobIsNotLost BY <1>1
<1>2. CASE Run
  <2>1. run.at = "idle" BY <1>2 DEF Run, Good, RunFits
  <2>2. CASE Reattach BY <2>2 DEF Reattach, Detached, Typed, TabState
  <2>3. CASE ~Reattaches /\ Begin(KindOfRun)
    <3>1. KindOfRun = "detached" => ~Unresolved BY <2>3 DEF KindOfRun, Reattaches, Unresolved
    <3> HIDE DEF JobIsNotLost
    <3> QED BY <2>1, <2>3, <3>1, BeginGivesUp
  <2>4. CASE UNCHANGED tab BY <2>4
  <2> QED BY <1>2, <2>2, <2>3, <2>4 DEF Run
<1>3. CASE RunAnyway
  <2>1. Begin(dialog) /\ run.at = "idle" /\ (dialog = "detached" => ~Unresolved)
    BY <1>3 DEF RunAnyway, Good, DialogFits
  <2> HIDE DEF JobIsNotLost
  <2> QED BY <2>1, BeginGivesUp
<1>4. CASE Reload
  <2>1. tab.open /\ tab.active # None => saved.job = tab.active BY <1>4 DEF Reload, Good, TabFits
  <2>2. tab'.active = saved.job
    <3>1. saved \in [job : Job \cup {None}, recorded : BOOLEAN] BY <1>4 DEF Reload, Typed
    <3>2. NewTab(saved.job, saved.recorded) \in TabState /\ NewTab(saved.job, saved.recorded).active = saved.job
      BY <3>1 DEF NewTab, TabState
    <3>3. CASE Detached(saved.job, NewTab(saved.job, saved.recorded)) BY <3>2, <3>3 DEF Detached, TabState
    <3>4. CASE tab' = NewTab(saved.job, saved.recorded) BY <3>2, <3>4
    <3> QED BY <1>4, <3>3, <3>4 DEF Reload
  <2> QED BY <2>1, <2>2
<1>5. CASE Cancel BY <1>5 DEF Cancel, Typed, TabState
<1>6. CASE OpenSession \/ CloseSession \/ CloseAnyway \/ SessionAnswers \/ Dismiss \/ Save
  BY <1>6 DEF OpenSession, CloseSession, CloseAnyway, SessionAnswers, Dismiss, Save
<1>7. CASE CloseTab \/ StopQuery \/ CancelAndClose \/ RollBackAndClose
  <2>1. ASSUME NEW t, ClosingTab(t), Dispose(t) \/ tab' = t PROVE tab'.active = tab.active
    BY <2>1 DEF Dispose, ClosingTab, Typed, TabState
  <2> QED BY <1>7, <2>1 DEF CloseTab, StopQuery, CancelAndClose, RollBackAndClose, AskJob, AskTransaction, ClosingTab
<1>8. ASSUME NEW t \in TabState, NEW job, NEW ended, NEW reattach, Finally(t, job, ended, reattach)
      PROVE  tab'.active = t.active
  BY <1>8 DEF Finally, TabState
<1>9. tab \in TabState BY DEF Typed
<1>10. CASE StartReturns
  BY <1>8, <1>9, <1>10 DEF StartReturns, ServiceStarts, StartAnswered, StartFails, Good, RunFits
<1>11. CASE Polled \/ PollFails \/ Aborted BY <1>8, <1>9, <1>11 DEF Polled, PollFails, Aborted
<1>12. CASE PollExpired BY <1>12 DEF PollExpired, Good, RunFits
<1>13. CASE BackoffEnds \/ StreamEnds \/ ServiceForgets \/ (\E j \in Job : ServiceWorks(j))
  BY <1>13 DEF BackoffEnds, StreamEnds, ServiceForgets, ServiceWorks
<1>14. CASE AttachedEnds BY <1>14 DEF AttachedEnds, Typed, TabState
<1> QED BY <1>2, <1>3, <1>4, <1>5, <1>6, <1>7, <1>10, <1>11, <1>12, <1>13, <1>14 DEF Next, Person, PollReturns

-----------------------------------------------------------------------------

LEMMA IInvHolds == Assumed /\ Spec => []IInv
  BY InitGood, StepGood, PTL DEF Spec

\* The tab, its session and what it runs keep their types, the cursor stays within what
\* is shown and the failed polls within those retried (app.js openQueryTab).
THEOREM TabIsTyped == Assumed /\ Spec => []TypeOK
  BY IInvHolds, IInvSuffices, PTL

\* However a job is detached from, found again and restored, its history entry is
\* written once (app.js openQueryTab, runDetached's finally).
THEOREM RecordedOnce == Assumed /\ Spec => []HistoryOnce
  BY IInvHolds, IInvSuffices, PTL

\* Across retries and reattachments nothing of the job's stream is shown twice or
\* left out (app.js openQueryTab, runDetached's poll loop).
THEOREM StreamIsShown == Assumed /\ Spec => []ShownIsTheStream
  BY IInvHolds, IInvSuffices, PTL

\* The tab gives its job up only when it is over, unknown or the run is attached
\* (app.js openQueryTab, run and restore).
THEOREM JobIsKept == Assumed /\ Spec => [][JobIsNotLost]_vars
  BY IInvHolds, StepIsNotLost, PTL DEF Spec
=============================================================================
